----------------------------- MODULE Instrument -----------------------------
(***************************************************************************)
(* Where the instrumentation pass (TracingNoGiri, trace/src/Giri/          *)
(* TracingNoGiri.cpp) places calls into the trace runtime around each     *)
(* instruction of a function.  The pass rewrites the instruction stream    *)
(* with insertBefore / insertAfter relative to an anchor instruction; this *)
(* module models the stream as a sequence of items and each visit* method  *)
(* as the same inserts, so the order of the emitted calls follows from the *)
(* anchors the code uses.                                                  *)
(*                                                                         *)
(* An instruction is a record [op, loc, src, val, mtx]: op is the LLVM     *)
(* category (a store, an atomic RMW, a memory-transfer intrinsic, a call   *)
(* to mutex_lock / mutex_unlock, ...), loc the destination, src the source *)
(* of a transfer, val the value a store writes, mtx the lock of a call.   *)
(* Every item remembers the index `at` of the instruction it belongs to;  *)
(* Numbering gives the id the runtime call passes for that instruction.    *)
(***************************************************************************)
EXTENDS Integers, Sequences, SequencesExt

\* The instruction categories the model covers: LLVM instructions and
\* memory intrinsics; direct calls by the callee class visitCallInst tells
\* apart ("call" is any other callee); inline asm; select.
Ops == {"load", "store", "rmw", "cas", "memset", "memcpy", "fence", "lock", "unlock",
        "uaccess", "uaccess_nt", "raw_memcpy", "raw_memset", "strncmp", "centflush",
        "call", "asm", "select", "dax", "gep", "dbg", "phi", "other"}

\* An inline asm string is modelled by the idioms of visitInlineAsm it
\* contains (ins.pat), its operand count (ins.nops) and whether its operand
\* list starts with uaccess helper functions (ins.ufn).
AsmIdioms == {"clflush $0", "xsaveopt $0", "mfence", "sfence", "barrier",
              "xchgq $0,$1", "xchgl $0,$1", "cmpxchg", "movnti %rax", "crc32q",
              "crc32b"}

\* An item of the rewritten stream: the original instruction ("inst") or a
\* call of a runtime entry point with its constant argument (incby, shift).
Item(fn, arg, at) == [fn |-> fn, arg |-> arg, at |-> at]

Inst(at)     == Item("inst", 0, at)
Call(fn, at) == Item(fn, 0, at)

\* Instruction::insertBefore / insertAfter against the anchor item.
Pos(s, anchor) == SelectInSeq(s, LAMBDA e : e = anchor)
InsertBefore(s, anchor, x) == InsertAt(s, Pos(s, anchor), x)
InsertAfter(s, anchor, x)  == InsertAt(s, Pos(s, anchor) + 1, x)

\* Variant: the acquire is placed at the first insertion point of the
\* function instead of before I.
AcquireAtEntry(s, at, incby) ==
  InsertAt(s, 1, Item("trace_acquire_sequence", incby, at))

\* getTrackSequence: trace_acquire_sequence(incby) placed before I.
getTrackSequence(s, at, incby) ==
  InsertBefore(s, Inst(at), Item("trace_acquire_sequence", incby, at))

\* Variant: the old value is read after the instruction.
OldValueAfter(s, at, shift) ==
  InsertAfter(s, Inst(at), Item("trace_old_store_value", shift, at))

\* trackOldStoredValue: trace_old_store_value(seq, ptr, size, shift) before I.
trackOldStoredValue(s, at, shift) ==
  InsertBefore(s, Inst(at), Item("trace_old_store_value", shift, at))

visitLoadInst(s, at) ==
  InsertBefore(s, Inst(at), Call("trace_load_inst", at))

\* Variant: a store reserves two sequence numbers.
StoreReservesTwo(s, at) ==
  LET s1 == getTrackSequence(s, at, 2)
      s2 == trackOldStoredValue(s1, at, 0)
  IN  InsertAfter(s2, Inst(at), Call("trace_store_inst", at))

\* Variant: the post-image call is placed before the store.
StorePostBefore(s, at) ==
  LET s1 == getTrackSequence(s, at, 1)
      s2 == trackOldStoredValue(s1, at, 0)
  IN  InsertBefore(s2, Inst(at), Call("trace_store_inst", at))

visitStoreInst(s, at) ==
  LET s1 == getTrackSequence(s, at, 1)
      s2 == trackOldStoredValue(s1, at, 0)
  IN  InsertAfter(s2, Inst(at), Call("trace_store_inst", at))

visitFenceInst(s, at) ==
  InsertBefore(s, Inst(at), Call("trace_fence_inst", at))

\* visitAtomicRMWInst / visitAtomicCmpXchgInst: the trace call goes after
\* the instruction, then one implicit fence before that call and one after.
AtomicRMW(s, at, fn) ==
  LET s1   == getTrackSequence(s, at, 1)
      s2   == trackOldStoredValue(s1, at, 0)
      call == Call(fn, at)
      s3   == InsertAfter(s2, Inst(at), call)
      s4   == InsertBefore(s3, call, Call("trace_implicit_fence", at))
  IN  InsertAfter(s4, call, Call("trace_implicit_fence", at))

visitAtomicRMWInst(s, at)     == AtomicRMW(s, at, "trace_rmw_inst")
visitAtomicCmpXchgInst(s, at) == AtomicRMW(s, at, "trace_xchg_inst")

\* visitMemSetInst: one sequence number, the old value of the destination.
visitMemSetInst(s, at) ==
  LET s1 == getTrackSequence(s, at, 1)
      s2 == trackOldStoredValue(s1, at, 0)
  IN  InsertAfter(s2, Inst(at), Call("trace_memset_inst", at))

\* Variant: a transfer reserves one sequence number.
TransferReservesOne(s, at) ==
  LET s1 == getTrackSequence(s, at, 1)
      s2 == trackOldStoredValue(s1, at, 1)
  IN  InsertAfter(s2, Inst(at), Call("trace_memtransfer_inst", at))

\* visitMemTransferInst: two sequence numbers, the old value of the
\* destination tagged with shift 1.
visitMemTransferInst(s, at) ==
  LET s1 == getTrackSequence(s, at, 2)
      s2 == trackOldStoredValue(s1, at, 1)
  IN  InsertAfter(s2, Inst(at), Call("trace_memtransfer_inst", at))

\* A store-like instruction whose trace call fn goes after it, with incby
\* sequence numbers and the old value tagged with shift: the shape of
\* visitStoreInst, visitRawMemSetCall, visitRawMemCpyCall, visitUaccessCall,
\* visitAsmMemSetNT.
SeqStore(s, at, incby, shift, fn) ==
  LET s1 == getTrackSequence(s, at, incby)
      s2 == trackOldStoredValue(s1, at, shift)
  IN  InsertAfter(s2, Inst(at), Call(fn, at))

\* visitAsmXchgLQ / visitAsmCAS: as an atomic RMW, with the asm trace call.
visitAsmXchgLQ(s, at) == AtomicRMW(s, at, "trace_inline_asm_xchglq")
visitAsmCAS(s, at)    == AtomicRMW(s, at, "trace_inline_asm_cas")

\* Variant: the old value of a movnti destination is read after the asm.
MemSetNTOldAfter(s, at) ==
  LET s1 == getTrackSequence(s, at, 1)
      s2 == OldValueAfter(s1, at, 0)
  IN  InsertAfter(s2, Inst(at), Call("trace_inline_asm_memsetnt", at))

visitAsmMemSetNT(s, at) == SeqStore(s, at, 1, 0, "trace_inline_asm_memsetnt")

visitAsmFlush(s, at) == InsertBefore(s, Inst(at), Call("trace_inline_asm_flush", at))
visitAsmFence(s, at) == InsertBefore(s, Inst(at), Call("trace_inline_asm_fence", at))

\* visitAsmCRC32: the operand traced as a load after the asm; nothing when
\* the operand is a register value, not a pointer.
visitAsmCRC32(s, ins, at) ==
  IF ins.src = "reg" THEN s ELSE InsertAfter(s, Inst(at), Call("trace_load_inst", at))

\* Variant: an asm uaccess reserves one sequence number.
AsmUaccessReservesOne(s, at) == SeqStore(s, at, 1, 1, "trace_uaccess_calls")

\* visitAsmUaccessCall / visitUaccessCall / visitUaccessNTCall: two
\* numbers, the destination's old value tagged with shift 1.
visitAsmUaccessCall(s, at) == SeqStore(s, at, 2, 1, "trace_uaccess_calls")
visitUaccessCall(s, at)    == SeqStore(s, at, 2, 1, "trace_uaccess_calls")
visitUaccessNTCall(s, at)  == SeqStore(s, at, 2, 1, "trace_uaccess_nt_calls")

\* visitRawMemCpyCall (memcpy, memmove, __memcpy_mcsafe, strncpy) and
\* visitRawMemSetCall: the shapes of the memory intrinsics.
visitRawMemCpyCall(s, at) == SeqStore(s, at, 2, 1, "trace_memtransfer_inst")
visitRawMemSetCall(s, at) == SeqStore(s, at, 1, 0, "trace_memset_inst")

\* visitAsmUnknown: an asm whose operand list starts with uaccess helper
\* functions (ins.ufn) is a uaccess (visitAsmUaccessCall: two numbers,
\* shift 1); any other gets an "unknown asm" record before it.
visitAsmUnknown(s, ins, at) ==
  IF ins.ufn
  THEN visitAsmUaccessCall(s, at)
  ELSE InsertBefore(s, Inst(at), Call("trace_inline_asm_unknown", at))

\* The if-chain of visitInlineAsm: the first idiom the asm string contains
\* decides, a cmpxchg is a CAS only with 10 operands.
AsmClass(ins) ==
  LET has(p) == p \in ins.pat
  IN  CASE has("clflush $0") \/ has("xsaveopt $0")          -> "flush"
        [] has("mfence") \/ has("sfence") \/ has("barrier")  -> "fence"
        [] has("xchgq $0,$1") \/ has("xchgl $0,$1")          -> "xchg"
        [] has("cmpxchg") /\ ins.nops = 10                  -> "cas"
        [] has("cmpxchg")                                    -> "unknown"
        [] has("movnti %rax")                                -> "memsetnt"
        [] has("crc32q") \/ has("crc32b")                    -> "crc32"
        [] OTHER                                             -> "unknown"

visitInlineAsm(s, ins, at) ==
  CASE AsmClass(ins) = "flush"    -> visitAsmFlush(s, at)
    [] AsmClass(ins) = "fence"    -> visitAsmFence(s, at)
    [] AsmClass(ins) = "xchg"     -> visitAsmXchgLQ(s, at)
    [] AsmClass(ins) = "cas"      -> visitAsmCAS(s, at)
    [] AsmClass(ins) = "memsetnt" -> visitAsmMemSetNT(s, at)
    [] AsmClass(ins) = "crc32"    -> visitAsmCRC32(s, ins, at)
    [] AsmClass(ins) = "unknown"  -> visitAsmUnknown(s, ins, at)

\* visitRawStrnCmpCall: both strings traced as loads before the call.
visitRawStrnCmpCall(s, at) ==
  InsertBefore(InsertBefore(s, Inst(at), Call("trace_load_inst", at)),
               Inst(at), Call("trace_load_inst", at))

\* Variant: a centralized flush reserves two sequence numbers.
CentralizedFlushReservesTwo(s, at) ==
  InsertBefore(getTrackSequence(s, at, 2), Inst(at), Call("trace_centralized_flush", at))

\* processCentralizedFlushCall: one sequence number, the flush record
\* before the call.
processCentralizedFlushCall(s, at) ==
  InsertBefore(getTrackSequence(s, at, 1), Inst(at), Call("trace_centralized_flush", at))

\* visitDaxDirectAccessCall: trace_dax_access(id, kaddr, return value)
\* after the call.
visitDaxDirectAccessCall(s, at) ==
  InsertAfter(s, Inst(at), Call("trace_dax_access", at))

\* processStructPtr (visitGetElementPtrInst): returns unless the GEP's
\* source type is a named struct in the struct annotation set (ins.st =
\* "annotated"); then trace_unknown_struct_ptr_inst after the GEP.
processStructPtr(s, ins, at) ==
  IF ins.st = "annotated"
  THEN InsertAfter(s, Inst(at), Call("trace_unknown_struct_ptr_inst", at))
  ELSE s

\* visitSelectInst: the condition traced before the select.
visitSelectInst(s, at) == InsertBefore(s, Inst(at), Call("trace_select_inst", at))

\* The first pass (visit(BB)): InstVisitor sends memory intrinsics to
\* visitMemSetInst / visitMemTransferInst and other calls to visitCallInst,
\* which dispatches inline asm and the callee classes; calls to mutex_lock
\* / mutex_unlock and other callees match none of its cases.
FirstPass(s, ins, at) ==
  CASE ins.op = "load"       -> visitLoadInst(s, at)
    [] ins.op = "store"      -> visitStoreInst(s, at)
    [] ins.op = "rmw"        -> visitAtomicRMWInst(s, at)
    [] ins.op = "cas"        -> visitAtomicCmpXchgInst(s, at)
    [] ins.op = "memset"     -> visitMemSetInst(s, at)
    [] ins.op = "memcpy"     -> visitMemTransferInst(s, at)
    [] ins.op = "fence"      -> visitFenceInst(s, at)
    [] ins.op = "select"     -> visitSelectInst(s, at)
    [] ins.op = "gep"        -> processStructPtr(s, ins, at)
    [] ins.op = "dax"        -> visitDaxDirectAccessCall(s, at)
    [] ins.op = "asm"        -> visitInlineAsm(s, ins, at)
    [] ins.op = "uaccess_nt" -> visitUaccessNTCall(s, at)
    [] ins.op = "uaccess"    -> visitUaccessCall(s, at)
    [] ins.op = "raw_memcpy" -> visitRawMemCpyCall(s, at)
    [] ins.op = "raw_memset" -> visitRawMemSetCall(s, at)
    [] ins.op = "strncmp"    -> visitRawStrnCmpCall(s, at)
    [] ins.op = "centflush"  -> processCentralizedFlushCall(s, at)
    [] ins.op \in {"lock", "unlock", "call", "dbg", "phi", "other"} -> s

\* The second pass (visitAllCalls) over direct calls that are not runtime
\* entry points: an implicit fence before a lock / after an unlock, then a
\* startCall / endCall bracket.  A memory-transfer intrinsic is a direct
\* call too ("llvm.memcpy...", "llvm.memset..."), matched by no filter.
IsCall(ins) == ins.op \in {"memset", "memcpy", "lock", "unlock", "uaccess", "uaccess_nt",
                            "raw_memcpy", "raw_memset", "strncmp", "centflush", "call",
                            "dax"}

visitMutexLockCalls(s, at) ==
  InsertBefore(s, Inst(at), Call("trace_implicit_fence", at))

visitMutexUnlockCalls(s, at) ==
  InsertAfter(s, Inst(at), Call("trace_implicit_fence", at))

\* Variant: the endCall record is placed before the call too.
EndCallBefore(s, ins, at) ==
  IF ~IsCall(ins) THEN s
  ELSE LET s1 == CASE ins.op = "lock"   -> visitMutexLockCalls(s, at)
                   [] ins.op = "unlock" -> visitMutexUnlockCalls(s, at)
                   [] OTHER             -> s
           s2 == InsertBefore(s1, Inst(at), Call("trace_start_calls", at))
       IN  InsertBefore(s2, Inst(at), Call("trace_end_calls", at))

visitAllCalls(s, ins, at) ==
  IF ~IsCall(ins) THEN s
  ELSE LET s1 == CASE ins.op = "lock"   -> visitMutexLockCalls(s, at)
                   [] ins.op = "unlock" -> visitMutexUnlockCalls(s, at)
                   [] OTHER             -> s
           s2 == InsertBefore(s1, Inst(at), Call("trace_start_calls", at))
       IN  InsertAfter(s2, Inst(at), Call("trace_end_calls", at))

\* processFuncStartEnd: trace_start_func before the first insertion point
\* of the entry block, which after both passes is the first item, and
\* trace_end_func before the return that closes the stream.
processFuncStartEnd(s) ==
  <<Call("trace_start_func", 0)>> \o s \o <<Call("trace_end_func", 0)>>

\* The method a pass applies to instruction i: the first pass's visitor or
\* visitAllCalls, whose inserts are anchored on that instruction.
Visit(pass, s, ins, i) ==
  IF pass = "first" THEN FirstPass(s, ins, i) ELSE visitAllCalls(s, ins, i)

\* InstVisitor::visit over the instructions of a function from index i on,
\* in order.
RECURSIVE VisitFrom(_, _, _, _)
VisitFrom(pass, s, body, i) ==
  CASE i > Len(body)        -> s
    [] Inst(i) \in Range(s) -> VisitFrom(pass, Visit(pass, s, body[i], i), body, i + 1)

\* TracingAnnot: an annotation file is its lines; readFromFile gives them as
\* a set, or the empty set (after an error message) when the file cannot be
\* opened, and addAnnotFromFile merges them into the set.
readFromFile(f) == IF f.open THEN Range(f.lines) ELSE {}

addAnnotFromFile(set, f) == set \cup readFromFile(f)

inAnnotSet(set, name) == name \in set

\* The file given as annot-runtime-tracing-fname-list: the runtime entry
\* points the pass inserts, one per line.
RuntimeFuncFile ==
  [open |-> TRUE,
   lines |-> <<"trace_acquire_sequence", "trace_old_store_value", "trace_load_inst",
   "trace_store_inst", "trace_fence_inst", "trace_implicit_fence", "trace_rmw_inst",
   "trace_xchg_inst", "trace_memset_inst", "trace_memtransfer_inst",
   "trace_select_inst", "trace_start_calls", "trace_end_calls", "trace_start_func",
   "trace_end_func", "trace_uaccess_calls", "trace_uaccess_nt_calls",
   "trace_centralized_flush", "trace_dax_access", "trace_unknown_struct_ptr_inst",
   "trace_dbg_var_store", "trace_inline_asm_flush", "trace_inline_asm_fence",
   "trace_inline_asm_xchglq", "trace_inline_asm_cas", "trace_inline_asm_memsetnt",
   "trace_inline_asm_unknown">>]

\* doInitialization: runtime_tracing_funcs_ from the runtime function file.
RuntimeTracingFuncs == addAnnotFromFile({}, RuntimeFuncFile)

\* Variant: visitAllCalls without its runtime-function check.
SkipNoRuntimeCall(item) == FALSE

\* visitAllCalls returns at once for a call of an annotated runtime function.
SkipRuntimeCall(item) == inAnnotSet(RuntimeTracingFuncs, item.fn)

\* visitAllCalls on a runtime call that is not skipped: a direct call of no
\* special callee, so it gets a startCall / endCall bracket with id 0 (the
\* numbering pass ran before the call existed).
visitRuntimeCall(s, p) ==
  InsertAt(InsertAt(s, p + 1, Call("trace_end_calls", 0)), p, Call("trace_start_calls", 0))

\* The runtime calls the first pass puts between two instructions number at
\* most a handful; a run of calls longer than this is one the walk keeps
\* extending.
RuntimeRunBound == 16

\* The second loop of runOnModule from position p over runtime calls, up to
\* the next original instruction: the loop iterates the list visitAllCalls
\* inserts into, so a call put after the current one is visited next.
RECURSIVE RuntimeFrom(_, _, _)
RuntimeFrom(s, p, n) ==
  CASE p > Len(s) \/ n = 0 \/ s[p].fn = "inst" -> [s |-> s, p |-> p]
    [] SkipRuntimeCall(s[p])                  -> RuntimeFrom(s, p + 1, n - 1)
    [] OTHER -> RuntimeFrom(visitRuntimeCall(s, p), p + 2, n - 1)

\* The same loop over the original instructions; a run of runtime calls
\* that does not end leaves the rest of the list unvisited.
RECURSIVE CallsFrom(_, _, _)
CallsFrom(s, body, p) ==
  LET r == RuntimeFrom(s, p, RuntimeRunBound)
  IN  CASE r.p > Len(r.s)         -> r.s
        [] r.s[r.p].fn # "inst"   -> r.s
        [] OTHER -> LET at == r.s[r.p].at
                        s1 == visitAllCalls(r.s, body[at], at)
                    IN  CallsFrom(s1, body, Pos(s1, Inst(at)) + 1)

SecondPass(first, body) == CallsFrom(first, body, 1)

-----------------------------------------------------------------------------
(* Struct debug variables.  A dbg.declare / dbg.value ("dbg") names an SSA *)
(* value (ins.var), says whether it is pointer-typed (ins.vptr), gives its *)
(* DI type as the chain of DWARF tags from the variable down (ins.ty) and  *)
(* whether the struct it ends in is annotated (ins.sn).  An instruction    *)
(* names its result (ins.res), a load or store its pointer operand         *)
(* (ins.ptr), and ins.vty is the type of the value a dbg call would trace: *)
(* a store's value operand, otherwise the result.                          *)

DerivedTags == {"pointer", "typedef", "const", "member"}

\* Variant: the while loop is an if, so only one layer is ever looked through.
UnwrapOnce(ty, i) == i

\* The while loop of visitDbgDeclareInst: step to the base type while the
\* current one is a pointer or typedef whose base is a derived type.
RECURSIVE Unwrap(_, _)
Unwrap(ty, i) ==
  IF ty[i] \in {"pointer", "typedef"} /\ i < Len(ty) /\ ty[i + 1] \in DerivedTags
  THEN Unwrap(ty, i + 1) ELSE i

\* visitDbgDeclareInst / visitDbgValueInst: does the DI type resolve to a
\* structure type (a composite struct, or one behind pointers / typedefs)?
DbgTypeStruct(ty) ==
  CASE ty[1] = "struct"          -> TRUE
    [] ty[1] \notin DerivedTags -> FALSE
    [] OTHER -> LET i == Unwrap(ty, 1)
                IN  ty[i] \in {"pointer", "typedef"} /\ i < Len(ty) /\ ty[i + 1] = "struct"

\* func_dbg_decl_map_ after the first pass: std::map::insert keeps the
\* first entry of a value.
DeclMap(body) ==
  LET D == {i \in 1..Len(body) : body[i].op = "dbg" /\ body[i].vptr /\ body[i].ty # <<>>
                                 /\ DbgTypeStruct(body[i].ty)}
  IN  [v \in {body[i].var : i \in D} |-> body[Min({i \in D : body[i].var = v})].sn]

DbgCall(s, i) == InsertAfter(s, Inst(i), Call("trace_dbg_var_store", i))

\* The traced value must be a pointer or a ConstantInt (cast by IntToPtr,
\* which is put between the instruction and the call and traces nothing).
processDbgVarStore(s, ins, i, st) ==
  IF st = "annot" /\ ins.vty \in {"ptr", "const"} THEN DbgCall(s, i) ELSE s

\* The pointer operand of a load is pointer-typed.
processDbgVarLoad1(s, i, st) == IF st = "annot" THEN DbgCall(s, i) ELSE s

processDbgVarLoad2(s, ins, i, st) ==
  IF st = "annot" /\ ins.vty \in {"ptr", "const"} THEN DbgCall(s, i) ELSE s

processDbgVarInst(s, ins, i, st) ==
  IF st = "annot" /\ ins.op # "phi" /\ ins.vty \in {"ptr", "const"} THEN DbgCall(s, i) ELSE s

\* One instruction of processDbgVarLoadStore: a store or load whose pointer
\* operand is in the map, then (for a load only if it was) its own result,
\* and for any other instruction its result.
DbgVisit(map, s, ins, i) ==
  CASE ins.op = "store" ->
         IF ins.ptr \in DOMAIN map THEN processDbgVarStore(s, ins, i, map[ins.ptr]) ELSE s
    [] ins.op = "load" ->
         IF ins.ptr \notin DOMAIN map THEN s
         ELSE LET s1 == processDbgVarLoad1(s, i, map[ins.ptr])
              IN  IF ins.res \in DOMAIN map THEN processDbgVarLoad2(s1, ins, i, map[ins.res])
                  ELSE s1
    [] OTHER ->
         IF ins.res \in DOMAIN map THEN processDbgVarInst(s, ins, i, map[ins.res]) ELSE s

RECURSIVE DbgFrom(_, _, _, _)
DbgFrom(map, s, body, i) ==
  CASE i > Len(body)        -> s
    [] Inst(i) \in Range(s) -> DbgFrom(map, DbgVisit(map, s, body[i], i), body, i + 1)

\* processDbgVarLoadStore, run by visitFunction when the map is not empty.
processDbgVarLoadStore(s, body) ==
  LET map == DeclMap(body)
  IN  IF DOMAIN map = {} THEN s ELSE DbgFrom(map, s, body, 1)

\* runOnModule for one function: visit(BB) over every instruction, then
\* visitAllCalls over every call (the runtime calls inserted by the first
\* pass are skipped as annotated functions), then visitFunction: the debug
\* variable uses, then the function bracket.
FirstPassOf(body) == VisitFrom("first", [i \in 1..Len(body) |-> Inst(i)], body, 1)

InstrumentFunction(body) ==
  LET first == FirstPassOf(body)
      calls == SecondPass(first, body)
  IN  processFuncStartEnd(processDbgVarLoadStore(calls, body))
=============================================================================
