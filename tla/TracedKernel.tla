---------------------------- MODULE TracedKernel ----------------------------
(***************************************************************************)
(* The kernel trace runtime (trace/runtime/pmfs/KernelTracing.c) linked   *)
(* into a file-system module whose code was rewritten by the               *)
(* instrumentation pass (module Instrument).  Kernel threads run the       *)
(* instrumented code concurrently; every runtime entry point is one step,  *)
(* since each takes trace_lock for the sequence counter and again for the  *)
(* buffer append and nothing between those two critical sections is read  *)
(* by another thread except the order of the buffer lists, which no        *)
(* consumer relies on (the trace is sorted by sequence number).  Buffers   *)
(* and files are therefore sets of records.                                *)
(*                                                                         *)
(* Module life cycle, as the pass wires it (processInitFSFunc,             *)
(* processExitFSFunc): init_module begins with trace_init_all and ends     *)
(* with trace_destroy_all(ret); the file-system threads run only between a *)
(* successful init_module and cleanup_module, which ends with              *)
(* trace_destroy_all(1).                                                   *)
(***************************************************************************)
EXTENDS Integers, Sequences, FiniteSets, SequencesExt, Numbering

CONSTANTS
  Threads,       \* kernel contexts running file-system code
  Locs,          \* kernel memory locations written by the code
  Mutexes,       \* kernel mutexes the code takes
  NoThread,      \* model value: a free mutex
  Prog,          \* [Threads -> Seq(instruction)]: the function each runs
  NVals,         \* memory holds values 0..NVals-1
  MaxSeq,        \* MAX_TRACE_SEQ_NUM, the "invalid" sequence number
  OldSvStart,    \* OLDSV_START_SEQ, offset of old-value tags
  MaxAllocFail,  \* bound on GFP_ATOMIC allocation failures in a behaviour
  OpenMayFail    \* may filp_open of the trace files fail?

Vals == 0..(NVals - 1)

\* The module's functions, one per thread, in some fixed order, numbered by
\* LoadStoreNumbering before the instrumentation; the query maps.
FuncOrder == SetToSeq(Threads)
FuncIndex(t) == CHOOSE k \in DOMAIN FuncOrder : FuncOrder[k] = t
LsIds == NumberModule([k \in DOMAIN FuncOrder |-> Prog[FuncOrder[k]]], 1, 0)
LsIDMap == IDMap(LsIds)
LsInstMap == InstMap(LsIDMap)

\* The instrumented code each thread runs.
Code == [t \in Threads |-> InstrumentFunction(Prog[t])]

VARIABLES
  mem,              \* contents of the kernel memory locations
  holder,           \* holder of each kernel mutex
  trace_enabled,    \* 0 disabled, 1 enabled, -1 errored
  trace_order_num,  \* the global sequence counter
  filp, sv_filp,    \* handles of the event file and the stored-value file
  wbuf,             \* trace_wbuf list: event records not yet written
  svbuf,            \* trace_svbuf list: stored-value records not yet written
  efile,            \* records written to the event file
  svfile,           \* records written to the stored-value file
  pc,               \* the rest of the instrumented code each thread runs
  seq,              \* var_seq: the sequence number a thread acquired
  loader,           \* where the module load / unload is
  allocFails,       \* number of failed allocations so far
  dropped,          \* records lost to a failed allocation (diagnosed)
  skipped,          \* numbers of user-space copies left untraced by design
  writes,           \* history: store-like effects on memory, in memory order
  oops              \* the host kernel dereferenced a bad file pointer

rt     == <<trace_enabled, trace_order_num, filp, sv_filp, wbuf, svbuf, efile, svfile>>
vars   == <<mem, holder, pc, seq, loader, allocFails, dropped, skipped, writes, oops,
           trace_enabled, trace_order_num, filp, sv_filp, wbuf, svbuf, efile, svfile>>

\* An event record: "seq, pid, label, id: N, ..." of output_record.  A
\* stored-value record: (seq, len, bytes) of trace_svbuf_add; its id and
\* pid are kept so that two records are told apart, not written.
EvRec(s, fn, id, t) == [kind |-> "ev", seq |-> s, fn |-> fn, val |-> 0, id |-> id, tid |-> t]
SvRec(s, v, id, t)  == [kind |-> "sv", seq |-> s, fn |-> "", val |-> v, id |-> id, tid |-> t]

Handles == {"null", "file", "errptr"}

\* An address below the kernel split (is_user_space_address).
UserAddr == "user"

-----------------------------------------------------------------------------
(* Runtime helpers                                                         *)

\* new_trace_*buf_node / kmalloc with GFP_ATOMIC may fail; the record is
\* then dropped with an error message.  At most one allocation of a call
\* fails, within the MaxAllocFail budget.
DropChoices(X) ==
  IF allocFails < MaxAllocFail THEN {{}} \cup {{x} : x \in X} ELSE {{}}

\* Variant: a failed allocation is not reported.
EmitSilentDrop(E, S) ==
  \E D \in DropChoices(E \cup S) :
    /\ wbuf'       = wbuf \cup (E \ D)
    /\ svbuf'      = svbuf \cup (S \ D)
    /\ allocFails' = allocFails + Cardinality(D)
    /\ UNCHANGED <<dropped, skipped>>

\* output_record / output_store_value: append to the in-memory lists.
Emit(E, S) ==
  \E D \in DropChoices(E \cup S) :
    /\ wbuf'       = wbuf \cup (E \ D)
    /\ svbuf'      = svbuf \cup (S \ D)
    /\ allocFails' = allocFails + Cardinality(D)
    /\ dropped'    = dropped \cup D
    /\ UNCHANGED skipped

NoEmit == UNCHANGED <<wbuf, svbuf, allocFails, dropped, skipped>>

\* TRACE_UNLOCK_OR_RETURN(1) and output_record: an entry point that takes
\* its own sequence number and appends one event record.
record_event(fn, id, ctx) ==
  IF trace_enabled = 0
  THEN NoEmit /\ UNCHANGED trace_order_num
  ELSE /\ trace_order_num' = trace_order_num + 1
       /\ Emit({EvRec(trace_order_num, fn, id, ctx)}, {})

\* trace_wbuf_write_all(is_locked): write every buffered record through
\* write_file, which writes through any non-NULL handle, and empty the
\* list.  An empty list returns before locking; otherwise the function
\* takes trace_lock unless told it is held, and its one caller holds it.
trace_wbuf_write_all(is_locked) ==
  /\ wbuf = {} \/ is_locked
  /\ efile' = IF filp = "file" THEN efile \cup wbuf ELSE efile
  /\ wbuf'  = {}

trace_svbuf_write_all(is_locked) ==
  /\ svbuf = {} \/ is_locked
  /\ svfile' = IF sv_filp = "file" THEN svfile \cup svbuf ELSE svfile
  /\ svbuf'  = {}

\* output_close_file: close_file clears filp; close_sv_file closes sv_filp
\* and clears filp again, leaving sv_filp set.
output_close_file ==
  /\ filp' = "null"
  /\ UNCHANGED sv_filp

\* kernel_write or filp_close through an ERR_PTR handle.
BadHandle == "errptr" \in {filp, sv_filp}

\* Variant: the buffers are written with is_locked = false under
\* trace_lock.
DestroyWritesUnlocked(ret) ==
  IF ret = 0 \/ trace_enabled = 0
  THEN UNCHANGED <<rt, oops>>
  ELSE /\ trace_wbuf_write_all(FALSE)
       /\ trace_svbuf_write_all(FALSE)
       /\ trace_enabled' = 0
       /\ output_close_file
       /\ oops' = (oops \/ BadHandle)
       /\ UNCHANGED trace_order_num

\* trace_destroy_all(init_fs_ret_val), under trace_lock: nothing unless
\* the value is non-zero and tracing was initialised (-1 included).
trace_destroy_all(ret) ==
  IF ret = 0 \/ trace_enabled = 0
  THEN UNCHANGED <<rt, oops>>
  ELSE /\ trace_wbuf_write_all(TRUE)
       /\ trace_svbuf_write_all(TRUE)
       /\ trace_enabled' = 0
       /\ output_close_file
       /\ oops' = (oops \/ BadHandle)
       /\ UNCHANGED trace_order_num

-----------------------------------------------------------------------------
(* Module life cycle                                                       *)
(* The pass puts trace_init_all first in init_module, then its             *)
(* trace_start_func; trace_end_func and trace_destroy_all(retval) before   *)
(* its return; trace_start_func first in cleanup_module, trace_end_func    *)
(* and trace_destroy_all(1) before its return.  loader is the position in  *)
(* that sequence.                                                          *)

\* The context insmod / rmmod run in.
LoaderCtx == "loader"

LoaderStates == {"insmod", "init_func", "init_body", "init_exit", "loaded",
                 "cleanup_body", "cleanup_exit", "unloaded"}

\* filp_open returns a file or an ERR_PTR, never NULL.
OpenResults == IF OpenMayFail THEN {"file", "errptr"} ELSE {"file"}

\* Variant: the counter starts at 0 (seq 0 is what the entry points use for
\* "no sequence number").
InitCounterZero ==
  /\ loader = "insmod"
  /\ trace_enabled = 0
  /\ \E f, sf \in OpenResults :
       /\ filp' = f
       /\ sv_filp' = sf
       /\ trace_enabled' = IF f = "null" \/ sf = "null" THEN -1 ELSE 1
  /\ trace_order_num' = 0
  /\ loader' = "init_func"
  /\ UNCHANGED <<wbuf, svbuf, efile, svfile, mem, holder, pc, seq,
                 allocFails, dropped, skipped, writes, oops>>

\* trace_init_all.  A fresh module instance has trace_enabled = 0, so the
\* early exit for an enabled trace is not taken.  The buffer caches are
\* created, both files opened, the counter reset and tracing enabled; the
\* failure check compares the handles with NULL.
trace_init_all ==
  /\ loader = "insmod"
  /\ trace_enabled = 0
  /\ \E f, sf \in OpenResults :
       /\ filp' = f
       /\ sv_filp' = sf
       /\ trace_enabled' = IF f = "null" \/ sf = "null" THEN -1 ELSE 1
  /\ trace_order_num' = 1
  /\ loader' = "init_func"
  /\ UNCHANGED <<wbuf, svbuf, efile, svfile, mem, holder, pc, seq,
                 allocFails, dropped, skipped, writes, oops>>

Done(t) == pc[t] = <<>>

\* trace_start_func / trace_end_func of init_module and cleanup_module.
\* cleanup_module runs once no file-system code runs any more.
loader_event(from, to, fn) ==
  /\ loader = from
  /\ from = "loaded" => \A t \in Threads : Done(t)
  /\ record_event(fn, 0, LoaderCtx)
  /\ loader' = to
  /\ UNCHANGED <<mem, holder, pc, seq, writes, oops, trace_enabled,
                 filp, sv_filp, efile, svfile>>

\* init_module returns ret, after trace_destroy_all(ret).
init_module_return ==
  /\ loader = "init_exit"
  /\ \E ret \in {0, 1} :
       /\ trace_destroy_all(ret)
       /\ loader' = IF ret = 0 THEN "loaded" ELSE "unloaded"
  /\ UNCHANGED <<mem, holder, pc, seq, allocFails, dropped, skipped, writes>>

\* cleanup_module returns after trace_destroy_all(1).
cleanup_module_return ==
  /\ loader = "cleanup_exit"
  /\ trace_destroy_all(1)
  /\ loader' = "unloaded"
  /\ UNCHANGED <<mem, holder, pc, seq, allocFails, dropped, skipped, writes>>

LoaderStep ==
  \/ trace_init_all
  \/ loader_event("init_func", "init_body", "trace_start_func")
  \/ loader_event("init_body", "init_exit", "trace_end_func")
  \/ init_module_return
  \/ loader_event("loaded", "cleanup_body", "trace_start_func")
  \/ loader_event("cleanup_body", "cleanup_exit", "trace_end_func")
  \/ cleanup_module_return

-----------------------------------------------------------------------------
(* The instrumented code of a thread: one step per item                    *)

Cur(t)  == Head(pc[t])
Ins(t)  == Prog[t][Cur(t).at]
Advance(t) == pc' = [pc EXCEPT ![t] = Tail(@)]

Running(t) == loader = "loaded" /\ ~Done(t)

\* trace_acquire_sequence(incby)
trace_acquire_sequence(t) ==
  /\ Cur(t).fn = "trace_acquire_sequence"
  /\ seq' = [seq EXCEPT ![t] = IF trace_enabled # 0 THEN trace_order_num ELSE MaxSeq]
  /\ trace_order_num' = IF trace_enabled # 0
                        THEN trace_order_num + Cur(t).arg ELSE trace_order_num
  /\ UNCHANGED <<mem, holder, writes, wbuf, svbuf, allocFails, dropped, skipped>>

\* trace_old_store_value(seq, ptr, size, shift): the pre-image of the
\* destination, tagged seq + shift + OLDSV_START_SEQ; nothing for an
\* invalid sequence number or a user-space destination.  TRACE_DRAM_ADDR
\* is true, so every kernel location is traced.
trace_old_store_value(t) ==
  /\ Cur(t).fn = "trace_old_store_value"
  /\ IF seq[t] >= MaxSeq \/ Ins(t).loc = UserAddr
     THEN NoEmit
     ELSE Emit({}, {SvRec(seq[t] + Cur(t).arg + OldSvStart, mem[Ins(t).loc], Cur(t).at, t)})
  /\ UNCHANGED <<mem, holder, writes, seq, trace_order_num>>

\* How an instruction changes the memory at its destination: "set" stores
\* ins.val, "inc" adds one, "cas" stores ins.val over 0, "copy" copies the
\* source (a user-space source holds ins.val).
WriteKind(ins) ==
  CASE ins.op \in {"store", "memset", "raw_memset"}                      -> "set"
    [] ins.op = "rmw"                                                   -> "inc"
    [] ins.op = "cas"                                                   -> "cas"
    [] ins.op \in {"memcpy", "raw_memcpy", "uaccess", "uaccess_nt"}     -> "copy"
    [] ins.op = "asm" /\ AsmClass(ins) \in {"xchg", "memsetnt"}         -> "set"
    [] ins.op = "asm" /\ AsmClass(ins) = "cas"                          -> "cas"
    [] ins.op = "asm" /\ AsmClass(ins) = "unknown" /\ ins.ufn           -> "copy"
    [] OTHER                                                            -> "none"

\* The effect of a store-like instruction, recorded in the history with the
\* sequence number the trace gives its write (seq + 1 for a copy).
NewValue(t) ==
  LET ins == Ins(t)
  IN  CASE WriteKind(ins) = "set"  -> ins.val
        [] WriteKind(ins) = "inc"  -> (mem[ins.loc] + 1) % NVals
        [] WriteKind(ins) = "cas"  -> IF mem[ins.loc] = 0 THEN ins.val ELSE mem[ins.loc]
        [] WriteKind(ins) = "copy" -> IF ins.src = UserAddr THEN ins.val ELSE mem[ins.src]

WriteSeq(t) == IF WriteKind(Ins(t)) = "copy" THEN seq[t] + 1 ELSE seq[t]

\* A write to kernel memory; a copy to user space changes no modelled
\* location.
ExecuteWrite(t) ==
  /\ WriteKind(Ins(t)) # "none"
  /\ Ins(t).loc # UserAddr
  /\ mem' = [mem EXCEPT ![Ins(t).loc] = NewValue(t)]
  /\ writes' = Append(writes, [loc |-> Ins(t).loc, seq |-> WriteSeq(t),
                               prev |-> mem[Ins(t).loc], new |-> NewValue(t)])
  /\ UNCHANGED holder

\* mutex_lock blocks until the mutex is free.
ExecuteLock(t) ==
  /\ Ins(t).op = "lock"
  /\ holder[Ins(t).mtx] = NoThread
  /\ holder' = [holder EXCEPT ![Ins(t).mtx] = t]
  /\ UNCHANGED <<mem, writes>>

ExecuteUnlock(t) ==
  /\ Ins(t).op = "unlock"
  /\ holder' = [holder EXCEPT ![Ins(t).mtx] = NoThread]
  /\ UNCHANGED <<mem, writes>>

ExecuteOther(t) ==
  /\ Ins(t).op \notin {"lock", "unlock"}
  /\ WriteKind(Ins(t)) = "none" \/ Ins(t).loc = UserAddr
  /\ UNCHANGED <<mem, holder, writes>>

\* The original instruction itself.
Execute(t) ==
  /\ Cur(t).fn = "inst"
  /\ \/ ExecuteWrite(t)
     \/ ExecuteLock(t)
     \/ ExecuteUnlock(t)
     \/ ExecuteOther(t)
  /\ UNCHANGED <<seq, trace_order_num, wbuf, svbuf, allocFails, dropped, skipped>>

\* trace_store_inst / trace_rmw_inst / trace_xchg_inst / trace_memset_inst
\* and the asm xchg / cas / movnti entry points:
\* the event record and the post-image, under the sequence acquired before
\* the instruction.
AsmPostImageCalls == {"trace_inline_asm_xchglq", "trace_inline_asm_cas",
                      "trace_inline_asm_memsetnt"}

PostImageCalls == {"trace_store_inst", "trace_rmw_inst", "trace_xchg_inst",
                   "trace_memset_inst"} \cup AsmPostImageCalls

trace_store_inst(t) ==
  /\ Cur(t).fn \in PostImageCalls
  /\ IF seq[t] >= MaxSeq
     THEN NoEmit
     ELSE Emit({EvRec(seq[t], Cur(t).fn, Cur(t).at, t)},
               {SvRec(seq[t], mem[Ins(t).loc], Cur(t).at, t)})
  /\ UNCHANGED <<mem, holder, writes, seq, trace_order_num>>

\* trace_memtransfer_inst(seq, id, dest, src, size): the load under seq,
\* the store and its post-image under seq + 1.
trace_memtransfer_inst(t) ==
  /\ Cur(t).fn = "trace_memtransfer_inst"
  /\ IF seq[t] >= MaxSeq
     THEN NoEmit
     ELSE Emit({EvRec(seq[t], "memtransLoad", Cur(t).at, t),
                EvRec(seq[t] + 1, "memtransStore", Cur(t).at, t)},
               {SvRec(seq[t] + 1, mem[Ins(t).loc], Cur(t).at, t)})
  /\ UNCHANGED <<mem, holder, writes, seq, trace_order_num>>

\* trace_uaccess_calls / trace_uaccess_nt_calls(seq, id, to, from, size):
\* nothing for a copy to user space, whose numbers stay unused; otherwise
\* the load under seq, the store and its post-image under seq + 1.
trace_uaccess_calls(t) ==
  /\ Cur(t).fn \in {"trace_uaccess_calls", "trace_uaccess_nt_calls"}
  /\ CASE seq[t] >= MaxSeq       -> NoEmit
       [] Ins(t).loc = UserAddr  -> /\ skipped' = skipped \cup {seq[t], seq[t] + 1}
                                   /\ UNCHANGED <<wbuf, svbuf, allocFails, dropped>>
       [] OTHER -> Emit({EvRec(seq[t], Cur(t).fn, Cur(t).at, t),
                         EvRec(seq[t] + 1, Cur(t).fn, Cur(t).at, t)},
                        {SvRec(seq[t] + 1, mem[Ins(t).loc], Cur(t).at, t)})
  /\ UNCHANGED <<mem, holder, writes, seq, trace_order_num>>

\* trace_centralized_flush(seq, id, ptr, size): the flush record under the
\* number acquired before the call.
trace_centralized_flush(t) ==
  /\ Cur(t).fn = "trace_centralized_flush"
  /\ IF seq[t] >= MaxSeq
     THEN NoEmit
     ELSE Emit({EvRec(seq[t], Cur(t).fn, Cur(t).at, t)}, {})
  /\ UNCHANGED <<mem, holder, writes, seq, trace_order_num>>

\* Entry points that take their own sequence number under trace_lock
\* (TRACE_UNLOCK_OR_RETURN(1)) and then append one record.
AsmSelfSequenced == {"trace_inline_asm_flush", "trace_inline_asm_fence",
                     "trace_implicit_fence", "trace_inline_asm_unknown"}

\* trace_dbg_var_store: "dbgStore" for a use of a struct debug variable.
DbgSelfSequenced == {"trace_dbg_var_store"}

SelfSequenced == {"trace_load_inst", "trace_fence_inst", "trace_start_calls",
                  "trace_end_calls", "trace_start_func", "trace_end_func",
                  "trace_select_inst"} \cup AsmSelfSequenced \cup DbgSelfSequenced

\* Variant: the event takes the counter without advancing it.
EventNoIncrement(t) ==
  /\ Cur(t).fn \in SelfSequenced
  /\ IF trace_enabled = 0
     THEN NoEmit
     ELSE Emit({EvRec(trace_order_num, Cur(t).fn, Cur(t).at, t)}, {})
  /\ UNCHANGED <<mem, holder, writes, seq, trace_order_num>>

trace_event(t) ==
  /\ Cur(t).fn \in SelfSequenced
  /\ record_event(Cur(t).fn, Cur(t).at, t)
  /\ UNCHANGED <<mem, holder, writes, seq>>

ThreadStep(t) ==
  /\ Running(t)
  /\ \/ trace_acquire_sequence(t)
     \/ trace_old_store_value(t)
     \/ Execute(t)
     \/ trace_store_inst(t)
     \/ trace_memtransfer_inst(t)
     \/ trace_uaccess_calls(t)
     \/ trace_centralized_flush(t)
     \/ trace_event(t)
  /\ Advance(t)
  /\ UNCHANGED <<loader, oops, trace_enabled, filp, sv_filp, efile, svfile>>

-----------------------------------------------------------------------------
Init ==
  /\ mem = [l \in Locs |-> 0]
  /\ holder = [m \in Mutexes |-> NoThread]
  /\ trace_enabled = 0
  /\ trace_order_num = 1
  /\ filp = "null" /\ sv_filp = "null"
  /\ wbuf = {} /\ svbuf = {} /\ efile = {} /\ svfile = {}
  /\ pc = Code
  /\ seq = [t \in Threads |-> 0]
  /\ loader = "insmod"
  /\ allocFails = 0
  /\ dropped = {}
  /\ skipped = {}
  /\ writes = <<>>
  /\ oops = FALSE

Step ==
  \/ LoaderStep
  \/ \E t \in Threads : ThreadStep(t)

\* Every runnable kernel context is eventually scheduled; a waiter on a
\* mutex gets it once its holder, which runs finite code, releases it.
Fairness ==
  /\ \A t \in Threads : WF_vars(ThreadStep(t))
  /\ WF_vars(LoaderStep)

Spec == Init /\ [][Step]_vars /\ Fairness

-----------------------------------------------------------------------------
(* The stored-value trace as the log of writes TraceLog describes: each    *)
(* post-image record (a tag below OLDSV_START_SEQ) with the pre-image      *)
(* record tagged OLDSV_START_SEQ above it is one entry, for the location   *)
(* its instruction writes; a location's contents are the post-image of    *)
(* its entry with the largest sequence number.  A post-image without its   *)
(* pre-image has old value -1, which no location holds.                    *)

PostImages == {v \in svbuf \cup svfile : v.seq < OldSvStart}

PreImage(v) ==
  LET P == {o \in svbuf \cup svfile : o.seq = v.seq + OldSvStart}
  IN  IF P = {} THEN -1 ELSE (CHOOSE o \in P : TRUE).val

TraceEntry(v) ==
  [seq |-> v.seq, loc |-> Prog[v.tid][v.id].loc, old |-> PreImage(v), new |-> v.val]

TraceLogOf == {TraceEntry(v) : v \in PostImages}

TraceMemOf ==
  [l \in Locs |->
     LET E == {e \in TraceLogOf : e.loc = l}
     IN  IF E = {} THEN 0 ELSE (CHOOSE e \in E : \A f \in E : f.seq <= e.seq).new]

TL == INSTANCE TraceLog WITH tmem <- TraceMemOf, log <- TraceLogOf, Seqs <- 1..MaxSeq

-----------------------------------------------------------------------------
(* Properties                                                              *)

Records   == wbuf \cup efile
SvRecords == svbuf \cup svfile

TypeOK ==
  /\ mem \in [Locs -> Vals]
  /\ holder \in [Mutexes -> Threads \cup {NoThread}]
  /\ trace_enabled \in {-1, 0, 1}
  /\ trace_order_num \in Nat \ {0}
  /\ filp \in Handles /\ sv_filp \in Handles
  /\ \A r \in Records : r.kind = "ev"
  /\ \A r \in SvRecords : r.kind = "sv"
  /\ \A t \in Threads : IsSuffix(pc[t], Code[t])
  /\ seq \in [Threads -> Nat]
  /\ loader \in LoaderStates
  /\ allocFails \in 0..MaxAllocFail
  /\ oops \in BOOLEAN

\* No two event records, and no two stored-value records, carry the same
\* sequence number: the incby each instrumented instruction acquires
\* covers every number its runtime calls use (seq and seq + 1 for a
\* transfer), and old-value tags never meet post-image tags.
SeqUnique ==
  /\ \A r1, r2 \in Records : r1.seq = r2.seq => r1 = r2
  /\ \A v1, v2 \in SvRecords : v1.seq = v2.seq => v1 = v2

\* Stores to one location reach memory in the order of their sequence
\* numbers, so sorting the trace by sequence number replays them in the
\* order they happened (trace_acquire_sequence runs just before the store,
\* inside whatever lock the code holds around it).
StoreOrderFollowsSeq ==
  \A i, j \in 1..Len(writes) :
    (i < j /\ writes[i].loc = writes[j].loc) => writes[i].seq < writes[j].seq

\* A pre-image record (tag seq + OLDSV_START_SEQ) holds the memory contents
\* immediately before the write it belongs to.
PreImageFaithful ==
  \A v \in SvRecords :
    v.seq >= OldSvStart =>
      \A i \in 1..Len(writes) :
        writes[i].seq = v.seq - OldSvStart => writes[i].prev = v.val

\* After the module is unloaded every sequence number handed out is in the
\* event file, belongs to a diagnosed drop, or to a copy to user space the
\* uaccess entry points skip by design: no number is reserved by the pass
\* that no runtime call uses.
EverySeqAccounted ==
  (loader = "unloaded" /\ ~oops) =>
    {r.seq : r \in efile} \cup {d.seq : d \in {x \in dropped : x.kind = "ev"}} \cup skipped
      = 1..(trace_order_num - 1)

\* The uses of struct debug variables each dbgStore record stands for, as
\* the spec describes the declaration map: pointer and typedef layers of a
\* declared type are unwrapped and a structure type must remain; a store,
\* a load through, and a load, GEP or other value of such a variable whose
\* struct is annotated touches it (a load both ways may touch it twice).
SpecStruct(ty) ==
  LET K == {j \in 1..Len(ty) : ty[j] \notin {"pointer", "typedef"}}
  IN  K # {} /\ ty[Min(K)] = "struct"

SpecAnnotated(body, v) ==
  \E i \in 1..Len(body) :
    /\ body[i].op = "dbg" /\ body[i].vptr /\ body[i].var = v /\ SpecStruct(body[i].ty)
    /\ body[i].sn = "annot"

SpecDbgUses(body, i) ==
  LET ins       == body[i]
      traceable == ins.vty \in {"ptr", "const"}
      Touch(b)  == IF b THEN 1 ELSE 0
  IN  CASE ins.op = "store" -> Touch(SpecAnnotated(body, ins.ptr) /\ traceable)
        [] ins.op = "load"  -> Touch(SpecAnnotated(body, ins.ptr))
                               + Touch(SpecAnnotated(body, ins.res) /\ traceable)
        [] OTHER            -> Touch(SpecAnnotated(body, ins.res) /\ ins.op # "phi" /\ traceable)

\* After unloading, every use of an annotated struct debug variable in the
\* body of a thread that ran to its end while the module was loaded has exactly its dbgStore records in the event file or
\* among the diagnosed drops: processDbgVarLoadStore places one
\* trace_dbg_var_store per use and the runtime numbers and records it.
DbgUsesRecorded ==
  (loader = "unloaded" /\ ~oops) =>
    \A t \in {u \in Threads : Done(u)} : \A i \in DOMAIN Prog[t] :
      Cardinality({r \in efile \cup dropped : r.fn = "trace_dbg_var_store" /\ r.tid = t
                                               /\ r.id = i})
        = SpecDbgUses(Prog[t], i)

\* runOnModule's second loop visits the list visitAllCalls inserts into,
\* so it also meets the startCall / endCall / fence calls it just placed.
\* Every one of them must be skipped as a runtime function: then the walk
\* ends, and each thread's code holds exactly the calls of visiting each
\* original call once (spec: a second pass visits every call instruction).
SecondPassVisitsEachCallOnce ==
  \A t \in Threads :
    LET first == FirstPassOf(Prog[t])
    IN  SecondPass(first, Prog[t]) = VisitFrom("calls", first, Prog[t], 1)

\* Every event the pass tags with an instruction id (all but the function
\* bracket, tagged with the entry block's number, and dbgStore, whose value
\* need not be a numbered instruction) carries the id LoadStoreNumbering
\* gave that instruction through getInstNum: the id is not 0, the query's
\* asserts hold, and InstMap resolves it to the instruction that emitted it.
IdEvents(r) == r.kind = "ev" /\ r.fn \notin {"trace_start_func", "trace_end_func", "trace_dbg_var_store"}

RecordIdsResolve ==
  /\ QueryAssertsHold(LsIDMap)
  /\ \A r \in {e \in efile : IdEvents(e)} :
       LET id == getInstNum(LsIDMap, FuncIndex(r.tid), r.id)
       IN  id # 0 /\ LsInstMap[id] = <<FuncIndex(r.tid), r.id>>

\* The module is eventually unloaded with its trace written out.
Termination == <>(loader = "unloaded")

\* The trace implements TraceLog: every post-image trace_store_inst (or a
\* transfer, RMW or asm entry point) appends enters the log in one step,
\* after every earlier write to its location, with the pre-image
\* trace_old_store_value recorded equal to the post-image of the previous
\* write there; records moved from the buffer to the file
\* (trace_svbuf_write_all) are never lost on the way.
\* (TL!Spec, with the stuttering case written first: most steps of the
\* kernel leave the trace unchanged.)
TraceLogRefined == TL!Init /\ [][TL!vars' = TL!vars \/ TL!Next]_TL!vars

\* The implicit fence the pass puts "before" an atomic read-modify-write is
\* ordered before it in the trace.
FenceBeforeAtomic ==
  \A r \in Records :
    r.fn \in {"trace_rmw_inst", "trace_xchg_inst"} =>
      \E f \in Records : /\ f.fn = "trace_implicit_fence"
                         /\ f.tid = r.tid /\ f.id = r.id
                         /\ f.seq < r.seq

\* r is a record of the instrumentation of a call op(mx) in a thread's code.
OnMutex(r, op, mx) ==
  /\ r.tid \in Threads
  /\ r.id \in DOMAIN Prog[r.tid]
  /\ Prog[r.tid][r.id].op = op
  /\ Prog[r.tid][r.id].mtx = mx

\* The endCall record of a mutex_lock (written once the lock is held) and
\* the startCall record of a mutex_unlock (written while it is still held).
Acquired(r, mx) == r.fn = "trace_end_calls" /\ OnMutex(r, "lock", mx)
Releasing(r, mx) == r.fn = "trace_start_calls" /\ OnMutex(r, "unlock", mx)

\* Critical sections of one mutex do not overlap in sequence order: between
\* one thread's acquisition of a mutex and a later acquisition by another
\* thread lies the first thread's release.  The startCall / endCall
\* brackets visitAllCalls puts around mutex_lock and mutex_unlock are the
\* only records of lock hand-over a consumer has.
CriticalSectionsDisjoint ==
  \A mx \in Mutexes, a, b \in Records :
    (Acquired(a, mx) /\ Acquired(b, mx) /\ a.tid # b.tid /\ a.seq < b.seq) =>
      \E u \in Records : Releasing(u, mx) /\ u.tid = a.tid /\ a.seq < u.seq /\ u.seq < b.seq

\* The implicit fence that stands for a mutex_unlock is ordered before the
\* next holder's acquisition of the mutex, as the release it models is.
UnlockFenceBeforeNextHolder ==
  \A mx \in Mutexes, f, b \in Records :
    (/\ f.fn = "trace_implicit_fence" /\ OnMutex(f, "unlock", mx)
     /\ Acquired(b, mx) /\ b.tid # f.tid
     /\ \E a \in Records : Acquired(a, mx) /\ a.tid = f.tid /\ a.seq < b.seq)
    => f.seq < b.seq

\* A failed open of a trace file leaves the runtime degraded, never
\* crashes the host kernel.
NoHostCrash == ~oops
=============================================================================
