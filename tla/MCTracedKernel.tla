--------------------------- MODULE MCTracedKernel ---------------------------
(***************************************************************************)
(* Instances of TracedKernel for TLC: two kernel threads running small     *)
(* file-system functions over two locations and one mutex.                 *)
(***************************************************************************)
EXTENDS TracedKernel

CONSTANTS t1, t2, x, y, m

ThreadsMC == {t1, t2}
ThreadOne == {t1}
LocsMC    == {x, y}
MutexesMC == {m}

\* An instruction of the file-system code; pat, nops and ufn describe an
\* inline asm call (its idioms, operand count, uaccess helper operands).
Asm(pat, nops, ufn, loc, src, val) ==
  [op |-> "asm", loc |-> loc, src |-> src, val |-> val, mtx |-> m,
   pat |-> pat, nops |-> nops, ufn |-> ufn,
   res |-> "", ptr |-> "", vty |-> "other", var |-> "", vptr |-> FALSE, ty |-> <<>>, sn |-> ""]
I(op, loc, src, val, mtx) ==
  [op |-> op, loc |-> loc, src |-> src, val |-> val, mtx |-> mtx,
   pat |-> {}, nops |-> 0, ufn |-> FALSE,
   res |-> "", ptr |-> "", vty |-> "other", var |-> "", vptr |-> FALSE, ty |-> <<>>, sn |-> ""]
Load(l)      == I("load", l, l, 0, m)
Store(l, v)  == I("store", l, l, v, m)
RMW(l)       == I("rmw", l, l, 0, m)
CAS(l, v)    == I("cas", l, l, v, m)
Memset(l, v) == I("memset", l, l, v, m)
Memcpy(d, s) == I("memcpy", d, s, 0, m)
Fence        == I("fence", x, x, 0, m)
Lock(mx)     == I("lock", x, x, 0, mx)
Unlock(mx)   == I("unlock", x, x, 0, mx)

\* Lock-disciplined code: a store and an atomic increment of the same
\* location, each inside the mutex m.
ProgLocked ==
  [t \in ThreadsMC |->
     IF t = t1 THEN <<Lock(m), Store(x, 1), Unlock(m)>>
               ELSE <<Lock(m), RMW(x), Unlock(m)>>]

\* One thread running every other kind of instruction, for the runs that
\* vary the runtime's environment.
ProgSingle ==
  [t \in ThreadsMC |->
     IF t = t1 THEN <<Load(x), Lock(m), CAS(y, 1), Memcpy(x, y), Memset(y, 0), Unlock(m),
                   Fence>>
               ELSE <<>>]

\* Calls the first pass dispatches by callee and inline asm kinds.
CallI(op, d, s, v) == I(op, d, s, v, m)
AsmFlush     == Asm({"clflush $0"}, 2, FALSE, x, x, 0)
AsmFence     == Asm({"sfence"}, 1, FALSE, x, x, 0)
AsmXchg(l)   == Asm({"xchgq $0,$1"}, 3, FALSE, l, l, 1)
AsmCAS16(l)  == Asm({"cmpxchg"}, 10, FALSE, l, l, 1)
AsmCASOther  == Asm({"cmpxchg"}, 6, FALSE, x, x, 1)
AsmMovnti(l, v) == Asm({"movnti %rax"}, 4, FALSE, l, l, v)
AsmCRC(src)  == Asm({"crc32q"}, 3, FALSE, x, src, 0)
AsmUaccess(d, s) == Asm({}, 6, TRUE, d, s, 1)

\* copy_from_user into x, copy_to_user from x, raw memcpy / memset calls,
\* strncmp, a centralized flush and every asm idiom, in one thread.
ProgCalls ==
  [t \in ThreadsMC |->
     IF t = t1 THEN <<CallI("uaccess", x, UserAddr, 1), CallI("uaccess_nt", UserAddr, x, 0),
                      AsmUaccess(x, UserAddr), CallI("raw_memcpy", x, y, 0),
                      CallI("raw_memset", x, x, 0), CallI("strncmp", x, y, 0),
                      CallI("centflush", x, x, 0), CallI("call", x, x, 0),
                      I("select", x, x, 0, m), AsmFlush, AsmFence, AsmXchg(x), AsmCAS16(x),
                      AsmCASOther, AsmMovnti(x, 0), AsmCRC(y), AsmCRC("reg")>>
               ELSE <<>>]

\* Debug intrinsics and uses of the SSA values they describe.
Dbg(v, ty, sn)         == [I("dbg", x, x, 0, m) EXCEPT !.var = v, !.vptr = TRUE, !.ty = ty, !.sn = sn]
StoreVia(l, p, v, vty) == [Store(l, v) EXCEPT !.ptr = p, !.vty = vty]
LoadVia(l, p, r)       == [Load(l) EXCEPT !.ptr = p, !.res = r, !.vty = "ptr"]
Value(op, r)           == [I(op, x, x, 0, m) EXCEPT !.res = r, !.vty = "ptr"]

\* Struct debug variables: p behind a typedef, q behind a const (not
\* unwrapped), r of a struct not annotated, v loaded through p, w behind
\* two pointers, z a struct value of a phi.
ProgDbg ==
  <<Dbg("p", <<"pointer", "typedef", "struct">>, "annot"),
    Dbg("q", <<"pointer", "const", "struct">>, "annot"),
    Dbg("r", <<"pointer", "struct">>, "other"),
    Dbg("v", <<"pointer", "struct">>, "annot"),
    Dbg("w", <<"typedef", "pointer", "pointer", "struct">>, "annot"),
    Dbg("z", <<"struct">>, "annot"),
    StoreVia(x, "p", 1, "ptr"), StoreVia(y, "p", 1, "other"), StoreVia(x, "q", 0, "const"),
    StoreVia(y, "r", 0, "ptr"), LoadVia(x, "p", "v"), Value("other", "w"), Value("phi", "z")>>

\* A load whose result is a struct pointer, through an undeclared pointer.
ProgDbgLoad ==
  [t \in ThreadsMC |-> <<Dbg("v", <<"pointer", "struct">>, "annot"), LoadVia(x, "a", "v")>>]

\* Both of the above in one thread.
ProgAllKinds ==
  [t \in ThreadsMC |-> ProgSingle[t] \o ProgCalls[t] \o ProgDbg]
=============================================================================
