------------------------------ MODULE NvmmRange ------------------------------
(***************************************************************************)
(* The persistent-memory address window of the kernel trace runtime        *)
(* (trace/runtime/pmfs/KernelTracing.c) and the struct-pointer events      *)
(* classified against it.  The pass (module Instrument) puts               *)
(* trace_dax_access after every dax_direct_access call and                 *)
(* trace_unknown_struct_ptr_inst after every GEP into an annotated struct. *)
(* trace_dax_access takes its sequence number under trace_lock and writes  *)
(* nvmm_virt_start_addr, nvmm_virt_size and nvmm_virt_end_addr after the   *)
(* unlock; trace_unknown_struct_ptr_inst reads the three globals with no   *)
(* lock, one load at a time, and takes trace_lock only for the sequence    *)
(* number of the record it chooses.  Each load and each store of a global  *)
(* is one step; a locked sequence number and the record it numbers are one *)
(* step, since records are kept as a set ordered by their numbers.         *)
(*                                                                         *)
(* The module is loaded and tracing enabled throughout (trace_init_all has *)
(* reset the window), so TRACE_UNLOCK_OR_RETURN always proceeds.  The      *)
(* window globals are void * / long; pointer sums wrap modulo AddrMod.     *)
(***************************************************************************)
EXTENDS Integers, Sequences, FiniteSets, Instrument

CONSTANTS
  Accessors,  \* kernel contexts computing a pointer into an annotated struct
  Mounter,    \* the context that maps the device with dax_direct_access
  Ptrs,       \* addresses of the annotated struct objects
  StSize,     \* getStructSize of the annotated struct
  KAddrs,     \* values of *kaddr after dax_direct_access
  DaxRets,    \* return values of dax_direct_access: page counts or -errno
  PageSize,   \* the 4096 of trace_dax_access, scaled down
  AddrMod     \* 2^(pointer width), scaled down

Ctx == Accessors \cup {Mounter}

\* The instructions the contexts run: a dax_direct_access call, and a GEP
\* whose source type is a named struct of the struct annotation set.
DaxCall   == [op |-> "dax"]
StructGEP == [op |-> "gep", st |-> "annotated"]

Code == [c \in Ctx |-> InstrumentFunction(IF c = Mounter THEN <<DaxCall>>
                                                          ELSE <<StructGEP>>)]

VARIABLES
  nvmm_virt_start_addr, nvmm_virt_end_addr, nvmm_virt_size,
  trace_order_num,  \* the global sequence counter
  records,          \* event records output so far
  pc,               \* the rest of the instrumented code each context runs
  step,             \* where a context is inside the runtime entry point
  seq,              \* the sequence number trace_dax_access acquired
  ptr,              \* the struct pointer each GEP computed
  kaddr, ret        \* *kaddr and the return value of dax_direct_access

window == <<nvmm_virt_start_addr, nvmm_virt_end_addr, nvmm_virt_size>>
vars   == <<window, trace_order_num, records, pc, step, seq, ptr, kaddr, ret>>

\* "seq, pid, label, ..." of output_record: the struct pointer of a struct
\* record, the window (start, end) of a DaxDevInfo record.
Rec(s, label, p, lo, hi) == [seq |-> s, label |-> label, ptr |-> p, lo |-> lo, hi |-> hi]

Cur(c) == Head(pc[c])

Advance(c) ==
  /\ pc' = [pc EXCEPT ![c] = Tail(@)]
  /\ step' = [step EXCEPT ![c] = "entry"]

Goto(c, to) == step' = [step EXCEPT ![c] = to] /\ UNCHANGED pc

\* Variant: the record numbered without advancing the counter.
OutputNoIncrement(label, p, lo, hi) ==
  /\ records' = records \cup {Rec(trace_order_num, label, p, lo, hi)}
  /\ UNCHANGED trace_order_num

\* trace_lock; TRACE_UNLOCK_OR_RETURN(1); output_record(seq, label ...).
Output(label, p, lo, hi) ==
  /\ records' = records \cup {Rec(trace_order_num, label, p, lo, hi)}
  /\ trace_order_num' = trace_order_num + 1

\* check_dest_addr_nvmm(ptr, size): start and end each read once.
check_dest_addr_nvmm(p) ==
  /\ nvmm_virt_start_addr > 0
  /\ p >= nvmm_virt_start_addr
  /\ (p + StSize) % AddrMod <= nvmm_virt_end_addr

-----------------------------------------------------------------------------
\* The original instruction: dax_direct_access returns pages or -errno and
\* fills *kaddr; a GEP computes a pointer to one of the struct objects.
Execute(c) ==
  /\ Cur(c).fn = "inst"
  /\ IF c = Mounter
     THEN \E r \in DaxRets, a \in KAddrs :
            ret' = [ret EXCEPT ![c] = r] /\ kaddr' = [kaddr EXCEPT ![c] = a]
            /\ UNCHANGED ptr
     ELSE \E p \in Ptrs : ptr' = [ptr EXCEPT ![c] = p] /\ UNCHANGED <<ret, kaddr>>
  /\ Advance(c)
  /\ UNCHANGED <<window, trace_order_num, records, seq>>

\* trace_start_func / trace_end_func / trace_start_calls / trace_end_calls.
trace_event(c) ==
  /\ Cur(c).fn \in {"trace_start_func", "trace_end_func", "trace_start_calls",
                    "trace_end_calls"}
  /\ Output(Cur(c).fn, 0, 0, 0)
  /\ Advance(c)
  /\ UNCHANGED <<window, seq, ptr, kaddr, ret>>

\* Variant: the window stored before the sequence number is taken.
DaxRangeBeforeSeq(c) ==
  /\ Cur(c).fn = "trace_dax_access"
  /\ \/ /\ step[c] = "entry"
        /\ nvmm_virt_start_addr' = kaddr[c]
        /\ Goto(c, "set_size")
        /\ UNCHANGED <<nvmm_virt_end_addr, nvmm_virt_size, trace_order_num, records, seq>>
     \/ /\ step[c] = "set_size"
        /\ nvmm_virt_size' = ret[c] * PageSize
        /\ Goto(c, "set_end")
        /\ UNCHANGED <<nvmm_virt_start_addr, nvmm_virt_end_addr, trace_order_num, records, seq>>
     \/ /\ step[c] = "set_end"
        /\ nvmm_virt_end_addr' = (nvmm_virt_start_addr + nvmm_virt_size) % AddrMod
        /\ Goto(c, "set_start")
        /\ UNCHANGED <<nvmm_virt_start_addr, nvmm_virt_size, trace_order_num, records, seq>>
     \/ /\ step[c] = "set_start"
        /\ Output("DaxDevInfo", 0, nvmm_virt_start_addr, nvmm_virt_end_addr)
        /\ Advance(c)
        /\ UNCHANGED <<window, seq>>
  /\ UNCHANGED <<ptr, kaddr, ret>>

\* trace_dax_access(id, kaddr, size): the sequence number under the lock,
\* then the three window stores with no lock, then the DaxDevInfo record
\* (output after the last store; no other context writes the window).
trace_dax_access(c) ==
  /\ Cur(c).fn = "trace_dax_access"
  /\ \/ /\ step[c] = "entry"
        /\ seq' = [seq EXCEPT ![c] = trace_order_num]
        /\ trace_order_num' = trace_order_num + 1
        /\ Goto(c, "set_start")
        /\ UNCHANGED <<window, records>>
     \/ /\ step[c] = "set_start"
        /\ nvmm_virt_start_addr' = kaddr[c]
        /\ Goto(c, "set_size")
        /\ UNCHANGED <<nvmm_virt_end_addr, nvmm_virt_size, trace_order_num, records, seq>>
     \/ /\ step[c] = "set_size"
        /\ nvmm_virt_size' = ret[c] * PageSize
        /\ Goto(c, "set_end")
        /\ UNCHANGED <<nvmm_virt_start_addr, nvmm_virt_end_addr, trace_order_num, records, seq>>
     \/ /\ step[c] = "set_end"
        /\ nvmm_virt_end_addr' = (nvmm_virt_start_addr + nvmm_virt_size) % AddrMod
        /\ records' = records \cup {Rec(seq[c], "DaxDevInfo", 0, nvmm_virt_start_addr,
                                        nvmm_virt_end_addr')}
        /\ Advance(c)
        /\ UNCHANGED <<nvmm_virt_start_addr, nvmm_virt_size, trace_order_num, seq>>
  /\ UNCHANGED <<ptr, kaddr, ret>>

\* trace_pm_struct_ptr_inst: TRACE_DRAM_ADDR makes its own range check
\* always pass; the record is numbered under the lock.
trace_pm_struct_ptr_inst(c) == Output("PMStructPtr", ptr[c], 0, 0) /\ Advance(c)

\* trace_dram_struct_ptr_inst: no range check; numbered under the lock.
trace_dram_struct_ptr_inst(c) == Output("DRAMStructPtr", ptr[c], 0, 0) /\ Advance(c)

\* trace_unknown_struct_ptr_inst: start != 0 && end != 0 && size != 0, one
\* load at a time, short-circuited; all set gives UKStructPtr, otherwise
\* check_dest_addr_nvmm chooses trace_pm_struct_ptr_inst (PMStructPtr) or
\* trace_dram_struct_ptr_inst (DRAMStructPtr), each numbered under the lock.
trace_unknown_struct_ptr_inst(c) ==
  /\ Cur(c).fn = "trace_unknown_struct_ptr_inst"
  /\ \/ /\ step[c] = "entry"
        /\ Goto(c, IF nvmm_virt_start_addr # 0 THEN "rd_end" ELSE "check")
        /\ UNCHANGED <<trace_order_num, records>>
     \/ /\ step[c] = "rd_end"
        /\ Goto(c, IF nvmm_virt_end_addr # 0 THEN "rd_size" ELSE "check")
        /\ UNCHANGED <<trace_order_num, records>>
     \/ /\ step[c] = "rd_size"
        /\ Goto(c, IF nvmm_virt_size # 0 THEN "uk" ELSE "check")
        /\ UNCHANGED <<trace_order_num, records>>
     \/ /\ step[c] = "uk"
        /\ Output("UKStructPtr", ptr[c], 0, 0)
        /\ Advance(c)
     \/ /\ step[c] = "check"
        /\ Goto(c, IF check_dest_addr_nvmm(ptr[c]) THEN "pm" ELSE "dram")
        /\ UNCHANGED <<trace_order_num, records>>
     \/ step[c] = "pm" /\ trace_pm_struct_ptr_inst(c)
     \/ step[c] = "dram" /\ trace_dram_struct_ptr_inst(c)
  /\ UNCHANGED <<window, seq, ptr, kaddr, ret>>

Step(c) ==
  /\ pc[c] # <<>>
  /\ \/ Execute(c)
     \/ trace_event(c)
     \/ trace_dax_access(c)
     \/ trace_unknown_struct_ptr_inst(c)

\* State right after trace_init_all: the window reset, the counter at 1.
Init ==
  /\ nvmm_virt_start_addr = 0 /\ nvmm_virt_end_addr = 0 /\ nvmm_virt_size = 0
  /\ trace_order_num = 1
  /\ records = {}
  /\ pc = Code
  /\ step = [c \in Ctx |-> "entry"]
  /\ seq = [c \in Ctx |-> 0]
  /\ ptr = [c \in Ctx |-> 0]
  /\ kaddr = [c \in Ctx |-> 0]
  /\ ret = [c \in Ctx |-> 0]

Next == \E c \in Ctx : Step(c)

\* Every context runs finite code and spin locks are fair.
Spec == Init /\ [][Next]_vars /\ \A c \in Ctx : WF_vars(Step(c))

-----------------------------------------------------------------------------
(* Properties                                                              *)

Labels == {"trace_start_func", "trace_end_func", "trace_start_calls", "trace_end_calls",
           "DaxDevInfo", "UKStructPtr", "PMStructPtr", "DRAMStructPtr"}
Addrs  == 0..(AddrMod - 1)

TypeOK ==
  /\ nvmm_virt_start_addr \in Addrs /\ nvmm_virt_end_addr \in Addrs
  /\ nvmm_virt_size \in {r * PageSize : r \in DaxRets \cup {0}}
  /\ trace_order_num \in Nat \ {0}
  /\ \A r \in records : r.label \in Labels /\ r.seq \in 1..(trace_order_num - 1)
  /\ step \in [Ctx -> {"entry", "set_start", "set_size", "set_end", "rd_end", "rd_size",
                       "uk", "check", "pm", "dram"}]
  /\ ptr \in [Ctx -> Ptrs \cup {0}]

StructRecords == {r \in records : r.label \in {"UKStructPtr", "PMStructPtr", "DRAMStructPtr"}}
DaxRecords    == {r \in records : r.label = "DaxDevInfo"}

\* check_dest_addr_nvmm against the window a DaxDevInfo record announces.
InAnnouncedWindow(p, d) == d.lo > 0 /\ p >= d.lo /\ (p + StSize) % AddrMod <= d.hi

\* A struct-pointer event numbered before the DaxDevInfo record was
\* classified with the window still reset: trace_unknown_struct_ptr_inst
\* reads the globals before it takes its number and trace_dax_access
\* writes them only after taking its own, so the event is DRAMStructPtr.
RecordsBeforeRangeAreDRAM ==
  \A d \in DaxRecords, r \in StructRecords :
    r.seq < d.seq => r.label = "DRAMStructPtr"

\* spec.md: the window trace_dax_access records is the one the DRAM/PM
\* classification uses for all subsequent events.  So a struct-pointer
\* event numbered after DaxDevInfo is either deferred (UKStructPtr) or
\* classified PM exactly when its pointer lies in the announced window.
ClassifiedByAnnouncedRange ==
  \A d \in DaxRecords, r \in StructRecords :
    r.seq > d.seq /\ r.label # "UKStructPtr" =>
      (r.label = "PMStructPtr" <=> InAnnouncedWindow(r.ptr, d))
=============================================================================
