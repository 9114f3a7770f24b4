----------------------------- MODULE TraceFiles -----------------------------
(***************************************************************************)
(* The two trace files of the kernel runtime (trace/runtime/pmfs/          *)
(* KernelTracing.c) as byte layouts.  Records wait in the trace_wbuf and   *)
(* trace_svbuf lists until trace_destroy_all writes them, in list order,   *)
(* with write_file and write_sv_file.  Each of those reserves its file     *)
(* range by advancing the offset first and then calls kernel_write, whose  *)
(* result is only reported: a short or failed write leaves the reserved    *)
(* range partly unwritten, and an unwritten range of a file reads as zero  *)
(* bytes.                                                                  *)
(*                                                                         *)
(* A file is a sequence of cells.  A cell of the event file is a byte; a   *)
(* cell of the stored-value file is a data byte or one uint64_t header     *)
(* field (the sequence number, the length), so a record of len bytes takes *)
(* 2 + len cells where the code reserves 16 + len bytes.  A kernel_write   *)
(* of n cells writes some prefix of them: all n, or fewer when it fails.   *)
(***************************************************************************)
EXTENDS Integers, Sequences, SequencesExt

CONSTANTS
  MaxSvBuf,      \* MAX_SV_BUF_SIZE: the largest stored value kept
  WbufCap,       \* the 512-byte clamp of trace_wbuf_add
  MaxLine,       \* longest record text output_record passes
  DataBytes,     \* byte values a stored value may hold
  MaxEvents,     \* entry-point calls (sequence numbers) in a behaviour
  MaxAllocFail,  \* bound on failed GFP_ATOMIC allocations
  MaxWriteFail   \* bound on short or failed kernel_write calls

\* Byte values of the event file: a text character and the newline.
CH == 1
NL == 10

VARIABLES
  wbuf, svbuf,         \* the trace_wbuf / trace_svbuf lists, in list order
  efile, svfile,       \* contents of the two files
  offset, sv_offset,   \* the next free offset of each file
  trace_order_num,     \* the sequence counter the records are numbered by
  destroyed,           \* trace_destroy_all has run
  allocFails, writeFails,
  addedEv, addedSv     \* history: every record put on a list, in order

vars == <<wbuf, svbuf, efile, svfile, offset, sv_offset, trace_order_num,
          destroyed, allocFails, writeFails, addedEv, addedSv>>

-----------------------------------------------------------------------------
(* kernel_write(filp, data, len, &off) writing the first k cells           *)

\* The file f after writing cells at offset off: a write past the end
\* extends the file, and the gap between reads as zero bytes.
WriteAt(f, off, cells) ==
  LET n == IF off + Len(cells) > Len(f) THEN off + Len(cells) ELSE Len(f)
  IN  [i \in 1..n |-> IF i > off /\ i <= off + Len(cells) THEN cells[i - off]
                      ELSE IF i <= Len(f) THEN f[i] ELSE 0]

kernel_write(f, off, cells, k) == WriteAt(f, off, SubSeq(cells, 1, k))

\* How many cells a kernel_write of cells may write: all of them or, while
\* the failure budget lasts, any fewer.
Written(cells, budget) == IF budget > 0 THEN 0..Len(cells) ELSE {Len(cells)}

-----------------------------------------------------------------------------
(* The writers.  A state of a flush loop is [file, off, fails].            *)

\* Variant: the offset is read but not advanced.
FileOffsetKept(st, data, k) ==
  [file  |-> kernel_write(st.file, st.off, data, k),
   off   |-> st.off,
   fails |-> st.fails + (IF k < Len(data) THEN 1 ELSE 0)]

\* write_file(data, len): reserve len bytes under offset_lock, then write
\* through the (non-NULL) handle.
write_file(st, data, k) ==
  [file  |-> kernel_write(st.file, st.off, data, k),
   off   |-> st.off + Len(data),
   fails |-> st.fails + (IF k < Len(data) THEN 1 ELSE 0)]

\* Variant: the offset is advanced by the header alone.
SvOffsetNoData(st, rec, k) ==
  IF Len(rec.data) > MaxSvBuf THEN st
  ELSE LET start == st.off
           f1 == kernel_write(st.file, start, <<rec.seq>>, k[1])
           f2 == kernel_write(f1, start + 1, <<Len(rec.data)>>, k[2])
       IN  [file  |-> kernel_write(f2, start + 2, rec.data, k[3]),
            off   |-> start + 2,
            fails |-> st.fails]

\* write_sv_file(seq, data, len): an oversized value returns early;
\* otherwise reserve 16 + len bytes under sv_offset_lock and write the
\* sequence number, the length and the data with three kernel_writes at
\* start_off, start_off + 8 and start_off + 16.
write_sv_file(st, rec, k) ==
  IF Len(rec.data) > MaxSvBuf THEN st
  ELSE LET start == st.off
           f1 == kernel_write(st.file, start, <<rec.seq>>, k[1])
           f2 == kernel_write(f1, start + 1, <<Len(rec.data)>>, k[2])
       IN  [file  |-> kernel_write(f2, start + 2, rec.data, k[3]),
            off   |-> start + 2 + Len(rec.data),
            fails |-> st.fails + (IF k[1] < 1 THEN 1 ELSE 0)
                               + (IF k[2] < 1 THEN 1 ELSE 0)
                               + (IF k[3] < Len(rec.data) THEN 1 ELSE 0)]

SvCells(rec) == <<<<rec.seq>>, <<Len(rec.data)>>, rec.data>>

\* How much of each of the three writes of rec a write_sv_file may write
\* from loop state st.
SvWrites(st, rec) ==
  {k \in [1..3 -> 0..MaxSvBuf] :
     \A j \in 1..3 : k[j] \in Written(SvCells(rec)[j], MaxWriteFail - st.fails)}

\* trace_wbuf_write_all(true): write_file for each node in list order; the
\* set of loop states the list can be written out to.
trace_wbuf_write_all ==
  FoldLeftDomain(LAMBDA S, i :
                   UNION {{write_file(st, wbuf[i], k) :
                             k \in Written(wbuf[i], MaxWriteFail - st.fails)} : st \in S},
                 {[file |-> efile, off |-> offset, fails |-> writeFails]}, wbuf)

\* trace_svbuf_write_all(true): write_sv_file for each node in list order.
trace_svbuf_write_all(fails) ==
  FoldLeftDomain(LAMBDA S, i :
                   UNION {{write_sv_file(st, svbuf[i], k) : k \in SvWrites(st, svbuf[i])} :
                            st \in S},
                 {[file |-> svfile, off |-> sv_offset, fails |-> fails]}, svbuf)

-----------------------------------------------------------------------------
(* Producers: output_record and output_store_value append to the lists.    *)

\* A record text as output_record formats it: its sequence number, the
\* rest of the line, the newline.
Text(s, n) == <<s>> \o [i \in 1..n |-> CH] \o <<NL>>

\* new_trace_*buf_node or the kmalloc of the copy may fail (GFP_ATOMIC);
\* the record is then dropped with an error message.
AllocOutcomes == IF allocFails < MaxAllocFail THEN {TRUE, FALSE} ELSE {TRUE}

\* trace_wbuf_add(src, size): clamp to 512 bytes, allocate, append.
trace_wbuf_add(text) ==
  \E ok \in AllocOutcomes :
    LET node == SubSeq(text, 1, IF Len(text) > WbufCap THEN WbufCap ELSE Len(text))
    IN  /\ wbuf'       = IF ok THEN Append(wbuf, node) ELSE wbuf
        /\ addedEv'    = IF ok THEN Append(addedEv, node) ELSE addedEv
        /\ allocFails' = IF ok THEN allocFails ELSE allocFails + 1

\* Variant: the size check is missing.
SvAddNoLimit(s, data) ==
  \E ok \in AllocOutcomes :
    /\ svbuf'      = IF ok THEN Append(svbuf, [seq |-> s, data |-> data]) ELSE svbuf
    /\ addedSv'    = IF ok THEN Append(addedSv, [seq |-> s, data |-> data]) ELSE addedSv
    /\ allocFails' = IF ok THEN allocFails ELSE allocFails + 1

\* trace_svbuf_add(seq, src, size): drop an oversized value, allocate,
\* append.
trace_svbuf_add(s, data) ==
  IF Len(data) > MaxSvBuf
  THEN UNCHANGED <<svbuf, addedSv, allocFails>>
  ELSE \E ok \in AllocOutcomes :
         /\ svbuf'      = IF ok THEN Append(svbuf, [seq |-> s, data |-> data]) ELSE svbuf
         /\ addedSv'    = IF ok THEN Append(addedSv, [seq |-> s, data |-> data]) ELSE addedSv
         /\ allocFails' = IF ok THEN allocFails ELSE allocFails + 1

\* An entry point that takes the next sequence number and records an event.
RecordEvent ==
  /\ ~destroyed
  /\ trace_order_num <= MaxEvents
  /\ \E n \in 0..(MaxLine - 2) : trace_wbuf_add(Text(trace_order_num, n))
  /\ trace_order_num' = trace_order_num + 1
  /\ UNCHANGED <<svbuf, efile, svfile, offset, sv_offset, destroyed, writeFails, addedSv>>

\* A store-like entry point that records a stored value under a sequence
\* number it acquired.
DataSeqs == UNION {[1..n -> DataBytes] : n \in 0..(MaxSvBuf + 1)}

RecordStoreValue ==
  /\ ~destroyed
  /\ trace_order_num <= MaxEvents
  /\ \E data \in DataSeqs : trace_svbuf_add(trace_order_num, data)
  /\ trace_order_num' = trace_order_num + 1
  /\ UNCHANGED <<wbuf, efile, svfile, offset, sv_offset, destroyed, writeFails, addedEv>>

-----------------------------------------------------------------------------
(* trace_destroy_all(1): both lists written out under trace_lock.          *)

\* The buffers are written, the event-file offset (not sv_offset) reset,
\* tracing disabled and the files closed; the failed writes of a behaviour
\* stay within MaxWriteFail.
trace_destroy_all ==
  /\ ~destroyed
  /\ \E ev \in trace_wbuf_write_all :
     \E sv \in trace_svbuf_write_all(ev.fails) :
       /\ efile'      = ev.file
       /\ svfile'     = sv.file
       /\ sv_offset'  = sv.off
       /\ writeFails' = sv.fails
  /\ offset'    = 0
  /\ wbuf'      = <<>>
  /\ svbuf'     = <<>>
  /\ destroyed' = TRUE
  /\ UNCHANGED <<trace_order_num, allocFails, addedEv, addedSv>>

Init ==
  /\ wbuf = <<>> /\ svbuf = <<>>
  /\ efile = <<>> /\ svfile = <<>>
  /\ offset = 0 /\ sv_offset = 0
  /\ trace_order_num = 1
  /\ destroyed = FALSE
  /\ allocFails = 0 /\ writeFails = 0
  /\ addedEv = <<>> /\ addedSv = <<>>

Next == RecordEvent \/ RecordStoreValue \/ trace_destroy_all

Spec == Init /\ [][Next]_vars

-----------------------------------------------------------------------------
(* The consumer's reading of the files                                     *)

\* The event file read line by line; a last line without a newline is
\* returned as it is.
RECURSIVE Lines(_)
Lines(f) ==
  IF f = <<>> THEN <<>>
  ELSE LET i == SelectInSeq(f, LAMBDA c : c = NL)
       IN  IF i = 0 THEN <<f>>
           ELSE <<SubSeq(f, 1, i)>> \o Lines(SubSeq(f, i + 1, Len(f)))

\* The stored-value file scanned record by record from offset off: a
\* sequence number, a length, that many bytes.  A header or body running
\* past the end of the file is a malformed record.
Malformed == [seq |-> -1, data |-> <<>>]

RECURSIVE ScanSv(_, _)
ScanSv(f, off) ==
  IF off >= Len(f) THEN <<>>
  ELSE IF off + 2 > Len(f) THEN <<Malformed>>
  ELSE IF off + 2 + f[off + 2] > Len(f) THEN <<Malformed>>
  ELSE <<[seq |-> f[off + 1], data |-> SubSeq(f, off + 3, off + 2 + f[off + 2])]>>
         \o ScanSv(f, off + 2 + f[off + 2])

-----------------------------------------------------------------------------
(* Properties                                                              *)

TypeOK ==
  /\ \A r \in Range(svbuf) \cup Range(addedSv) :
       r \in [seq : Nat, data : UNION {[1..n -> DataBytes] : n \in 0..MaxSvBuf}]
  /\ offset \in Nat /\ sv_offset \in Nat
  /\ destroyed \in BOOLEAN
  /\ allocFails \in 0..MaxAllocFail
  /\ writeFails \in 0..MaxWriteFail
  /\ trace_order_num \in 1..(MaxEvents + 1)

\* Once trace_destroy_all has written the trace, reading the event file
\* line by line gives back every record output_record buffered, in list
\* order (write_file reserves each record's range before writing it).
EventFileRoundTrip == destroyed => Lines(efile) = addedEv

\* Once trace_destroy_all has written the trace, scanning the stored-value
\* file record by record gives back every (seq, len, bytes) record
\* trace_svbuf_add kept, in list order: the range write_sv_file reserves
\* is exactly the three fields it writes there.
SvFileRoundTrip == destroyed => ScanSv(svfile, 0) = addedSv
====
