---------------------------- MODULE RecordFormat ----------------------------
(***************************************************************************)
(* How output_record (trace/runtime/pmfs/KernelTracing.c) turns one event *)
(* into bytes of the event file: snprintf of the "seq, pid, " prefix and   *)
(* vsnprintf of the event text into a fixed buffer, the newline fix for a  *)
(* buffer filled exactly, and trace_wbuf_add's clamp to the buffer size.   *)
(* A byte is one of three symbols: a character, the newline every format   *)
(* ends with, and NUL.  The buffer and text lengths are scaled down.       *)
(***************************************************************************)
EXTENDS Integers, Sequences, SequencesExt

CONSTANTS
  BufSize,     \* size of output_record's buf and trace_wbuf_add's clamp (512)
  PrefixLen,   \* length of "%8lu, %8d, " (20)
  MaxText,     \* longest event text the formats produce
  MaxRecords   \* records written in a behaviour

CH  == "c"
NL  == "nl"
NUL == "nul"

\* The text a format produces: characters, then the "\n" that ends every
\* format of the runtime.
Text(n) == [i \in 1..n |-> IF i = n THEN NL ELSE CH]

Prefix == [i \in 1..PrefixLen |-> CH]

\* snprintf / vsnprintf into n bytes: the first n - 1 bytes of the text and
\* a NUL; the returned size is the length of the whole text.
Snprintf(text, n) ==
  SubSeq(text, 1, IF Len(text) < n - 1 THEN Len(text) ELSE n - 1) \o <<NUL>>

\* trace_wbuf_add(src, size): at most BufSize bytes are kept.
trace_wbuf_add(src, size) ==
  SubSeq(src, 1, IF size > BufSize THEN BufSize ELSE size)

\* output_record(seq, fmt, ...): the bytes of one record.
output_record(text) ==
  LET size1 == Len(Prefix)
      size2 == Len(text)
      buf0  == Prefix \o Snprintf(text, BufSize - size1)
      buf   == IF size1 + size2 = BufSize THEN [buf0 EXCEPT ![BufSize] = NL] ELSE buf0
  IN  trace_wbuf_add(buf, size1 + size2)

VARIABLES
  file,     \* bytes of the event file
  records   \* number of records written

vars == <<file, records>>

Init == file = <<>> /\ records = 0

\* One event is recorded and later written out by write_file.
Record ==
  /\ records < MaxRecords
  /\ \E n \in 1..MaxText :
       /\ file' = file \o output_record(Text(n))
       /\ records' = records + 1

Spec == Init /\ [][Record]_vars

\* The event file holds one line per record: it ends with a newline, has
\* as many newlines as records and no NUL byte, which the trace reader
\* relies on when it splits the file into records.
OneLinePerRecord ==
  /\ \A i \in DOMAIN file : file[i] # NUL
  /\ Len(SelectSeq(file, LAMBDA b : b = NL)) = records
  /\ file # <<>> => Last(file) = NL
=============================================================================
