---------------------------- MODULE AceWrapper -----------------------------
(***************************************************************************)
(* PassthroughCmFsOps::CmWriteData of the ACE user tools                   *)
(* (workload/ace/user_tools/src/wrapper.cpp): the workloads' way of        *)
(* writing size bytes at offset of an open file.  The bytes come from      *)
(* kTestDataBlock, one data block of kTestDataSize bytes, so that the byte *)
(* at file position x is kTestDataBlock[x % kTestDataSize].  The call      *)
(* writes an unaligned head up to the first block boundary, then whole     *)
(* blocks, then a tail, each in a loop that retries short writes, and      *)
(* returns the first negative result of pwrite.                            *)
(*                                                                         *)
(* A byte is abstracted to its index in kTestDataBlock; an index of        *)
(* DataSize or more is a byte read past the block's data.  The file is     *)
(* the bytes this call wrote.  Offsets and counts are unsigned int,        *)
(* arithmetic modulo UIntMod; masks with kTestDataSize - 1 are % DataSize. *)
(***************************************************************************)
EXTENDS Integers, FiniteSets, TLC

CONSTANTS
  DataSize,   \* kTestDataSize (4096), scaled down; a power of two
  UIntMod,    \* 2^(width of unsigned int), scaled down; a multiple of DataSize
  Requests,   \* the <<offset, size>> arguments the workload calls it with
  MaxFails    \* how many pwrite calls fail with -1 in one behaviour

\* The masks of CmWriteData are modulo arithmetic only for a power of two
\* that divides the unsigned range.
ASSUME /\ DataSize \in {2^k : k \in 1..10}
       /\ UIntMod % DataSize = 0

VARIABLES
  offset, size,   \* the arguments
  phase,          \* "idle", "head", "aligned", "tail", "done"
  num_written, aligned_written, end_written,
  file,           \* position -> index into kTestDataBlock of the byte written
  ret,            \* the return value, once phase = "done"
  fails           \* failed pwrite calls so far

vars == <<offset, size, phase, num_written, aligned_written, end_written, file, ret, fails>>

U(x)         == x % UIntMod          \* unsigned int wrap-around
Mask(x)      == x % DataSize         \* x & (kTestDataSize - 1)
RoundDown(x) == x - Mask(x)          \* x & ~(kTestDataSize - 1)

RoundedOffset(o) == RoundDown(U(o + (DataSize - 1)))

\* Variant: the head is not subtracted before rounding the size down.
AlignedSizeNoHead(o, s) == IF s >= DataSize THEN RoundDown(s) ELSE 0

AlignedSize(o, s) ==
  IF s >= DataSize THEN RoundDown(U(s - U(RoundedOffset(o) - o))) ELSE 0

ToWrite(o, s) ==
  IF s < U(RoundedOffset(o) - o) THEN s ELSE U(RoundedOffset(o) - o)

\* What one pwrite(fd, kTestDataBlock + src, count, offset + num_written)
\* may return: a short or full count, or -1 while failures remain.
Results(count) == (1..count) \cup (IF fails < MaxFails THEN {-1} ELSE {})

\* The res bytes from kTestDataBlock + src land at offset + num_written.
Put(src, res) ==
  LET pos == U(offset + num_written)
  IN  file' = [x \in {U(pos + i) : i \in 0..(res - 1)} |-> src + U(x - pos)] @@ file

\* if (res < 0) return res;
Failed(res) ==
  /\ res < 0
  /\ ret' = res /\ phase' = "done" /\ fails' = fails + 1
  /\ UNCHANGED <<num_written, aligned_written, end_written, file>>

\* CmWriteData entered: the rounded offset and aligned size computed, the
\* head skipped when the offset is block-aligned.
CmWriteData ==
  /\ phase = "idle"
  /\ \E r \in Requests :
       /\ offset' = r[1] /\ size' = r[2]
       /\ phase' = IF RoundedOffset(r[1]) # r[1] THEN "head" ELSE "aligned"
  /\ UNCHANGED <<num_written, aligned_written, end_written, file, ret, fails>>

\* One pass of the head loop: up to the first block boundary.
HeadWrite ==
  /\ phase = "head"
  /\ num_written < ToWrite(offset, size)
  /\ \E res \in Results(ToWrite(offset, size) - num_written) :
       \/ Failed(res)
       \/ /\ res > 0
          /\ Put(Mask(num_written + offset), res)
          /\ num_written' = num_written + res
          /\ UNCHANGED <<phase, ret, fails, aligned_written, end_written>>
  /\ UNCHANGED <<offset, size>>

\* Variant: the head loop is left only past to_write.
HeadDoneStrict ==
  /\ phase = "head"
  /\ num_written > ToWrite(offset, size)
  /\ phase' = "aligned"
  /\ UNCHANGED <<offset, size, num_written, aligned_written, end_written, file, ret, fails>>

HeadDone ==
  /\ phase = "head"
  /\ num_written >= ToWrite(offset, size)
  /\ phase' = "aligned"
  /\ UNCHANGED <<offset, size, num_written, aligned_written, end_written, file, ret, fails>>

\* One pass of the loop over whole blocks: up to the end of the block.
AlignedWrite ==
  /\ phase = "aligned"
  /\ aligned_written < AlignedSize(offset, size)
  /\ \E res \in Results(DataSize - Mask(aligned_written)) :
       \/ Failed(res)
       \/ /\ res > 0
          /\ Put(Mask(aligned_written), res)
          /\ num_written' = num_written + res
          /\ aligned_written' = aligned_written + res
          /\ UNCHANGED <<phase, ret, fails, end_written>>
  /\ UNCHANGED <<offset, size>>

\* Variant: the byte count returned instead of 0.
AlignedDoneReturnsCount ==
  /\ phase = "aligned"
  /\ aligned_written >= AlignedSize(offset, size)
  /\ IF num_written = size
     THEN phase' = "done" /\ ret' = num_written
     ELSE phase' = "tail" /\ UNCHANGED ret
  /\ UNCHANGED <<offset, size, num_written, aligned_written, end_written, file, fails>>

\* After the whole blocks: return 0 if everything is written.
AlignedDone ==
  /\ phase = "aligned"
  /\ aligned_written >= AlignedSize(offset, size)
  /\ IF num_written = size
     THEN phase' = "done" /\ ret' = 0
     ELSE phase' = "tail" /\ UNCHANGED ret
  /\ UNCHANGED <<offset, size, num_written, aligned_written, end_written, file, fails>>

TailWrite ==
  /\ phase = "tail"
  /\ num_written < size
  /\ \E res \in Results(size - num_written) :
       \/ Failed(res)
       \/ /\ res > 0
          /\ Put(Mask(end_written), res)
          /\ num_written' = num_written + res
          /\ end_written' = end_written + res
          /\ UNCHANGED <<phase, ret, fails, aligned_written>>
  /\ UNCHANGED <<offset, size>>

TailDone ==
  /\ phase = "tail"
  /\ num_written >= size
  /\ phase' = "done" /\ ret' = 0
  /\ UNCHANGED <<offset, size, num_written, aligned_written, end_written, file, fails>>

Init ==
  /\ offset = 0 /\ size = 0
  /\ phase = "idle"
  /\ num_written = 0 /\ aligned_written = 0 /\ end_written = 0
  /\ file = <<>>
  /\ ret = 0
  /\ fails = 0

Next ==
  \/ CmWriteData
  \/ HeadWrite \/ HeadDone
  \/ AlignedWrite \/ AlignedDone
  \/ TailWrite \/ TailDone

\* A single-threaded call whose pwrite calls return.
Spec == Init /\ [][Next]_vars /\ WF_vars(Next)

-----------------------------------------------------------------------------
(* Properties                                                              *)

Phases == {"idle", "head", "aligned", "tail", "done"}

TypeOK ==
  /\ offset \in 0..(UIntMod - 1) /\ size \in 0..(UIntMod - 1)
  /\ phase \in Phases
  /\ {num_written, aligned_written, end_written} \subseteq Nat
  /\ DOMAIN file \subseteq 0..(UIntMod - 1)
  /\ \A x \in DOMAIN file : file[x] \in Nat
  /\ ret \in {0, -1}
  /\ fails \in 0..MaxFails

WritesPrefixOfRange ==
  /\ DOMAIN file = {offset + i : i \in 0..(num_written - 1)}
  /\ num_written <= size
  /\ phase = "done" /\ ret = 0 => num_written = size

\* Every call of CmWriteData returns: no loop spins with its exit condition
\* unreachable.
Termination == <>(phase = "done")
=============================================================================
