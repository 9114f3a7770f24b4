----------------------------- MODULE TraceLog -----------------------------
(***************************************************************************)
(* What the stored-value trace promises its consumer, which replays the    *)
(* writes to persistent memory from it: each write to a location enters    *)
(* the log in one step, as an entry [seq, loc, old, new] whose old value   *)
(* is the location's contents as the log describes them, and whose         *)
(* sequence number is larger than that of every earlier write to the same  *)
(* location.  Sorting a location's entries by seq then gives a chain from  *)
(* the initial contents to the current ones.                               *)
(***************************************************************************)
EXTENDS Integers

CONSTANTS
  Locs,   \* memory locations
  Vals,   \* values a location holds; every location starts at 0
  Seqs    \* sequence numbers

VARIABLES
  tmem,   \* each location's contents as the log describes them
  log     \* the set of write entries

vars == <<tmem, log>>



Init ==
  /\ tmem = [l \in Locs |-> 0]
  /\ log = {}

\* A write of v to l, logged under sequence number s.
Write(s, l, v) ==
  /\ \A e \in log : e.seq # s
  /\ \A e \in log : e.loc = l => e.seq < s
  /\ log' = log \cup {[seq |-> s, loc |-> l, old |-> tmem[l], new |-> v]}
  /\ tmem' = [tmem EXCEPT ![l] = v]

Next == \E s \in Seqs, l \in Locs, v \in Vals : Write(s, l, v)

Spec == Init /\ [][Next]_vars
=============================================================================
