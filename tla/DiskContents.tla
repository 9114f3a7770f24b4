--------------------------- MODULE DiskContents ---------------------------
(***************************************************************************)
(* DiskContents (tools/disk_content/DiskContent.cpp) as the ACE test       *)
(* harness uses it (workload/ace/tests/BaseTestCase.cpp): get_disk_content *)
(* resets the context, get_contents walks the mounted file system          *)
(* recursively, output_contents writes the map of paths to attributes, and *)
(* the harness exits with 199 if err_msg is not empty.                     *)
(*                                                                         *)
(* A path is a sequence of names, <<>> being the mount point, so that      *)
(* parent_path + "/" + filename is d \o <<name>>.  The recursion of        *)
(* get_contents is a stack of frames [dir, at]: at = 0 before the          *)
(* opendir, and otherwise the position in the directory's listing that the *)
(* next readdir returns.  The system calls of the walk may fail; a failure *)
(* is a nondeterministic choice, at most MaxFaults of them, of the kinds   *)
(* in Faults.  Attributes are abstracted to whether they were all read.    *)
(***************************************************************************)
EXTENDS Integers, Sequences, FiniteSets, SequencesExt

CONSTANTS
  Tree,       \* [paths -> {"dir", "lnk", "reg", "other"}], the mount point excluded
  Limit,      \* the bound on max_depth_ in get_contents (100)
  Faults,     \* the calls that may fail: "opendir", "readdir", "lstat", "stat", "md5"
  MaxFaults   \* how many calls fail in one behaviour

VARIABLES
  stack,      \* the frames of the active get_contents calls, innermost last
  max_depth,  \* max_depth_
  contents,   \* contents: path -> "ok" | "nostat" | "nomd5" | "lstaterr"
  err,        \* err_msg is not empty
  faults,     \* failed calls so far
  status      \* "idle", "walk", "returned", "exit99", "exit199", "written"

vars == <<stack, max_depth, contents, err, faults, status>>

Dirs == {<<>>} \cup {p \in DOMAIN Tree : Tree[p] = "dir"}

\* What readdir returns for directory d: "." and "..", then the entries.
Listing(d) ==
  <<d \o <<".">>, d \o <<"..">>>> \o
    SetToSeq({p \in DOMAIN Tree : Len(p) = Len(d) + 1 /\ SubSeq(p, 1, Len(d)) = d})

IsDot(e) == e[Len(e)] \in {".", ".."}

\* d_type of an entry: "." and ".." are directories.
DType(e) == IF IsDot(e) THEN "dir" ELSE Tree[e]

CanFail(k) == k \in Faults /\ faults < MaxFaults

Fail == faults' = faults + 1

Top == stack[Len(stack)]

\* Return from the innermost get_contents (closedir when it was opened).
Return ==
  /\ stack' = Front(stack)
  /\ status' = IF Len(stack) = 1 THEN "returned" ELSE status

\* DiskContents::reset, called by get_disk_content before the walk.
reset ==
  /\ status = "idle"
  /\ stack' = <<[dir |-> <<>>, at |-> 0]>>
  /\ max_depth' = 0
  /\ contents' = <<>>
  /\ status' = "walk"
  /\ UNCHANGED <<err, faults>>

\* get_contents up to its first readdir: ++max_depth_, the depth check
\* (exit(99)), opendir.
EnterDir ==
  /\ status = "walk"
  /\ Top.at = 0
  /\ max_depth' = max_depth + 1
  /\ IF max_depth + 1 > Limit
     THEN /\ status' = "exit99"
          /\ UNCHANGED <<stack, err, faults>>
     ELSE \/ /\ stack' = [stack EXCEPT ![Len(stack)].at = 1]
             /\ UNCHANGED <<err, faults, status>>
          \/ /\ CanFail("opendir") /\ Fail
             /\ err' = TRUE
             /\ Return
  /\ UNCHANGED contents

\* A readdir that fails: with errno set on the first call, err_msg gets
\* the error; inside the do-while loop the NULL ends the listing.
ReadFails ==
  /\ status = "walk"
  /\ Top.at >= 1
  /\ CanFail("readdir") /\ Fail
  /\ err' = (err \/ Top.at = 1)
  /\ Return
  /\ UNCHANGED <<max_depth, contents>>

\* readdir at the end of the listing.
ReadEnd ==
  /\ status = "walk"
  /\ Top.at > Len(Listing(Top.dir))
  /\ Return
  /\ UNCHANGED <<max_depth, contents, err, faults>>

\* The attributes set_stat_attr reads; a failed stat / lstat is ignored.
StatResults == {"ok"} \cup (IF CanFail("stat") THEN {"nostat"} ELSE {})

\* get_md5 returns "" on any failure, which set_md5sum stores.
Md5Results == {"ok"} \cup (IF CanFail("md5") THEN {"nomd5"} ELSE {})

Record(e, r) ==
  /\ contents' = contents @@ (e :> r)
  /\ faults' = IF r = "ok" THEN faults ELSE faults + 1

\* One pass of the do-while body for the entry readdir returned.
ReadEntry ==
  /\ status = "walk"
  /\ Top.at >= 1 /\ Top.at <= Len(Listing(Top.dir))
  /\ LET e    == Listing(Top.dir)[Top.at]
         next == [stack EXCEPT ![Len(stack)].at = Top.at + 1]
     IN  CASE DType(e) = "dir" /\ IsDot(e) ->
                /\ \E r \in StatResults : Record(e, r)
                /\ stack' = next /\ UNCHANGED err
           [] DType(e) = "dir" ->
                /\ \E r \in StatResults : Record(e, r)
                /\ stack' = Append(next, [dir |-> e, at |-> 0]) /\ UNCHANGED err
           [] DType(e) = "lnk" ->
                /\ \/ /\ CanFail("lstat")
                      /\ Record(e, "lstaterr") /\ err' = TRUE
                   \/ /\ \E r \in StatResults : Record(e, r)
                      /\ UNCHANGED err
                /\ stack' = next
           [] DType(e) = "reg" ->
                /\ \E s \in StatResults, m \in Md5Results :
                     Record(e, IF s # "ok" THEN s ELSE m)
                /\ stack' = next /\ UNCHANGED err
           [] OTHER ->
                /\ \E r \in StatResults : Record(e, r)
                /\ stack' = next /\ UNCHANGED err
  /\ UNCHANGED <<max_depth, status>>

\* get_disk_content after the walk: output_contents writes the map, and
\* the harness exits with 199 when has_err().
get_disk_content ==
  /\ status = "returned"
  /\ status' = IF err THEN "exit199" ELSE "written"
  /\ UNCHANGED <<stack, max_depth, contents, err, faults>>

Init ==
  /\ stack = <<>>
  /\ max_depth = 0
  /\ contents = <<>>
  /\ err = FALSE
  /\ faults = 0
  /\ status = "idle"

Next ==
  \/ reset
  \/ EnterDir
  \/ ReadFails
  \/ ReadEnd
  \/ ReadEntry
  \/ get_disk_content

Spec == Init /\ [][Next]_vars

-----------------------------------------------------------------------------
(* Properties                                                              *)

\* Every entry of every directory of the mounted tree, "." and ".." included.
AllEntries == UNION {Range(Listing(d)) : d \in Dirs}

TypeOK ==
  /\ \A k \in DOMAIN stack : stack[k].dir \in Dirs /\ stack[k].at \in Nat
  /\ max_depth \in Nat
  /\ DOMAIN contents \subseteq AllEntries
  /\ \A e \in DOMAIN contents : contents[e] \in {"ok", "nostat", "nomd5", "lstaterr"}
  /\ err \in BOOLEAN
  /\ faults \in 0..MaxFaults
  /\ status \in {"idle", "walk", "returned", "exit99", "exit199", "written"}

\* The harness trusts a dump it did not exit on: when get_disk_content
\* writes the contents without has_err(), every entry of the mounted tree is
\* in them with all its attributes read.
CompleteUnlessReported ==
  status = "written" =>
    /\ DOMAIN contents = AllEntries
    /\ \A e \in AllEntries : contents[e] = "ok"
=============================================================================
