--------------------------- MODULE MCDiskContents ---------------------------
(***************************************************************************)
(* A mounted image for DiskContents: a directory a holding a regular file, *)
(* a symbolic link and a regular file at the mount point.                  *)
(***************************************************************************)
EXTENDS DiskContents

TreeMC ==
  (<<"a">> :> "dir") @@ (<<"a", "f">> :> "reg") @@ (<<"l">> :> "lnk") @@ (<<"g">> :> "reg")
=============================================================================
