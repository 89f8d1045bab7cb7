---------------------------- MODULE MCFileTable -----------------------------
(* Paths for model checking FileTable: "0:/", a file, and a file on disk 1. *)
EXTENDS FileTable, TLC

MCPaths == {[drive |-> 0, name |-> ""], [drive |-> 0, name |-> "main.txt"],
            [drive |-> 1, name |-> "main.txt"]}

MCHandleSymmetry == Permutations(Handles)
=============================================================================
