------------------------------ MODULE MCPaging ------------------------------
(* Entries for model checking Paging: unmapped, and two frames, one of a   *)
(* table.  The heap has something else between the directory and a table.  *)
EXTENDS Paging

MCTableFrames == [i \in 0 .. 2 |-> IF i = 0 THEN 5 ELSE 6 + i]

MCNewEntries == {Missing, Present(0), Present(5)}
=============================================================================
