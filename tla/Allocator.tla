----------------------------- MODULE Allocator -----------------------------
(***************************************************************************)
(* What the callers of malloc, zalloc and free (memory.h) rely on, and     *)
(* nothing else: a block range that is handed out lies inside the heap and *)
(* overlaps no range that is still held, and a range stays held until its  *)
(* holder gives it back.  The allocator may refuse a request, and it may   *)
(* take no notice of a request, at any time; which free range it picks is  *)
(* its own business.                                                       *)
(***************************************************************************)
EXTENDS Integers

CONSTANT Size                   \* the number of blocks of the heap

VARIABLES
  held,     \* held[s]: the length of the range held at block s, 0 if none
  serving   \* FALSE before the heap exists and after a panic

vars == <<held, serving>>

Range(s, n) == s .. (s + n - 1)

Init ==
  /\ held = [s \in 0 .. (Size - 1) |-> 0]
  /\ serving = FALSE

Start ==
  /\ ~serving
  /\ \A s \in 0 .. (Size - 1) : held[s] = 0
  /\ serving' = TRUE
  /\ UNCHANGED held

Grant(s, n) ==
  /\ serving
  /\ Range(s, n) \subseteq 0 .. (Size - 1)
  /\ \A t \in 0 .. (Size - 1) : Range(s, n) \cap Range(t, held[t]) = {}
  /\ held' = [held EXCEPT ![s] = n]
  /\ UNCHANGED serving

GiveBack(s) ==
  /\ serving
  /\ held[s] # 0
  /\ held' = [held EXCEPT ![s] = 0]
  /\ UNCHANGED serving

Stop ==
  /\ serving' = FALSE
  /\ UNCHANGED held

Next ==
  \/ Start
  \/ \E s \in 0 .. (Size - 1), n \in 1 .. Size : Grant(s, n)
  \/ \E s \in 0 .. (Size - 1) : GiveBack(s)
  \/ Stop

Spec == Init /\ [][Next]_vars
=============================================================================
