---------------------------- MODULE MCDiskStream ----------------------------
(***************************************************************************)
(* Buffers for model checking DiskStream, two bytes to a sector: less than *)
(* a sector, a sector, one and a half, two, and lengths whose sector count *)
(* is at CountMod and one beyond it.                                       *)
(***************************************************************************)
EXTENDS DiskStream, TLC

CONSTANTS a, b

MCBuffers == {<<>>, <<a>>, <<a, b>>, <<b, a, b>>, <<a, b, a, b>>,
              <<b, b, a, a, b, b, a>>, <<a, a, b, b, a, a, b, b, a>>}

MCStreamSymmetry == Permutations(Streams)

(* last says what the last transfer did; only action properties look at it. *)
MCView == <<bytes, pos, overrun>>
=============================================================================
