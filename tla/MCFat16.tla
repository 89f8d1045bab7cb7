------------------------------ MODULE MCFat16 -------------------------------
(***************************************************************************)
(* Disk images and probed words for model checking Fat16: three slots in   *)
(* the root directory, three clusters of two sectors.                      *)
(***************************************************************************)
EXTENDS Fat16, TLC

CONSTANTS MAIN, SUB, bytes

(* The clusters in full hold data. *)
Image(root, full) ==
  [s \in Sectors |-> IF s + 1 \in DOMAIN root THEN root[s + 1]
                     ELSE IF \E c \in full : s \in ClusterSectors(c) THEN bytes
                     ELSE Zero]

File(n, c, sz) == [name |-> n, cluster |-> c, size |-> sz, dir |-> FALSE]

MCImages ==
  { Image(<< File(MAIN, 2, 2) >>, {2}),                       \* one slot in use
    Image(<< File(Deleted, 3, 1), File(MAIN, 2, 3) >>, {}),   \* a deleted item
    Image(<< File(MAIN, 0, 0),                                \* an empty file and
             [name |-> SUB, cluster |-> 2, size |-> 0, dir |-> TRUE] >>, {}),
    Image(<< File(MAIN, 2, 2), File(Deleted, 3, 1),           \* a full root
             File(Deleted, 4, 1) >>, {}) }

(* Two of the items that other heap data may pass for. *)
MCStrays == { File(MAIN, 3, 1), File(Created, 0, 0) }

(***************************************************************************)
(* The first free cluster is 3, with a chain 2, 4, 3; or 4, with an end    *)
(* mark; or none is free.                                                  *)
(***************************************************************************)
MCWords ==
  { <<0, 4, 0, 3>>, <<0, 3, EndMark, 0>>, <<0, 3, 4, EndMark>> }

MCReservedWords == { [c \in 0 .. LastCluster |-> IF c = 0 THEN 0 ELSE w[c]] : w \in MCWords }

(* No action and no property reads the code that the last call returned. *)
MCView == <<mode, disk, words, cache, desc>>

MCDescriptorSymmetry == Permutations(Descriptors)
=============================================================================
