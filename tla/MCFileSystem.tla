---------------------------- MODULE MCFileSystem ----------------------------
(***************************************************************************)
(* Disks and paths for model checking FileSystem: two slots in the root    *)
(* directory, three clusters of two sectors.                               *)
(***************************************************************************)
EXTENDS FileSystem, MCFat16

CONSTANT KOKO

Path(n) == [drive |-> 0, name |-> n]

MCRootPath == Path("")
MCMainTxt  == Path(MAIN)
MCKokoTxt  == Path(KOKO)
MCPaths    == {MCRootPath, MCMainTxt, MCKokoTxt}

Directory(n, c) == [name |-> n, cluster |-> c, size |-> 0, dir |-> TRUE]

MCFsImages ==
  { Image(<< File(KOKO, 4, 1), File(KOKO, 4, 1) >>, {}),   \* from earlier boots
    Image(<< File(MAIN, 2, 1), File(KOKO, 3, 1) >>, {2}),  \* the scan goes on
    Image(<< File(MAIN, 2, 1), Directory(KOKO, 2) >>, {}),
    Image(<< Directory(MAIN, 2) >>, {}) }

(* What the heap behind the cached root directory may be taken for. *)
MCFsStrays == { File(MAIN, 3, 1) }

(* Cluster 3 is free, or none is. *)
MCFsWords == {w \in MCReservedWords : w[2] = 4 \/ ~\E c \in 3 .. LastCluster : w[c] = 0}

(* Only print_number reads what a call before returned. *)
MCFsView ==
  <<mode, disk, words, cache, desc, tableVars, blocks, program,
    IF program.at \in {"print", "print again"} THEN answer ELSE None>>
=============================================================================
