----------------------------- MODULE MCKeptState -----------------------------
(* Two processes of two workers, three files of which two are rejected; a     *)
(* slot ages at two, a bucket holds one entry, and two entries are too many.  *)
EXTENDS KeptState, TLC

MCFiles == {1, 4, 6}
MCRejects == {1, 4}

MCInodes == 1 .. 6

MCReached == {{1, 6}, MCFiles}

Symmetry == Permutations(Procs) \cup Permutations(Threads)
=============================================================================
