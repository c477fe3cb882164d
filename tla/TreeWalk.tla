------------------------------ MODULE TreeWalk ------------------------------
(***************************************************************************)
(* What one search of rawgrep promises about the directory tree, with no   *)
(* word about threads: a directory becomes known when its parent is        *)
(* searched, every known directory is searched at most once, and nothing   *)
(* that is known is ever forgotten.  WorkStealing implements it.           *)
(***************************************************************************)
EXTENDS Sequences, SequencesExt

CONSTANTS Dirs,       \* the directories of the searched tree
          Root,       \* the directory the search starts from
          Subdirs     \* [Dirs -> Seq(Dirs)]: the subdirectories a read of a
                      \* directory yields; <<>> when it cannot be read

VARIABLES known,      \* directories found and not searched yet
          searched    \* directories searched

walkVars == <<known, searched>>

SubdirSet(d) == ToSet(Subdirs[d])

WalkInit == known = {Root} /\ searched = {}

WalkSearch(d) ==
  /\ d \in known
  /\ searched' = searched \union {d}
  /\ known' = (known \ {d}) \union SubdirSet(d)

WalkNext == \E d \in Dirs : WalkSearch(d)

WalkSpec == WalkInit /\ [][WalkNext]_walkVars
=============================================================================
