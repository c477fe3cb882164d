CONSTANTS
  Word = 4
  Cap = 2
  SettledAt = 1
  MaxKept = 1
  Width = 3
  PerBucket = 1
  Procs = {p, q}
  Threads = {t, u}
  Files <- MCFiles
  Rejects <- MCRejects
  Reached <- MCReached
  Inodes <- MCInodes
  Zero = zero
  MaxSearches = 2
SPECIFICATION Spec
INVARIANTS
  TypeOK
  NoCarry
  LoadedWhole
  VerdictsKept
SYMMETRY Symmetry
