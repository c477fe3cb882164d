CONSTANTS
  NL = "nl"
  BOM = "bom"
  Nul = "nul"
  WordChars <- MCWordChars
  LowerOf <- MCLowerOf
  Kin <- MCKin
  MinFrag = 2
  MaxFrag = 3
  MinCommon = 2
  MaxCandidates = 2
  MaxRepeat = 2
  MaxPatterns = 2
  Span = 2
  Block = 2
  ProbeLen = 2
  ChunkSize = 3
  Probe = 1
  MaxDepth = 2
  PerBlock = 2
  PerCluster = 2
  PerIndex = 2
  Ahead = 1
  Ring = 2
  MaxFile = 9
  StreamMin = 4
  DecodeMax = 2
  Few = 1
  Ratio = 2
  GitName <- MCGitName
  ReservedDirs <- MCReservedDirs
  Inputs <- MCInputs
SPECIFICATION Spec
INVARIANTS
  TypeOK
  RingOwn
  EachLineOnce
  RowsExact
  EntriesRight
  HeadAndChunksCover
  LiteralsRequired
  IgnoresAsGit
  SearchedUnlessLeftOut
