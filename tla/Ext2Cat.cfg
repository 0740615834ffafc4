SPECIFICATION FairSpec
CONSTANTS
  Direct = 3
  Fan = 2
  BlockSize = 2
  Chunk = 2
  Files <- MCFiles
  Offsets = {0, 1, 2, 5, 7, 8, 11, 12, 15, 18, 19}
INVARIANTS
  TypeOK
PROPERTIES
  ImplementsService
  CatEnds
