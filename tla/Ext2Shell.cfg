SPECIFICATION FairSpec
CONSTANTS
  Direct = 3
  Fan = 2
  Images <- MCImages
  Names <- MCNames
  Paths <- MCPaths
  Dot = Dot
  NoPath = NoPath
  Room = 24
INVARIANTS
  TypeOK
  WalkRight
  ListingRight
  
PROPERTIES
  CommandEnds
