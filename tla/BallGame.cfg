SPECIFICATION FairSpec
CONSTANTS
  Balls = 30
  LastBall = 36
  Level2Below = 26
  Level3Below = 16
  Health = 5
  StackLevels = 31
  Seeds <- MCSeeds
INVARIANTS
  TypeOK
PROPERTIES
  ImplementsService
  GamesEnd
