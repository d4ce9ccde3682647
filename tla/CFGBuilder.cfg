SPECIFICATION Spec
CONSTANTS
  Mod = 32
  MaxLen = 4
  Bases <- BasesDef
  Encodings <- EncodingsDef
INVARIANTS
  TypeOK
  SweepTiles
  BlocksPartition
  BlocksStraight
  LabelsResolve
CHECK_DEADLOCK FALSE
