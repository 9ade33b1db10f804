SPECIFICATION ReadsSpec
CONSTANTS
  ann = ann
  bo = bo
  boston = boston
  denver = denver
  Ann = Ann
  Boston = Boston
  said1 = said1
  spaced = spaced
  said2 = said2
  said3 = said3
  said4 = said4
  k1 = k1
  Modes = {"memory", "sql"}
  FactsTold <- MCFactsTold
  Norm <- MCNorm
  SqlLower <- MCSqlLower
  NoName = NoName
  ChainKeys = {k1}
  Unkeyed = Unkeyed
  Unbuilt = Unbuilt
  OldTables = {{}}
  MaxWrites = 4
INVARIANT
  CountParity
CHECK_DEADLOCK FALSE
