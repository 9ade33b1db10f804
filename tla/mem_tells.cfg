SPECIFICATION Spec
CONSTANTS
  t1 = t1
  t2 = t2
  t3 = t3
  p2 = p2
  ada = ada
  k1 = k1
  Spaces = {main}
  Main = main
  Keys = {k1}
  NoKey = NoKey
  Texts = {t1, t2, t3, p2}
  Entities = {ada}
  NoEntity = NoEntity
  NoFill = NoFill
  Keep = Keep
  Clients = {c1, c2}
  Handlers = {}
  Facts <- MCFacts
  Amendments <- MCAmendments
  LowerKey <- MCLowerKey
  Norm <- MCNorm
  MaxFaults = 2
  MaxSecond = 1
  MaxTells = 4
  MaxBoots = 2
INVARIANTS
  TypeOK
  NewestIsCurrent
  NothingToldIsLost
  DiskIsInRam
  ChainsInOrder
PROPERTY
  TellsOnlyAdd
SYMMETRY Symmetry
CHECK_DEADLOCK FALSE
