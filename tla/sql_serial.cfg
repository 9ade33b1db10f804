SPECIFICATION Spec
CONSTANTS
  t1 = t1
  t2 = t2
  t3 = t3
  p2 = p2
  ada = ada
  k1 = k1
  Spaces = {main}
  Main = main
  Keys = {k1, k2}
  NoKey = NoKey
  Texts = {t1, t2, t3, p2}
  Entities = {ada}
  NoEntity = NoEntity
  NoFill = NoFill
  Keep = Keep
  Clients = {c1}
  Handlers = {"archive", "forget_key", "forget_all", "amend"}
  Facts <- MCFacts
  Amendments <- MCAmendments
  LowerKey <- MCLowerKey
  Norm <- MCNorm
  SqlLower <- MCSqlLower
  MaxFaults = 1
  MaxSecond = 0
  MaxTells = 3
INVARIANTS
  OneCurrentVersion
PROPERTY
  KeepsPromise
SYMMETRY Symmetry
CHECK_DEADLOCK FALSE
