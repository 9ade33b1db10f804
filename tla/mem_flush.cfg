SPECIFICATION Spec
CONSTANTS
  t1 = t1
  t2 = t2
  t3 = t3
  p2 = p2
  ada = ada
  k1 = k1
  Spaces = {main}
  Main = main
  Keys = {k1}
  NoKey = NoKey
  Texts = {t1, t2, t3, p2}
  Entities = {ada}
  NoEntity = NoEntity
  NoFill = NoFill
  Keep = Keep
  Clients = {c1}
  Handlers = {}
  Facts <- MCFacts
  Amendments <- MCAmendments
  LowerKey <- MCLowerKey
  Norm <- MCNorm
  MaxFaults = 2
  MaxSecond = 0
  MaxTells = 3
  MaxBoots = 0
PROPERTY
  QueuedIsRetried
CHECK_DEADLOCK FALSE
