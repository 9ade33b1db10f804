SPECIFICATION Spec
CONSTANTS
  t1 = t1
  t2 = t2
  t3 = t3
  p2 = p2
  ada = ada
  k1 = k1
  Spaces = {main}
  Main = main
  Keys = {k1}
  NoKey = NoKey
  Texts = {t1, t2, t3, p2}
  Entities = {ada}
  NoEntity = NoEntity
  NoFill = NoFill
  Keep = Keep
  Clients = {c1, c2}
  Handlers = {"archive", "forget_all", "amend"}
  Facts <- MCFacts
  Amendments <- MCAmendments
  LowerKey <- MCLowerKey
  Norm <- MCNorm
  SqlLower <- MCSqlLower
  MaxFaults = 0
  MaxSecond = 1
  MaxTells = 3
INVARIANTS
  TypeOK
  SlotsDecomposeThoughts
  NewestIsCurrent
PROPERTY
  BeliefMovesForward
SYMMETRY Symmetry
CHECK_DEADLOCK FALSE
