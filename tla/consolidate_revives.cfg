SPECIFICATION JanitorSpec
CONSTANTS
  t1 = t1
  t2 = t2
  t3 = t3
  p2 = p2
  q1 = q1
  ada = ada
  bob = bob
  k1 = k1
  Spaces = {main}
  Main = main
  Keys = {k1}
  NoKey = NoKey
  Texts = {t1, t2, t3, p2, q1}
  Entities = {ada, bob}
  NoEntity = NoEntity
  NoFill = NoFill
  Keep = Keep
  Clients = {c1}
  Handlers = {"consolidate"}
  Facts <- MCFacts
  Amendments <- MCAmendments
  LowerKey <- MCLowerKey
  Norm <- MCNorm
  SqlLower <- MCSqlLower
  MaxFaults = 0
  MaxSecond = 0
  MaxTells = 2
  WordsOf <- MCWordsOf
  Questions = {q1}
  FirstPerson = {t1, t3, q1}
  Unnamed = {NoEntity}
  Operators = {ada}
  NoMe = NoMe
  Enriched <- MCEnriched
INVARIANT
  OneCurrentVersion
CHECK_DEADLOCK FALSE
