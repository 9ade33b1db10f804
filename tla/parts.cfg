SPECIFICATION PartsSpec
CONSTANTS
  root = root
  amy = amy
  k1 = k1
  k2 = k2
  k3 = k3
  px = px
  py = py
  s1 = s1
  ada = ada
  Ada = Ada
  bob = bob
  nz = nz
  i = i
  blue = blue
  none = none
  wed = wed
  t2 = t2
  u1 = u1
  q1 = q1
  ann = ann
  bo = bo
  boston = boston
  denver = denver
  Ann = Ann
  Boston = Boston
  said1 = said1
  spaced = spaced
  said2 = said2
  said3 = said3
  said4 = said4
  Browsers = {b1, b2}
  Names = {root, amy}
  Operations <- MCOperations
  Root = root
  Passwords = {p1}
  Temporary = temporary
  NoUser = NoUser
  NoCookie = NoCookie
  Ttl = 0
  MaxSessions = 2
  MaxTicks = 1
  Callers = {c1, c2}
  TokenIds = {k1, k2, k3}
  FirstToken = k1
  Prefix <- MCPrefix
  NoToken = NoToken
  NoCaller = NoCaller
  AllSpaces = AllSpaces
  TokenSpaces = {s1, main}
  Grants <- MCGrants
  MaxDays = 1
  Jwts = {j1}
  DbTokens = {d1}
  CacheTtl = 2
  NotCached = NotCached
  MaxSeconds = 4
  Wrapped = {w1, w2}
  failure_threshold = 2
  success_threshold = 2
  recovery_timeout = 2
  max_retries = 1
  base_delay = 1
  max_delay = 1
  Processes = {o1, o2}
  SecretNames = {n1, n2}
  SecretValues = {v1}
  Nothing = Nothing
  Told = {t1, t2}
  Subjects = {ada, Ada, nz, i}
  Words <- MCWords
  Objects = {blue, none}
  LowerCase <- MCLowerCase
  Blanks = {none}
  SpeakerWords = {i}
  FirstPerson <- MCFirstPerson
  Speakers = {bob}
  Colour = color
  Attributes = {color, food}
  Mappings <- MCMappings
  Nil = Nil
  Statements = {u1}
  Questions = {q1}
  Inputs <- MCInputs
  Replies = {r1}
  GotIt = GotIt
  DontKnow = DontKnow
  Reloaders = {h1, h2}
  Nobody = Nobody
  MaxCalls = 3
  MaxStops = 1
  Messages = {m1, m2}
  Answers = {a1, a2}
  max_turns = 2
  MaxTurns = 4
  Modes = {"memory", "sql"}
  FactsTold <- MCFactsTold
  Norm <- MCNorm
  SqlLower <- MCSqlLower
  NoName = NoName
  ChainKeys = {k1}
  Unkeyed = Unkeyed
  Unbuilt = Unbuilt
  OldTables <- MCOldTables
  MaxWrites = 4
INVARIANT
  OldPasswordsAreOut
  RotatedFirst
  LookupReleased
  DeadTokensStayOut
  StaleForFiveMinutes
  SecretsKept
  EnrichmentsAgree
  QuestionsMeetFacts
  GroundedInUsers
  ChatSeesMain
  NewestTurnsShown
  
  RecallIsCurrentBelief
PROPERTY
  NeverSeededAgain
  LastAdministrator
  RevokedBeforeDeleted
  OpensAfterARow
  ClosesAfterARow
  OpenEnds
  CallsEnd
  SaidIsSaved
CHECK_DEADLOCK FALSE
