SPECIFICATION Spec
CONSTANTS
  v1 = v1
  v2 = v2
  v3 = v3
  HOST = HOST
  EMAIL = EMAIL
  a = a
  b = b
  Prompts <- SmallPrompts
  Configs <- SmallConfigs
  MaxChunks = 2
  Caller = {c1, c2}
  Value = {v1, v2, v3}
  Plain = Plain
  Torn = Torn
  CategoryOf <- Categories
  Requests <- SmallRequests
  Invented <- SmallInvented
  Preserve = FALSE
  Ttl = 1
  MaxNow = 2
  MaxScopes = 2
  MaxDeltas = 1
  NoScope = NoScope
  TextLen = 5
  MaxHits = 3
  Marker <- SmallMarkers
  Texts <- SmallTexts
  Thread = {t1}
  File = {f1, f2}
  Count = 2
INVARIANTS
  RoutingSound
  ProxySound
  ScansExact
PROPERTIES
  HoneySound
CHECK_DEADLOCK FALSE
