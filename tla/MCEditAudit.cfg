\* Six concurrent requests: three that can be stored, a null amount, an empty
\* body, and a row that is not there.
CONSTANTS
  r1 = r1
  r2 = r2
  r3 = r3
  r4 = r4
  r5 = r5
  r6 = r6
  row = row
  other = other
  t100 = t100
  t100dot00 = t100dot00
  t50dot25 = t50dot25
  day0 = day0
  Requests = {r1, r2, r3, r4, r5, r6}
  Ids = {row, other}
  Target <- MCTarget
  PatchOf <- MCPatch
  Original <- MCOriginal
  Texts = {t100, t100dot00, t50dot25, day0}
  Null = Null
  Canon <- MCCanon
  Epoch = day0
  NoRequest = NoRequest
SPECIFICATION AuditSpec
INVARIANTS
  LastCommitWins
  TrailReplays
  LoggedWithItsChange
PROPERTIES
  EditsEnd
CHECK_DEADLOCK FALSE
