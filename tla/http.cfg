SPECIFICATION FairSpec
CONSTANTS
  A = A
  B = B
  Tenants = {A, B}
  NoTenant = NoTenant
  UpperA = UpperA
  EmptyText = EmptyText
  Param = Param
  EscapedA = EscapedA
  Decoded <- Escapes
  Pattern <- ApiPath
  Excluded = {"www"}
  LowerCase <- Capitals
  q1 = q1
  q2 = q2
  Incoming <- ReceivedBy
  Sources <- Composite
  Requests = {q1, q2}
  Ambient <- Around
  ValidTenants = {A}
  CrossChecks <- Configured
  Unread = Unread
CHECK_DEADLOCK FALSE
INVARIANTS HandlerContext CrossCheckHonoured SpansClosed EventStory
PROPERTIES FirstSourceWins AdmissionRefined RequestsSettle
