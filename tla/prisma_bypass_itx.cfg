SPECIFICATION Spec
CONSTANTS
  A = A
  B = B
  r1 = r1
  Tenants = {A, B}
  NoTenant = NoTenant
  Tasks = {k1, k2}
  NoTask = NoTask
  Conns = {c1, c2}
  NoConn = NoConn
  Ids = {r1}
  NullSetting = NullSetting
  EmptySetting = EmptySetting
  RlsEnforced = TRUE
  FailClosed = TRUE
  AutoInject = FALSE
  ItxSupport = TRUE
  SharedRead = SharedRead
  Statements <- ReadOrUpsert
  BaseStacks <- RequestStarts
  MaxDepth = 2
  TxKinds = {"itx"}
  MixedItx = TRUE
INVARIANT UnscopedSeesNothing

