SPECIFICATION FairSpec
CONSTANTS
  A = A
  B = B
  r1 = r1
  Tenants = {A, B}
  NoTenant = NoTenant
  Tasks = {k1, k2}
  NoTask = NoTask
  Conns = {c1}
  NoConn = NoConn
  Ids = {r1}
  NullSetting = NullSetting
  EmptySetting = EmptySetting
  RlsEnforced = FALSE
  FailClosed = TRUE
  AutoInject = TRUE
  ItxSupport = FALSE
  SharedRead = SharedRead
  Statements <- InjectedWrites
  BaseStacks <- RequestStarts
  MaxDepth = 1
  TxKinds = {"itx", "tenancy"}
  MixedItx = FALSE
INVARIANT InjectedWritesStayOwn
PROPERTY CallsSettle
