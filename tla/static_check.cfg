SPECIFICATION Spec
CONSTANTS
  A = A
  B = B
  Tenants = {A, B}
  Empty = Empty
  Unset = Unset
  Extra = {"extra"}
  NoPolicy = NoPolicy
  users = users
  plans = plans
  public = public
  billing = billing
  Tables = {users, plans}
  Schemas = {public, billing}
  SchemaOf <- Placed
  Public = public
  StartSchemas <- Start
  SharedSets <- Shares
  Insertable <- Additions
  MaxChanges = 2
CHECK_DEADLOCK FALSE
INVARIANTS SyncIsolates AllOrNothing GeneratedInSync ScriptSetsUp DriftFound
