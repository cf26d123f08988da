SPECIFICATION Spec
CONSTANTS
  Tenants <- NumberedIds
  NoTenant = NoTenant
  Chains = {c1, c2}
  Contexts <- AroundNumbered
  Jobs <- NumberedWork
  Options <- Unended
  MaxEntries = 1
  Everyone = Everyone
  Characters <- Alphabet
  Sha256 <- NumberedDigests
  NoKey = NoKey
  NoJob = NoJob
  Nothing = Nothing
INVARIANT CollisionSafe
