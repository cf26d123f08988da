SPECIFICATION Spec
CONSTANTS
  Tenants <- Ids
  NoTenant = NoTenant
  Chains = {c1, c2}
  Contexts <- Around
  Jobs <- Work
  Options <- Configured
  MaxEntries = 1
  Everyone = Everyone
  Characters <- Alphabet
  Sha256 <- Digests
  NoKey = NoKey
  NoJob = NoJob
  Nothing = Nothing
INVARIANT ServedOwn
