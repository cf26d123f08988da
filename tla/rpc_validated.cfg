SPECIFICATION Spec
CONSTANTS
  A = A
  B = B
  Tenants = {A, B}
  NoTenant = NoTenant
  Messages = {m1}
  Deliveries = {d1, d2}
  NoMessage = NoMessage
  Ambient <- Around
  ValidTenants = {A}
  Validates = TRUE
  ProducerThrows = FALSE
  Consumers <- Configured
  MaxAttempts = 2
CHECK_DEADLOCK FALSE
SYMMETRY Symmetry
INVARIANTS WorksForAuthor WorksForClaim TornDownInContext MissingFailsClosed
PROPERTIES NoLateWork AdmissionRefined
