SPECIFICATION Spec
CONSTANTS
  A = A
  B = B
  Tenants = {A, B}
  NoTenant = NoTenant
  Messages = {m1}
  Deliveries = {d1}
  NoMessage = NoMessage
  Ambient <- Around
  ValidTenants = {A}
  Validates = TRUE
  ProducerThrows = FALSE
  Consumers <- Undetected
  MaxAttempts = 1
CHECK_DEADLOCK FALSE
INVARIANT MissingFailsClosed
