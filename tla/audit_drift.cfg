SPECIFICATION Spec
CONSTANTS
  A = A
  B = B
  Tenants = {A, B}
  Empty = Empty
  Unset = Unset
  Extra = {"extra"}
  NoPolicy = NoPolicy
  Drifted <- Changed
  MaxChanges = 2
INVARIANTS VerdictSound VerdictOfSomeCatalog
PROPERTIES SetupNeverWeakens SetupMakesHealthy
