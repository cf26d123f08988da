SPECIFICATION FairSpec
CONSTANTS
  A = A
  B = B
  Lower = Lower
  Plain = Plain
  Tenants = {A, B}
  Empty = Empty
  Unset = Unset
  Extra = {"extra"}
  NoPolicy = NoPolicy
  Databases <- Reached
  RowSets <- Stored
  Preset = {Unset, A}
  ProbeIds <- Ids4
  UuidOf <- Spelled
  Absent = Absent
  NoLocal = NoLocal
  Blank = Blank
  Spaces = Spaces
  Twice = Twice
  NotAString = NotAString
  Tables = {"public.t", "public.u"}
  CommandLines <- CommandsTyped
  Manifests <- InFile
CHECK_DEADLOCK FALSE
INVARIANTS RolledBackFirst PassMeansIsolated OneResult ExitZeroMeansIsolated ProbesOnlyWhenAsked
PROPERTY CommandEnds
