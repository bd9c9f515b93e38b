SPECIFICATION Spec
CONSTANTS
  fa = fa
  fb = fb
  fc = fc
  r1 = r1
  r2 = r2
  r3 = r3
  r4 = r4
  f = f
  Blank = Blank
  MaxPlanes = 4
  Registrations = {r1, r2, r3, r4}
  FlarmIds = {fa, fb, fc}
  Flights = {f}
  PlanesBefore = {0, 2}
  FlarmOf <- MCFlarmOf
  Stored <- MCStored
  FlarmNetFile <- MCFlarmNetFile
  MaxSelected = 2
  MaxOperations = 2
INVARIANTS
  HashesAgree
  IdsAreUnique
PROPERTIES
  SavedIsFound
CHECK_DEADLOCK FALSE
