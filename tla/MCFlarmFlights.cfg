SPECIFICATION Spec
CONSTANTS
  NoEvent = NoEvent
  NoPlane = NoPlane
  Planes = {glider, tug}
  Motorgliders = {tug}
  FarPlanes = {}
  MaxRemoved = 0
  Known = {glider, tug}
  Towplanes = {tug}
  Modes = {"local", "coming"}
  Preselected = {NoPlane, tug}
  MaxFlights = 2
  MayEdit = TRUE
INVARIANTS
  BookShowsTheAir
PROPERTY
  SecondDepartureIgnored
CHECK_DEADLOCK FALSE
