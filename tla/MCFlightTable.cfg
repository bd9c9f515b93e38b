CONSTANTS
  Kinds <- MCKinds
  Gliders <- MCGliders
  MaxFlights = 2
  LastDay = 2
SPECIFICATION Spec
INVARIANTS ViewShowsTheList ShownIsTheDay LogsAccountForAll
