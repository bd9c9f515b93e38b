SPECIFICATION ListSpec
CONSTANTS
  None = None
  Persons = {"martin", "paul", "both", "paul2"}
  LastName <- MCLast
  FirstName <- MCFirst
  Planes = {"glider", "motor"}
  Gliders = {"glider"}
  SingleSeaters = {"glider"}
  Methods <- MCMethods
  MaxLandings = 2
  RecordTowpilot = TRUE
  KnownPeople = {"martin", "paul"}
  StoredFlights <- MCFlights
  MaxSteps = 3
INVARIANT PeopleInUseExist
PROPERTIES WrittenIsEntered UnchangedIsKept ErrorsWereAsked
CHECK_DEADLOCK FALSE
