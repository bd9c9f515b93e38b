SPECIFICATION RecordsSpec
CONSTANTS
  NoEvent = NoEvent
  Planes = {glider, motorglider, farMotorglider}
  Motorgliders = {motorglider, farMotorglider}
  FarPlanes = {farMotorglider}
  MaxRemoved = 2
INVARIANTS
  TypeOK
  TimerOnlyAtRest
PROPERTIES
  ImplementsEvents
  LandingIsReported
