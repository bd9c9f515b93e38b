--------------------------- MODULE MCFlightTable ----------------------------
(* Two flights over two days, each a glider behind a towplane or the        *)
(* towplane on its own, leaving for elsewhere.                              *)
EXTENDS FlightTable

Kind(mode, method, plane, towplane, pilot, copilot, towpilot) ==
  [mode |-> mode, method |-> method, plane |-> plane, towplane |-> towplane,
   pilot |-> pilot, copilot |-> copilot, towpilot |-> towpilot]

MCKinds == {Kind("local", 1, 1, 2, 1, 2, 3), Kind("leaving", 0, 2, 0, 3, 0, 0)}
MCGliders == {1}
=============================================================================
