--------------------------- MODULE MCFlarmFlights ----------------------------
(* A glider and the motor glider that tows it, with Flarm in both. *)
EXTENDS FlarmFlights
==============================================================================
