--------------------------- MODULE MCFlightCache ----------------------------
(* Small instances of FlightCache: days 1 (today), 2 and 3. *)
EXTENDS FlightCache
=============================================================================
