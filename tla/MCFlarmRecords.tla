--------------------------- MODULE MCFlarmRecords ----------------------------
(* The records of a glider, of a motor glider, and of one out of range. *)
EXTENDS FlarmRecords
==============================================================================
