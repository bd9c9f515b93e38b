----------------------------- MODULE MCPlaneIds -----------------------------
(***************************************************************************)
(* Three planes with different Flarm ids, so that an id given away twice   *)
(* is noticed, and room for one more; a flight whose Flarm id FlarmNet has *)
(* with a registration that no plane has yet.                              *)
(***************************************************************************)
EXTENDS PlaneIds, TLC

CONSTANTS fa, fb, fc, r1, r2, r3, r4, f

MCFlarmOf     == f :> fa
MCStored      == <<[id |-> 1, registration |-> r1, flarmId |-> fa],
                   [id |-> 2, registration |-> r2, flarmId |-> fb],
                   [id |-> 3, registration |-> r3, flarmId |-> fc]>>
MCFlarmNetFile == fa :> r4 @@ fb :> Blank @@ fc :> Blank
=============================================================================
