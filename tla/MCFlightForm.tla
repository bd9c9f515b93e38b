---------------------------- MODULE MCFlightForm ----------------------------
(* Instances of FlightForm: two people who have each other's names reversed *)
(* and two who are not in the database yet, of whom one has the last name   *)
(* of one and the first name of the other and one is another Paul Martin; a *)
(* single-seated glider and a motor plane; a flight of each kind to begin   *)
(* with.                                                                    *)
EXTENDS PeopleList

MCLast  == [p \in Persons |-> IF p = "martin" THEN "Paul" ELSE "Martin"]
MCFirst == [p \in Persons |-> IF p \in {"paul", "paul2"} THEN "Paul" ELSE "Martin"]

Method(type, known, required) ==
  [type |-> type, towplaneKnown |-> known, personRequired |-> required]
MCMethods == [m \in {"S", "W", "F", "A"} |->
  CASE m = "S" -> Method("self", FALSE, TRUE)
    [] m = "W" -> Method("winch", FALSE, TRUE)
    [] m = "F" -> Method("airtow", FALSE, FALSE)
    [] m = "A" -> Method("airtow", TRUE, FALSE)]

Done == [BlankFlight EXCEPT !.plane = "glider", !.departed = TRUE, !.landed = TRUE,
           !.landings = 1, !.from = "home", !.to = "home", !.id["pilot"] = "martin"]

MCFlights ==
  {[Done EXCEPT !.method = "W"],
   [Done EXCEPT !.method = "F", !.type = "training1", !.supervisor = "paul",
                !.towplane = "motor", !.id["towpilot"] = "paul", !.towTo = "home",
                !.towLanded = TRUE],
   [Done EXCEPT !.method = "S", !.mode = "leaving", !.plane = "motor",
                !.type = "guest", !.landed = FALSE, !.landings = 0, !.to = "away",
                !.id["pilot"] = None, !.name["pilot"].last = "Martin"],
   [Done EXCEPT !.mode = "coming", !.departed = FALSE, !.from = "away",
                !.type = "training2", !.plane = "motor", !.id["copilot"] = "paul"]}

\* so that UnchangedStays speaks of these flights
ASSUME ShownAssumption == \A f \in StoredFlights : NothingHidden(f)
=============================================================================
