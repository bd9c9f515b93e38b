-------------------------- MODULE ManagedDataStream -------------------------
(***************************************************************************)
(* ManagedDataStream (src/src/io/dataStream/ManagedDataStream.cpp), which  *)
(* keeps a stream open and watches its data, as Flarm (src/src/flarm/      *)
(* Flarm.cpp) uses it: the settings choose the type of stream and its      *)
(* target, the user opens and closes it, the GPS tracker keeps the last    *)
(* position received.  All of this is in the GUI thread.                   *)
(***************************************************************************)
EXTENDS DataStream

CONSTANT MaxActions     \* bound on what the user does

ASSUME ManagedAssumption == MaxActions \in Nat

VARIABLES
  managed,   \* the members of ManagedDataStream
  position,  \* whether GpsTracker has a position, with its timer running
  actions    \* actions of the user so far

managedVars == <<streamVars, managed, position, actions>>

\* hasStream: _backgroundStream; dataTimer, reconnectTimer: running or not
Managed == [hasStream : BOOLEAN, open : BOOLEAN,
            connection : {"closed", "opening", "open", "error"},
            data : {"none", "ok", "timeout"},
            state : {"noConnection", "closed", "opening", "open", "ok",
                     "timeout", "error"},
            dataTimer : BOOLEAN, reconnectTimer : BOOLEAN]

ManagedTypeOK ==
  /\ StreamTypeOK
  /\ managed \in Managed
  /\ managed.hasStream <=> kind # NoStream
  /\ position \in BOOLEAN
  /\ actions \in 0 .. MaxActions

-----------------------------------------------------------------------------
(* The state that is shown *)

DetermineState(m) ==
  IF ~ m.hasStream THEN "noConnection"
  ELSE IF ~ m.open THEN "closed"
  ELSE IF m.connection # "open" THEN m.connection
  ELSE IF m.data = "none" THEN "open" ELSE m.data

UpdateState(m) ==
  LET s == DetermineState(m)
  IN  IF s = m.state THEN m
      ELSE [m EXCEPT !.state = s, !.reconnectTimer = (s = "error"),
                     !.dataTimer = (s \in {"open", "ok"})]

GoToConnection(m, c) ==
  IF c = m.connection THEN m
  ELSE UpdateState([m EXCEPT !.connection = c,
                             !.data = IF c = "open" THEN "none" ELSE @])

GoToData(m, d) == IF d = m.data THEN m ELSE UpdateState([m EXCEPT !.data = d])

\* (mutated: a stream that was closed is not taken for an error)
ClosedIsClosed(m, s) == GoToConnection(m, s)

\* stream_stateChanged
StreamState(m, s) == GoToConnection(m, IF s = "closed" THEN "error" ELSE s)

-----------------------------------------------------------------------------
(* Signals of the stream, delivered by the event loop *)

Ask(request) == requests' = IF kind = NoStream THEN requests
                            ELSE Append(requests, request)

Unmoved == UNCHANGED <<kind, target, stream, device, active, answering, outages>>

StateChanged ==
  /\ signals # <<>> /\ Head(signals) \in States
  /\ managed' = StreamState(managed, Head(signals))
  /\ signals' = Tail(signals)
  /\ UNCHANGED <<requests, position, actions>> /\ Unmoved

\* stream_dataReceived and, if a GPRMC sentence was completed, GpsTracker
DataReceived ==
  /\ signals # <<>> /\ Head(signals) = "data"
  /\ managed' = [GoToData(managed, "ok") EXCEPT !.dataTimer = TRUE]
  /\ position' \in {position, TRUE}
  /\ signals' = Tail(signals)
  /\ UNCHANGED <<requests, actions>> /\ Unmoved

ConnectionBecameAvailable ==
  /\ signals # <<>> /\ Head(signals) = "available"
  /\ IF managed.state = "error" THEN Ask("open") ELSE UNCHANGED requests
  /\ signals' = Tail(signals)
  /\ UNCHANGED <<managed, position, actions>> /\ Unmoved

-----------------------------------------------------------------------------
(* Timers *)

ReconnectTimeout ==
  /\ managed.reconnectTimer
  /\ managed' = [managed EXCEPT !.reconnectTimer = FALSE]
  /\ IF managed.state = "error" THEN Ask("open") ELSE UNCHANGED requests
  /\ UNCHANGED <<signals, position, actions>> /\ Unmoved

DataTimeout ==
  /\ managed.dataTimer
  /\ managed' = GoToData([managed EXCEPT !.dataTimer = FALSE], "timeout")
  /\ UNCHANGED <<requests, signals, position, actions>> /\ Unmoved

\* GpsTracker::timeout
GpsTimeout ==
  /\ position /\ position' = FALSE
  /\ UNCHANGED <<requests, signals, managed, actions>> /\ Unmoved

-----------------------------------------------------------------------------
(* The user opens and closes the stream and changes the settings *)

Act == actions < MaxActions /\ actions' = actions + 1

UserOpens ==
  /\ Act /\ ~ managed.open
  /\ managed' = [managed EXCEPT !.open = TRUE]
  /\ Ask("open")
  /\ UNCHANGED <<signals, position>> /\ Unmoved

\* (mutated: the timers are not stopped, the state not updated)
CloseStreamOnly ==
  /\ Act /\ managed.open
  /\ managed' = [managed EXCEPT !.open = FALSE]
  /\ Ask("close")
  /\ UNCHANGED <<signals, position>> /\ Unmoved

UserCloses ==
  /\ Act /\ managed.open
  /\ managed' = [UpdateState([managed EXCEPT !.open = FALSE])
                   EXCEPT !.dataTimer = FALSE, !.reconnectTimer = FALSE]
  /\ Ask("close")
  /\ UNCHANGED <<signals, position>> /\ Unmoved

\* setDataStream with a new stream: deleting the old one drops what is queued.
\* Deleting the thread of a stuck one ends the program.
ReplaceStream(k, t) ==
  /\ k # kind /\ device # "stuck"
  /\ kind' = k /\ target' = t
  /\ stream' = "closed" /\ device' = "closed" /\ active' = NoStream
  /\ signals' = <<>>
  /\ requests' = <<IF managed.open THEN "open" ELSE "close">>
  /\ managed' = GoToConnection(
                  StreamState([managed EXCEPT !.hasStream = TRUE], "closed"),
                  "closed")

\* (mutated: the pointer to the stream is left)
DeleteStreamOnly ==
  /\ kind # NoStream /\ device # "stuck"
  /\ kind' = NoStream
  /\ stream' = "closed" /\ device' = "closed" /\ active' = NoStream
  /\ signals' = <<>> /\ requests' = <<>>
  /\ UNCHANGED <<target, managed>>

\* clearDataStream
ClearStream ==
  /\ kind # NoStream /\ device # "stuck"
  /\ kind' = NoStream
  /\ stream' = "closed" /\ device' = "closed" /\ active' = NoStream
  /\ signals' = <<>> /\ requests' = <<>>
  /\ managed' = UpdateState([managed EXCEPT !.hasStream = FALSE])
  /\ UNCHANGED target

\* the type is the same: only the parameters change
SetParameters(t) ==
  /\ kind # NoStream
  /\ target' = t
  /\ requests' = Append(requests, "apply")
  /\ UNCHANGED <<kind, stream, device, active, signals, managed>>

\* Flarm::settingsChanged
SettingsChanged ==
  /\ Act
  /\ \/ \E k \in Kinds, t \in Targets : ReplaceStream(k, t)
     \/ \E t \in Targets : SetParameters(t)
     \/ ClearStream
  /\ UNCHANGED <<answering, outages, position>>

-----------------------------------------------------------------------------
\* The constructor of Flarm has set the stream, that of MainWindow opens it.
ManagedInit ==
  /\ kind \in Kinds /\ target \in Targets
  /\ stream = "closed" /\ device = "closed" /\ active = NoStream
  /\ requests = <<"close", "open">> /\ signals = <<>>
  /\ answering = Targets /\ outages = 0
  /\ managed = [hasStream |-> TRUE, open |-> TRUE, connection |-> "closed",
                data |-> "none", state |-> "closed", dataTimer |-> FALSE,
                reconnectTimer |-> FALSE]
  /\ position = FALSE /\ actions = 0

Thread  == StreamThread /\ UNCHANGED <<managed, position, actions>>
Outside == (Noticed \/ Outage \/ Return)
             /\ UNCHANGED <<managed, position, actions>>
DeliverSignal == StateChanged \/ DataReceived \/ ConnectionBecameAvailable
User    == UserOpens \/ UserCloses \/ SettingsChanged

ManagedNext ==
  Thread \/ Outside \/ DeliverSignal \/ ReconnectTimeout \/ DataTimeout
  \/ GpsTimeout \/ User

ManagedSpec == ManagedInit /\ [][ManagedNext]_managedVars

\* Both threads run, and timers expire.
ManagedFairSpec ==
  /\ ManagedSpec
  /\ WF_managedVars(Thread) /\ WF_managedVars(DeliverSignal)
  /\ WF_managedVars(ReconnectTimeout) /\ WF_managedVars(DataTimeout)
  /\ WF_managedVars(GpsTimeout)

-----------------------------------------------------------------------------
(* Properties *)

Quiet == requests = <<>> /\ ~ \E s \in States \cup {"available"} : Queued(s, signals)

Connected == {"open", "ok", "timeout"}

(* A socket whose connection could not be made or was lost, of which the   *)
(* stream knows nothing (see SocketDisconnected).                          *)
Unnoticed == kind = "tcp" /\ device = "closed" /\ stream # "closed"

(* When no call and no signal is on its way, what is shown is the state of *)
(* the stream, and the device is in use if and only if it is shown to be:  *)
(* signals of a stream that was replaced, closed or reopened meanwhile do  *)
(* not show.  (ManagedDataStream.h: "closed: the user has not requested    *)
(* the stream to be opened"; "error: the connection could either not been  *)
(* established or was lost".)  A socket that fails is shown as it was      *)
(* before (deviation).                                                     *)
ShownIsTrue ==
  Quiet =>
    /\ managed.state = "noConnection" <=> kind = NoStream
    /\ managed.state = "closed" <=> kind # NoStream /\ ~ managed.open
    /\ managed.state = "error" => stream = "closed" /\ managed.open
    /\ managed.state = "opening" <=> stream = "opening" /\ managed.open
    /\ managed.state \in Connected <=> stream = "open" /\ managed.open
    /\ ~ Unnoticed => (managed.state \in Connected <=> device = "open")

(* A device is not left open for a target that the settings no longer name *)
(* (DataStream.cpp, applyParameters: "Closes and re-opens the stream if    *)
(* the parameters are outdated").                                          *)
UsesTheSettings == Quiet /\ device \in {"connecting", "open"} => active = target

(* If the receiver answers from some time on and the stream is wanted, the *)
(* connection is established again and again as often as it is lost ("The  *)
(* data stream will be re-opened automatically on error until the close    *)
(* method is called"), except that of a socket, until the user closes it   *)
(* or changes the settings.  If it is silent from some time on, neither    *)
(* data nor a position is shown for ever.                                  *)
Recovers ==
  /\ <>[](managed.open /\ kind # NoStream /\ target \in answering
            /\ device # "stuck" /\ ~ Unnoticed)
       => []<>(managed.state \in Connected)
  /\ <>[](~ Queued("data", signals)) => <>[](managed.state # "ok" /\ ~ position)
=============================================================================
