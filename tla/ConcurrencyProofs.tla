------------------------- MODULE ConcurrencyProofs --------------------------
(***************************************************************************)
(* What src/src/concurrent and src/src/io/dataStream promise, for any      *)
(* number of threads, calls, targets and outages.  ManagedDataStream: when *)
(* nothing is on its way between the threads, what is shown is the state   *)
(* of the stream, and the device in use is the one that the settings name. *)
(* Waiter: no wakeup is lost, and the whole protocol is the gate of module *)
(* Gate.  WorkerCall, for calls nested to any depth: the worker never      *)
(* touches the stack frame of a call that is over, and a call gives        *)
(* exactly what its one execution gave.                                    *)
(***************************************************************************)
EXTENDS Waiter, WorkerCall, ManagedDataStream, SequenceTheorems, TLAPS

-----------------------------------------------------------------------------
(* Data streams: the inductive invariant *)

HasState == \E i \in DOMAIN signals : signals[i] \in States

Agrees == /\ stream = "open" <=> device = "open"
          /\ stream = "closed" <=> device = "closed"

\* the device follows the stream, but for a socket that failed; where there is
\* no stream, nothing is queued
DeviceInv ==
  /\ Unnoticed \/ Agrees
  /\ kind = NoStream => stream = "closed" /\ signals = <<>> /\ requests = <<>>

\* the last signal of a state is that of the state the stream is in
LastSignalInv ==
  HasState => \E i \in DOMAIN signals :
                /\ signals[i] = stream
                /\ \A j \in DOMAIN signals : j > i => signals[j] \notin States

\* what a signal of a state makes of the connection
Meaning(s) == IF s = "closed" THEN "error" ELSE s

ConnectionInv ==
  kind # NoStream /\ ~ HasState
    => managed.connection \in {stream, Meaning(stream)}

\* a connection is closed, and not an error, only until the stream is opened
FirstOpenInv ==
  kind # NoStream /\ managed.open /\ managed.connection = "closed"
    => HasState \/ Queued("open", requests)

\* the last of the calls that open or close the stream, if any, closes it
ClosesLast == \E i \in DOMAIN requests :
                /\ requests[i] = "close"
                /\ \A j \in DOMAIN requests : j > i => requests[j] # "open"

ClosedInv == ~ managed.open => \/ ClosesLast
                               \/ stream = "closed" /\ ~ Queued("open", requests)

\* the stream will be opened, from being closed, by a call that is queued
WillOpen == \E i \in DOMAIN requests :
              /\ requests[i] = "open"
              /\ \/ stream = "closed"
                 \/ \E j \in DOMAIN requests : j < i /\ requests[j] = "close"

\* a signal is queued that will change the connection
WillChange == \E i \in DOMAIN signals :
                signals[i] \in States /\ Meaning(signals[i]) # managed.connection

\* open () does not update the state; the signals that follow will
StateInv ==
  \/ managed.state = DetermineState(managed)
  \/ /\ managed.state = "closed" /\ managed.open /\ managed.hasStream
     /\ WillChange \/ WillOpen

SettingsInv ==
  device # "closed" /\ active # target => Queued("apply", requests)

ManagedIInv == /\ ManagedTypeOK /\ DeviceInv /\ LastSignalInv /\ ConnectionInv
        /\ FirstOpenInv /\ ClosedInv /\ StateInv /\ SettingsInv

-----------------------------------------------------------------------------
(* What the thread of the stream says *)

\* signals are appended, the last of them the state the stream is then in
Announced ==
  /\ signals' \in Seq(Signals) /\ Len(signals') > Len(signals)
  /\ \A i \in DOMAIN signals : signals'[i] = signals[i]
  /\ signals'[Len(signals')] = stream'

\* nothing is said of the state, which is the same
NotChanged ==
  /\ stream' = stream
  /\ \/ signals' = signals
     \/ \E s \in {"data", "available"} : signals' = Append(signals, s)

LEMMA AnnouncedFacts ==
  ASSUME ManagedTypeOK, Announced, stream' \in States
  PROVE  LastSignalInv' /\ HasState' /\ (managed' = managed /\ WillChange => WillChange')
<1>1. Len(signals') \in DOMAIN signals' /\ \A i \in DOMAIN signals : i \in DOMAIN signals'
  BY DEF ManagedTypeOK, StreamTypeOK, Announced
<1>2. signals'[Len(signals')] \in States
  BY DEF Announced
<1>3. LastSignalInv'
  <2>1. \A j \in DOMAIN signals' : ~ (j > Len(signals'))
    BY DEF Announced
  <2> QED
    BY <1>1, <2>1 DEF LastSignalInv, Announced
<1>4. HasState'
  BY <1>1, <1>2 DEF HasState
<1>5. managed' = managed /\ WillChange => WillChange'
  BY <1>1 DEF WillChange, Announced
<1> QED
  BY <1>3, <1>4, <1>5

LEMMA NotChangedFacts ==
  ASSUME ManagedTypeOK, LastSignalInv, NotChanged
  PROVE  /\ signals' \in Seq(Signals) /\ LastSignalInv' /\ (HasState <=> HasState')
         /\ managed' = managed /\ WillChange => WillChange'
<1>1. CASE signals' = signals
  BY <1>1 DEF ManagedTypeOK, StreamTypeOK, LastSignalInv, HasState, WillChange, NotChanged
<1>2. ASSUME NEW s \in {"data", "available"}, signals' = Append(signals, s)
      PROVE  /\ signals' \in Seq(Signals) /\ LastSignalInv' /\ (HasState <=> HasState')
             /\ managed' = managed /\ WillChange => WillChange'
  <2>1. /\ signals' \in Seq(Signals) /\ Len(signals') = Len(signals) + 1
        /\ \A i \in DOMAIN signals : i \in DOMAIN signals' /\ signals'[i] = signals[i]
        /\ signals'[Len(signals')] = s
        /\ \A i \in DOMAIN signals' : i \in DOMAIN signals \/ i = Len(signals')
    BY <1>2 DEF ManagedTypeOK, StreamTypeOK, Signals
  <2>2. s \notin States
    BY DEF States
  <2>4. HasState <=> HasState'
    BY <2>1, <2>2 DEF HasState
  <2>3. LastSignalInv'
    <3> SUFFICES ASSUME HasState
                 PROVE  \E i \in DOMAIN signals' :
                          /\ signals'[i] = stream
                          /\ \A j \in DOMAIN signals' : j > i => signals'[j] \notin States
      BY <2>4 DEF LastSignalInv, NotChanged
    <3>1. PICK i \in DOMAIN signals :
            /\ signals[i] = stream
            /\ \A j \in DOMAIN signals : j > i => signals[j] \notin States
      BY DEF LastSignalInv
    <3> QED
      BY <2>1, <2>2, <3>1
  <2>5. managed' = managed /\ WillChange => WillChange'
    BY <2>1 DEF WillChange
  <2> QED
    BY <2>1, <2>3, <2>4, <2>5
<1> QED
  BY <1>1, <1>2 DEF NotChanged

LEMMA ShortSequences ==
  ASSUME NEW S
  PROVE  /\ <<>> \in Seq(S)
         /\ \A x \in S : <<x>> \in Seq(S) /\ Len(<<x>>) = 1 /\ <<x>>[1] = x
         /\ \A x, y \in S : /\ <<x, y>> \in Seq(S) /\ Len(<<x, y>>) = 2
                            /\ <<x, y>>[1] = x /\ <<x, y>>[2] = y
OBVIOUS

\* opening a stream that is closed, or that says first that it is
LEMMA OpenFacts ==
  ASSUME ManagedTypeOK, NEW sent \in {<<>>, <<"closed">>}, OpenStream(sent)
  PROVE  /\ Announced /\ active' = target /\ stream' \in States
         /\ device' \in {"closed", "connecting", "open", "stuck"}
         /\ stream' = "open" <=> device' = "open"
         /\ stream' = "closed" <=> device' = "closed"
         /\ \E i \in DOMAIN signals' : i > Len(signals) /\ signals'[i] = "opening"
<1>1. ASSUME NEW s \in States, NEW d, Report(sent, s, d)
      PROVE  /\ Announced /\ stream' = s /\ device' = d
             /\ \E i \in DOMAIN signals' : i > Len(signals) /\ signals'[i] = "opening"
  <2> DEFINE t == IF s = "opening" THEN <<"opening">> ELSE <<"opening", s>>
             q == signals \o sent
  <2>1. /\ t \in Seq(Signals) /\ Len(t) \in {1, 2}
        /\ t[1] = "opening" /\ t[Len(t)] = s
    <3>1. s \in Signals /\ "opening" \in Signals
      BY DEF States, Signals
    <3>2. CASE s = "opening"
      <4>1. t = <<"opening">>
        BY <3>2
      <4> HIDE DEF t
      <4> QED
        BY <3>1, <3>2, <4>1, ShortSequences
    <3>3. CASE s # "opening"
      <4>1. t = <<"opening", s>>
        BY <3>3
      <4> HIDE DEF t
      <4> QED
        BY <3>1, <4>1, ShortSequences
    <3> QED
      BY <3>2, <3>3
  <2>2. /\ q \in Seq(Signals) /\ Len(q) >= Len(signals) /\ Len(q) \in Nat
        /\ \A i \in DOMAIN signals : q[i] = signals[i]
    <3>1. sent \in Seq(Signals)
      <4>1. "closed" \in Signals
        BY DEF Signals, States
      <4>2. CASE sent = <<>>
        BY <4>2, ShortSequences
      <4>3. CASE sent = <<"closed">>
        BY <4>1, <4>3, ShortSequences
      <4> QED
        BY <4>2, <4>3
    <3> QED
      BY <3>1 DEF ManagedTypeOK, StreamTypeOK
  <2>3. stream' = s /\ device' = d /\ signals' = q \o t
    BY <1>1 DEF Report
  <2> HIDE DEF t, q
  <2>4. /\ signals' \in Seq(Signals) /\ Len(signals') = Len(q) + Len(t)
        /\ \A i \in 1 .. Len(q) : signals'[i] = q[i]
        /\ \A i \in 1 .. Len(t) : signals'[Len(q) + i] = t[i]
    BY <2>1, <2>2, <2>3
  <2>5. \A i \in DOMAIN signals : i \in 1 .. Len(q)
    BY <2>2 DEF ManagedTypeOK, StreamTypeOK
  <2>6. /\ Len(q) + 1 \in DOMAIN signals' /\ Len(q) + 1 > Len(signals)
        /\ signals'[Len(q) + 1] = "opening"
    BY <2>1, <2>2, <2>4 DEF ManagedTypeOK, StreamTypeOK
  <2>7. signals'[Len(signals')] = s /\ Len(signals') > Len(signals)
    BY <2>1, <2>2, <2>4 DEF ManagedTypeOK, StreamTypeOK
  <2>8. Announced
    BY <2>2, <2>3, <2>4, <2>5, <2>7 DEF Announced
  <2> QED
    BY <2>3, <2>6, <2>8
<1>2. active' = target
  BY DEF OpenStream
<1>3. PICK s \in States, d \in {"closed", "connecting", "open", "stuck"} :
        /\ Report(sent, s, d)
        /\ s = "open" <=> d = "open"
        /\ s = "closed" <=> d = "closed"
  BY DEF OpenStream, OpenPort, OpenSocket, OpenFile, States
<1> QED
  BY <1>1, <1>2, <1>3

-----------------------------------------------------------------------------
(* Steps of the stream's thread *)

\* what a back-end notices leaves the calls that are queued as they are
LEMMA BackEndStep ==
  ASSUME ManagedIInv, kind # NoStream, Announced \/ NotChanged,
         UNCHANGED <<kind, target, active, requests, answering, outages,
                     managed, position, actions>>,
         stream' \in States, device' \in {"closed", "connecting", "open", "stuck"},
         Unnoticed' \/ Agrees',
         stream = "closed" => stream' = "closed", device = "closed" => device' = "closed"
  PROVE  ManagedIInv'
<1> USE DEF ManagedIInv
<1>1. signals' \in Seq(Signals) /\ LastSignalInv' /\ (HasState => HasState')
  BY AnnouncedFacts, NotChangedFacts DEF Announced
<1>2. WillChange => WillChange'
  BY AnnouncedFacts, NotChangedFacts
<1>3. ManagedTypeOK'
  BY <1>1 DEF ManagedTypeOK, StreamTypeOK
<1>4. DeviceInv'
  BY DEF DeviceInv, Agrees, Unnoticed
<1>5. ConnectionInv'
  BY AnnouncedFacts, NotChangedFacts DEF ConnectionInv, NotChanged
<1>6. FirstOpenInv'
  BY <1>1 DEF FirstOpenInv, Queued
<1>7. ClosedInv'
  BY DEF ClosedInv, ClosesLast, Queued
<1>8. WillOpen => WillOpen'
  BY DEF WillOpen
<1>9. StateInv'
  BY <1>2, <1>8 DEF StateInv, DetermineState
<1>10. SettingsInv'
  BY DEF SettingsInv, Queued
<1> QED
  BY <1>1, <1>3, <1>4, <1>5, <1>6, <1>7, <1>9, <1>10

LEMMA SendDataStep ==
  ASSUME ManagedIInv, kind # NoStream, SendData, UNCHANGED <<managed, position, actions>>
  PROVE  ManagedIInv'
<1>1. NotChanged
  BY DEF SendData, NotChanged
<1>2. stream' = stream /\ device' = device
  BY DEF SendData
<1> QED
  BY <1>1, <1>2, BackEndStep
     DEF ManagedIInv, ManagedTypeOK, StreamTypeOK, DeviceInv, Agrees, Unnoticed,
         SendData, Unaffected

LEMMA StreamErrorStep ==
  ASSUME ManagedIInv, kind # NoStream, device # "closed", device' = "closed",
         StreamError, Unaffected, UNCHANGED <<managed, position, actions>>
  PROVE  ManagedIInv'
<1>1. stream # "closed"
  BY DEF ManagedIInv, DeviceInv, Agrees, Unnoticed
<1>2. Announced
  BY <1>1 DEF ManagedIInv, ManagedTypeOK, StreamTypeOK, StreamError, Announced, Signals, States
<1> QED
  BY <1>2, BackEndStep DEF StreamError, Unaffected, States, Agrees

LEMMA NoticesStep ==
  ASSUME ManagedIInv, UNCHANGED <<managed, position, actions>>,
         \/ Noticed \/ SocketStateChanged \/ SocketDisconnected
         \/ PortErrorOccurred \/ EndOfFile
  PROVE  ManagedIInv'
<1> USE StreamAssumption
<1>1. CASE SocketStateChanged
  <2>1. stream = "opening" /\ kind # NoStream
    BY <1>1 DEF SocketStateChanged, ManagedIInv, DeviceInv, Agrees, Unnoticed, ManagedTypeOK,
                StreamTypeOK, States
  <2>2. /\ stream' = "open" /\ device' = "open" /\ Unaffected
        /\ signals' = Append(signals, "open")
    BY <1>1, <2>1 DEF SocketStateChanged, StreamOpened
  <2>3. Announced
    BY <2>2 DEF ManagedIInv, ManagedTypeOK, StreamTypeOK, Announced, Signals, States
  <2> QED
    BY <1>1, <2>1, <2>2, <2>3, BackEndStep DEF SocketStateChanged, Unaffected, States, Agrees
<1>2. CASE SocketDisconnected
  <2>1. /\ kind # NoStream /\ NotChanged /\ stream # "closed"
        /\ device' = "closed" /\ kind = "tcp" /\ Unaffected
    BY <1>2 DEF SocketDisconnected, NotChanged, ManagedIInv, DeviceInv, Agrees, Unnoticed,
                Unaffected
  <2>2. Unnoticed'
    BY <1>2, <2>1 DEF SocketDisconnected, Unaffected, Unnoticed
  <2> QED
    BY <1>2, <2>1, <2>2, BackEndStep
       DEF SocketDisconnected, Unaffected, ManagedIInv, ManagedTypeOK, StreamTypeOK
<1>3. CASE PortErrorOccurred
  BY <1>3, StreamErrorStep DEF PortErrorOccurred
<1>4. CASE EndOfFile
  BY <1>4, StreamErrorStep DEF EndOfFile
<1>5. CASE SocketDataReceived
  BY <1>5, SendDataStep DEF SocketDataReceived
<1>6. CASE PortDataReceived
  BY <1>6, SendDataStep DEF PortDataReceived
<1>7. CASE FileTimer
  BY <1>4, <1>7, SendDataStep DEF FileTimer
<1>8. CASE PortTimer
  <2>1. NotChanged /\ kind # NoStream /\ stream' = stream /\ device' = device
    BY <1>8 DEF PortTimer, NotChanged
  <2> QED
    BY <1>8, <2>1, BackEndStep
       DEF ManagedIInv, ManagedTypeOK, StreamTypeOK, DeviceInv, Agrees, Unnoticed, PortTimer,
           Unaffected
<1> QED
  BY <1>1, <1>2, <1>3, <1>4, <1>5, <1>6, <1>7, <1>8 DEF Noticed

\* the first of the calls that are queued is taken
LEMMA TailFacts ==
  ASSUME NEW S, NEW q \in Seq(S), q # <<>>
  PROVE  /\ Tail(q) \in Seq(S) /\ Head(q) = q[1] /\ Len(q) \in Nat
         /\ Len(Tail(q)) = Len(q) - 1
         /\ \A i \in DOMAIN Tail(q) : /\ i \in Nat /\ i + 1 \in DOMAIN q
                                      /\ Tail(q)[i] = q[i + 1]
         /\ \A i \in DOMAIN q : i = 1 \/ (/\ i - 1 \in DOMAIN Tail(q)
                                         /\ Tail(q)[i - 1] = q[i])
OBVIOUS

LEMMA RequestStep ==
  ASSUME ManagedIInv, HandleRequest, UNCHANGED <<managed, position, actions>>
  PROVE  ManagedIInv'
<1> USE DEF ManagedIInv
<1>1. /\ kind # NoStream /\ device # "stuck" /\ requests # <<>>
      /\ requests' = Tail(requests)
      /\ UNCHANGED <<kind, target, answering, outages>>
  BY DEF HandleRequest, Running
<1> DEFINE h == Head(requests)
<1>2. /\ requests' \in Seq(Requests) /\ h = requests[1] /\ Len(requests) \in Nat
      /\ \A i \in DOMAIN requests' : /\ i \in Nat /\ i + 1 \in DOMAIN requests
                                     /\ requests'[i] = requests[i + 1]
      /\ \A i \in DOMAIN requests : i = 1 \/ (/\ i - 1 \in DOMAIN requests'
                                             /\ requests'[i - 1] = requests[i])
      /\ DOMAIN requests = 1 .. Len(requests)
  BY <1>1, TailFacts DEF ManagedTypeOK, StreamTypeOK
\* what is done, by the state of the stream
<1>3. \/ Unchanged /\ (h = "close" => stream = "closed")
         /\ (h = "open" => stream # "closed")
         /\ (h = "apply" => active = target)
      \/ /\ stream = "closed" /\ h = "apply"
         /\ signals' = Append(signals, "available")
         /\ UNCHANGED <<stream, device, active>>
      \/ /\ stream # "closed" /\ h = "close" /\ stream' = "closed"
         /\ device' = "closed" /\ active' = active
         /\ signals' = Append(signals, "closed")
      \/ /\ h = "open" /\ stream = "closed" /\ OpenStream(<<>>)
      \/ /\ h = "apply" /\ stream # "closed" /\ OpenStream(<<"closed">>)
  BY DEF HandleRequest, Open, Close, ApplyParameters, StreamParametersCurrent,
         PortIsCurrent, SocketIsCurrent, FileIsCurrent
<1> DEFINE Reopened == /\ h \in {"open", "apply"}
                       /\ Announced /\ active' = target /\ stream' \in States
                       /\ device' \in {"closed", "connecting", "open", "stuck"}
                       /\ stream' = "open" <=> device' = "open"
                       /\ stream' = "closed" <=> device' = "closed"
                       /\ \E i \in DOMAIN signals' :
                            i > Len(signals) /\ signals'[i] = "opening"
           Closed == /\ stream # "closed" /\ h = "close" /\ Announced
                     /\ stream' = "closed" /\ device' = "closed" /\ active' = active
           Left   == /\ NotChanged /\ device' = device /\ active' = active
                     /\ h = "close" => stream = "closed"
                     /\ h = "open" => stream # "closed"
                     /\ h = "apply" => device = "closed" \/ active = target
<1>4. \/ Left \/ Closed
      \/ Reopened /\ (h = "open" => stream = "closed")
                  /\ (h = "apply" => stream # "closed")
  <2>1. CASE Unchanged /\ (h = "close" => stream = "closed")
               /\ (h = "open" => stream # "closed") /\ (h = "apply" => active = target)
    BY <2>1 DEF Unchanged, NotChanged
  <2>2. CASE /\ stream = "closed" /\ h = "apply"
             /\ signals' = Append(signals, "available")
             /\ UNCHANGED <<stream, device, active>>
    BY <2>2 DEF NotChanged, DeviceInv, Agrees, Unnoticed
  <2>3. CASE /\ stream # "closed" /\ h = "close" /\ stream' = "closed"
             /\ device' = "closed" /\ active' = active
             /\ signals' = Append(signals, "closed")
    BY <2>3 DEF ManagedTypeOK, StreamTypeOK, Announced, Signals, States
  <2>4. CASE h = "open" /\ stream = "closed" /\ OpenStream(<<>>)
    BY <2>4, OpenFacts
  <2>5. CASE h = "apply" /\ stream # "closed" /\ OpenStream(<<"closed">>)
    BY <2>5, OpenFacts
  <2> QED
    BY <1>3, <2>1, <2>2, <2>3, <2>4, <2>5
<1> HIDE DEF h
<1>5. /\ stream' \in States /\ device' \in {"closed", "connecting", "open", "stuck"}
      /\ Unnoticed' \/ Agrees'
      /\ active' \in Targets \cup {NoStream}
      /\ Announced \/ NotChanged
  BY <1>1, <1>4 DEF ManagedTypeOK, StreamTypeOK, States, DeviceInv, Agrees, Unnoticed, NotChanged
<1>6. signals' \in Seq(Signals) /\ LastSignalInv' /\ (HasState => HasState')
  BY <1>5, AnnouncedFacts, NotChangedFacts DEF Announced
<1>7. WillChange => WillChange'
  BY <1>5, AnnouncedFacts, NotChangedFacts
<1>8. Announced => HasState'
  BY <1>5, AnnouncedFacts
<1>9. ManagedTypeOK'
  BY <1>1, <1>2, <1>5, <1>6 DEF ManagedTypeOK, StreamTypeOK
<1>10. DeviceInv'
  BY <1>1, <1>5 DEF DeviceInv, Agrees, Unnoticed
<1>11. ConnectionInv'
  BY <1>1, <1>5, <1>8, NotChangedFacts DEF ConnectionInv, NotChanged
<1>12. FirstOpenInv'
  <2> SUFFICES ASSUME managed.open, managed.connection = "closed", ~ HasState'
               PROVE  Queued("open", requests)'
    BY DEF FirstOpenInv
  <2>1. Left /\ ~ HasState
    BY <1>4, <1>6, <1>8
  <2>2. PICK i \in DOMAIN requests : requests[i] = "open"
    BY <1>1, <2>1 DEF FirstOpenInv, Queued
  <2>3. CASE i = 1
    \* the stream is not closed, and its signals have been taken
    BY <1>1, <1>2, <2>1, <2>2, <2>3 DEF ConnectionInv, Meaning, ManagedTypeOK, StreamTypeOK, States
  <2>4. CASE i # 1
    BY <1>2, <2>2, <2>4 DEF Queued
  <2> QED
    BY <2>3, <2>4
<1>13. ClosedInv'
  <2> SUFFICES ASSUME ~ managed.open
               PROVE  ClosesLast' \/ (stream' = "closed" /\ ~ Queued("open", requests)')
    BY DEF ClosedInv
  <2>1. CASE ClosesLast
    <3>1. PICK i \in DOMAIN requests :
            requests[i] = "close" /\ \A j \in DOMAIN requests : j > i => requests[j] # "open"
      BY <2>1 DEF ClosesLast
    <3>2. \A j \in DOMAIN requests' : j + 1 > i => requests'[j] # "open"
      BY <1>2, <3>1
    <3>3. CASE i = 1
      <4>1. h = "close"
        BY <1>2, <3>1, <3>3
      <4>2. stream' = "closed"
        BY <1>4, <4>1 DEF NotChanged
      <4>3. ~ Queued("open", requests)'
        BY <1>2, <3>2, <3>3 DEF Queued
      <4> QED
        BY <4>2, <4>3
    <3>4. CASE i # 1
      <4>1. i - 1 \in DOMAIN requests' /\ requests'[i - 1] = "close"
        BY <1>2, <3>1, <3>4
      <4>2. \A j \in DOMAIN requests' : j > i - 1 => requests'[j] # "open"
        BY <1>2, <3>2
      <4> QED
        BY <4>1, <4>2 DEF ClosesLast
    <3> QED
      BY <3>3, <3>4
  <2>2. CASE stream = "closed" /\ ~ Queued("open", requests)
    <3>1. h # "open" /\ ~ Queued("open", requests)'
      BY <1>1, <1>2, <2>2 DEF Queued, ManagedTypeOK, StreamTypeOK
    <3>2. stream' = "closed"
      BY <1>4, <2>2, <3>1 DEF NotChanged
    <3> QED
      BY <3>1, <3>2
  <2> QED
    BY <2>1, <2>2 DEF ClosedInv
<1>14. WillOpen => WillOpen' \/ WillChange'
  <2> SUFFICES ASSUME NEW i \in DOMAIN requests, requests[i] = "open",
                      \/ stream = "closed"
                      \/ \E j \in DOMAIN requests : j < i /\ requests[j] = "close"
               PROVE  WillOpen' \/ WillChange'
    BY DEF WillOpen
  <2>1. CASE h = "open" /\ stream = "closed"
    \* what is announced differs from what the connection is by then
    <3>1. PICK k \in DOMAIN signals' : k > Len(signals) /\ signals'[k] = "opening"
      BY <1>4, <2>1
    <3>2. Announced
      BY <1>4, <2>1
    <3>3. CASE managed.connection # "opening"
      BY <1>1, <3>1, <3>3 DEF WillChange, Meaning, States
    <3>4. CASE managed.connection = "opening"
      <4>1. HasState
        BY <1>1, <2>1, <3>4 DEF ConnectionInv, Meaning
      <4>2. PICK m \in DOMAIN signals : signals[m] = "closed"
        BY <2>1, <4>1 DEF LastSignalInv
      <4>4. WillChange
        BY <3>4, <4>2 DEF WillChange, Meaning, States
      <4> QED
        BY <1>7, <4>4
    <3> QED
      BY <3>3, <3>4
  <2>2. CASE h = "open" /\ stream # "closed"
    <3>1. PICK j \in DOMAIN requests : j < i /\ requests[j] = "close"
      BY <2>2
    <3>2. j # 1
      BY <1>2, <2>2, <3>1
    <3>3. i # 1 /\ i \in Int /\ j \in Int
      BY <1>2, <3>1
    <3>4. /\ i - 1 \in DOMAIN requests' /\ requests'[i - 1] = "open"
          /\ j - 1 \in DOMAIN requests' /\ requests'[j - 1] = "close" /\ j - 1 < i - 1
      BY <1>2, <3>1, <3>2, <3>3
    <3> QED
      BY <3>4 DEF WillOpen
  <2>3. CASE h = "close"
    <3>1. stream' = "closed" /\ i # 1
      BY <1>2, <1>4, <2>3 DEF NotChanged
    <3>2. i - 1 \in DOMAIN requests' /\ requests'[i - 1] = "open"
      BY <1>2, <3>1
    <3> QED
      BY <3>1, <3>2 DEF WillOpen
  <2>4. CASE h = "apply"
    <3>1. i # 1 /\ (stream = "closed" => stream' = "closed")
      BY <1>2, <1>4, <2>4 DEF NotChanged
    <3>2. i - 1 \in DOMAIN requests' /\ requests'[i - 1] = "open"
      BY <1>2, <3>1
    <3>3. CASE stream = "closed"
      BY <3>1, <3>2, <3>3 DEF WillOpen
    <3>4. ASSUME NEW j \in DOMAIN requests, j < i, requests[j] = "close"
          PROVE  WillOpen'
      <4>1. j # 1
        BY <1>2, <2>4, <3>4
      <4>2. i \in Int /\ j \in Int
        BY <1>2
      <4>3. j - 1 \in DOMAIN requests' /\ requests'[j - 1] = "close" /\ j - 1 < i - 1
        BY <1>2, <3>4, <4>1, <4>2
      <4> QED
        BY <3>2, <4>3 DEF WillOpen
    <3> QED
      BY <3>3, <3>4
  <2>5. h \in Requests
    BY <1>1, <1>2 DEF ManagedTypeOK, StreamTypeOK
  <2> QED
    BY <2>1, <2>2, <2>3, <2>4, <2>5 DEF Requests
<1>15. StateInv'
  BY <1>7, <1>14 DEF StateInv, DetermineState
<1>16. SettingsInv'
  <2> SUFFICES ASSUME device' # "closed", active' # target
               PROVE  Queued("apply", requests)'
    BY <1>1 DEF SettingsInv
  <2>1. Left
    BY <1>4, <1>5
  <2>2. PICK i \in DOMAIN requests : requests[i] = "apply"
    BY <2>1 DEF SettingsInv, Queued
  <2>3. i # 1
    BY <1>2, <2>1, <2>2
  <2> QED
    BY <1>2, <2>2, <2>3 DEF Queued
<1> HIDE DEF ManagedIInv
<1> QED
  BY <1>6, <1>9, <1>10, <1>11, <1>12, <1>13, <1>15, <1>16 DEF ManagedIInv

-----------------------------------------------------------------------------
(* The state that is shown *)

Same(r, m) == r.hasStream = m.hasStream /\ r.open = m.open

LEMMA UpdateFacts ==
  ASSUME NEW m \in Managed
  PROVE  /\ UpdateState(m) \in Managed /\ Same(UpdateState(m), m)
         /\ UpdateState(m).connection = m.connection
         /\ UpdateState(m).state = DetermineState(UpdateState(m))
<1>1. DetermineState(m) \in {"noConnection", "closed", "opening", "open", "ok",
                            "timeout", "error"}
  BY DEF DetermineState, Managed
<1>2. CASE DetermineState(m) = m.state
  BY <1>2 DEF UpdateState, Same
<1>3. CASE DetermineState(m) # m.state
  <2> DEFINE s == DetermineState(m)
             reconnect == s = "error"
             watch == s \in {"open", "ok"}
             r == [m EXCEPT !.state = s, !.reconnectTimer = reconnect,
                            !.dataTimer = watch]
  <2>1. UpdateState(m) = r
    BY <1>3 DEF UpdateState
  <2>2. reconnect \in BOOLEAN /\ watch \in BOOLEAN /\ s = DetermineState(m)
    OBVIOUS
  <2> HIDE DEF s, reconnect, watch
  <2>3. /\ r \in Managed /\ Same(r, m) /\ r.connection = m.connection
        /\ r.data = m.data /\ r.state = s
    BY <1>1, <2>2 DEF Managed, Same
  <2> HIDE DEF r
  <2>4. DetermineState(r) = s
    BY <2>2, <2>3 DEF DetermineState, Same
  <2> QED
    BY <2>1, <2>3, <2>4
<1> QED
  BY <1>2, <1>3

LEMMA ConnectionFacts ==
  ASSUME NEW m \in Managed, NEW c \in {"closed", "opening", "open", "error"}
  PROVE  /\ GoToConnection(m, c) \in Managed /\ Same(GoToConnection(m, c), m)
         /\ GoToConnection(m, c).connection = c
         /\ c = m.connection => GoToConnection(m, c) = m
         /\ c # m.connection => GoToConnection(m, c).state
                                  = DetermineState(GoToConnection(m, c))
<1>1. CASE c = m.connection
  BY <1>1 DEF GoToConnection, Same
<1>2. CASE c # m.connection
  <2> DEFINE r == [m EXCEPT !.connection = c,
                            !.data = IF c = "open" THEN "none" ELSE @]
  <2>1. r \in Managed /\ Same(r, m) /\ r.connection = c
    BY DEF Managed, Same
  <2>2. GoToConnection(m, c) = UpdateState(r)
    BY <1>2 DEF GoToConnection
  <2> HIDE DEF r
  <2> QED
    BY <1>2, <2>1, <2>2, UpdateFacts DEF Same
<1> QED
  BY <1>1, <1>2

LEMMA DataFacts ==
  ASSUME NEW m \in Managed, NEW d \in {"none", "ok", "timeout"}
  PROVE  /\ GoToData(m, d) \in Managed /\ Same(GoToData(m, d), m)
         /\ GoToData(m, d).connection = m.connection
         /\ \/ GoToData(m, d) = m
            \/ GoToData(m, d).state = DetermineState(GoToData(m, d))
<1>1. CASE d = m.data
  BY <1>1 DEF GoToData, Same
<1>2. CASE d # m.data
  <2> DEFINE r == [m EXCEPT !.data = d]
  <2>1. r \in Managed /\ Same(r, m) /\ r.connection = m.connection
    BY DEF Managed, Same
  <2>2. GoToData(m, d) = UpdateState(r)
    BY <1>2 DEF GoToData
  <2> HIDE DEF r
  <2> QED
    BY <2>1, <2>2, UpdateFacts DEF Same
<1> QED
  BY <1>1, <1>2

\* the timers say nothing of the state
Alike(r, m) == /\ Same(r, m) /\ r.connection = m.connection
                /\ r.data = m.data /\ r.state = m.state

LEMMA TimerFacts ==
  ASSUME NEW m \in Managed, NEW b \in BOOLEAN, NEW c \in BOOLEAN
  PROVE  /\ [m EXCEPT !.dataTimer = b] \in Managed
         /\ Alike([m EXCEPT !.dataTimer = b], m)
         /\ [m EXCEPT !.reconnectTimer = b] \in Managed
         /\ Alike([m EXCEPT !.reconnectTimer = b], m)
         /\ [m EXCEPT !.dataTimer = b, !.reconnectTimer = c] \in Managed
         /\ Alike([m EXCEPT !.dataTimer = b, !.reconnectTimer = c], m)
BY DEF Managed, Same, Alike

-----------------------------------------------------------------------------
(* Steps of the GUI thread *)

\* a signal may be taken that is not one of a state
Listened == \/ signals' = signals
            \/ /\ signals # <<>> /\ Head(signals) \notin States
               /\ signals' = Tail(signals)

LEMMA ListenedFacts ==
  ASSUME ManagedTypeOK, LastSignalInv, Listened, stream' = stream
  PROVE  /\ signals' \in Seq(Signals) /\ LastSignalInv' /\ (HasState <=> HasState')
         /\ signals = <<>> => signals' = <<>>
         /\ managed'.connection = managed.connection /\ WillChange => WillChange'
<1>1. CASE signals' = signals
  BY <1>1 DEF ManagedTypeOK, StreamTypeOK, LastSignalInv, HasState, WillChange
<1>2. CASE signals # <<>> /\ Head(signals) \notin States /\ signals' = Tail(signals)
  <2>1. /\ signals' \in Seq(Signals) /\ Len(signals) \in Nat
        /\ DOMAIN signals = 1 .. Len(signals) /\ signals[1] \notin States
        /\ \A i \in DOMAIN signals' : /\ i \in Nat /\ i + 1 \in DOMAIN signals
                                      /\ signals'[i] = signals[i + 1]
        /\ \A i \in DOMAIN signals : i = 1 \/ (/\ i - 1 \in DOMAIN signals'
                                               /\ signals'[i - 1] = signals[i])
    BY <1>2, TailFacts DEF ManagedTypeOK, StreamTypeOK
  <2>2. HasState <=> HasState'
    BY <2>1 DEF HasState
  <2>3. LastSignalInv'
    <3> SUFFICES ASSUME HasState
                 PROVE  \E i \in DOMAIN signals' :
                          /\ signals'[i] = stream
                          /\ \A j \in DOMAIN signals' : j > i => signals'[j] \notin States
      BY <2>2 DEF LastSignalInv
    <3>1. PICK i \in DOMAIN signals :
            /\ signals[i] = stream
            /\ \A j \in DOMAIN signals : j > i => signals[j] \notin States
      BY DEF LastSignalInv
    <3>2. i # 1 /\ i \in Int
      BY <2>1, <3>1 DEF ManagedTypeOK, StreamTypeOK
    <3>3. i - 1 \in DOMAIN signals' /\ signals'[i - 1] = stream
      BY <2>1, <3>1, <3>2
    <3>4. \A j \in DOMAIN signals' : j > i - 1 => signals'[j] \notin States
      BY <2>1, <3>1, <3>2
    <3> QED
      BY <3>3, <3>4
  <2>4. managed'.connection = managed.connection /\ WillChange => WillChange'
    BY <2>1 DEF WillChange
  <2> QED
    BY <1>2, <2>1, <2>2, <2>3, <2>4
<1> QED
  BY <1>1, <1>2 DEF Listened

\* nothing is said or asked, and the connection is the same
LEMMA ManagedStep ==
  ASSUME ManagedIInv, managed' \in Managed, Same(managed', managed),
         managed'.connection = managed.connection,
         \/ managed'.state = managed.state /\ managed'.data = managed.data
         \/ managed'.state = DetermineState(managed'),
         position' \in BOOLEAN, Listened, UNCHANGED <<requests, actions>>, Unmoved
  PROVE  ManagedIInv'
<1>1. /\ signals' \in Seq(Signals) /\ LastSignalInv' /\ (HasState <=> HasState')
      /\ signals = <<>> => signals' = <<>>
      /\ WillChange => WillChange'
  BY ListenedFacts DEF ManagedIInv, Unmoved
<1>2. ManagedTypeOK' /\ DeviceInv' /\ SettingsInv'
  BY <1>1 DEF ManagedIInv, ManagedTypeOK, StreamTypeOK, Unmoved, Same, DeviceInv, Agrees, Unnoticed, SettingsInv, Queued
<1>3. ConnectionInv' /\ FirstOpenInv'
  BY <1>1 DEF ManagedIInv, Unmoved, Same, ConnectionInv, FirstOpenInv, Queued
<1>4. ClosedInv'
  BY DEF ManagedIInv, Unmoved, Same, ClosedInv, ClosesLast, Queued
<1>5. StateInv'
  BY <1>1 DEF ManagedIInv, Unmoved, Same, StateInv, DetermineState, WillOpen
<1> QED
  BY <1>1, <1>2, <1>3, <1>4, <1>5 DEF ManagedIInv

LEMMA TimerSteps ==
  ASSUME ManagedIInv, DataTimeout \/ GpsTimeout
  PROVE  ManagedIInv'
<1>1. managed \in Managed /\ position \in BOOLEAN
  BY DEF ManagedIInv, ManagedTypeOK
<1>2. CASE DataTimeout
  <2> DEFINE m == [managed EXCEPT !.dataTimer = FALSE]
  <2>1. m \in Managed /\ Alike(m, managed)
    BY <1>1, TimerFacts
  <2>2. managed' = GoToData(m, "timeout")
    BY <1>2 DEF DataTimeout
  <2> HIDE DEF m
  <2>3. managed' \in Managed /\ Same(managed', managed)
        /\ managed'.connection = managed.connection
        /\ (\/ managed'.state = managed.state /\ managed'.data = managed.data
            \/ managed'.state = DetermineState(managed'))
    BY <2>1, <2>2, DataFacts DEF Same, Alike
  <2> QED
    BY <1>1, <1>2, <2>3, ManagedStep DEF DataTimeout, Listened
<1>3. CASE GpsTimeout
  BY <1>1, <1>3, ManagedStep DEF GpsTimeout, Same, Listened
<1> QED
  BY <1>2, <1>3

\* an error is shown only where the stream is wanted
LEMMA ErrorFacts ==
  ASSUME ManagedIInv, managed.state = "error"
  PROVE  managed.open
BY DEF ManagedIInv, ManagedTypeOK, Managed, StateInv, DetermineState

\* a call is queued that opens the stream, which is wanted, or looks at its
\* parameters
LEMMA AskStep ==
  ASSUME ManagedIInv, NEW request \in {"open", "apply"}, kind # NoStream,
         request = "open" => managed.open,
         requests' = Append(requests, request), Listened,
         managed' \in Managed, Alike(managed', managed),
         UNCHANGED <<kind, stream, device, active, answering, outages, position>>,
         target' \in Targets, target' = target \/ request = "apply",
         actions' \in 0 .. MaxActions
  PROVE  ManagedIInv'
<1>1. /\ requests' \in Seq(Requests)
      /\ DOMAIN requests = 1 .. Len(requests) /\ Len(requests) \in Nat
      /\ DOMAIN requests' = 1 .. Len(requests) + 1
      /\ \A i \in DOMAIN requests : i \in DOMAIN requests' /\ requests'[i] = requests[i]
      /\ requests'[Len(requests) + 1] = request
  BY DEF ManagedIInv, ManagedTypeOK, StreamTypeOK, Requests
<1>2. /\ signals' \in Seq(Signals) /\ LastSignalInv' /\ (HasState <=> HasState')
      /\ WillChange => WillChange'
  BY ListenedFacts DEF ManagedIInv, Alike
<1>3. ManagedTypeOK' /\ DeviceInv'
  BY <1>1, <1>2 DEF ManagedIInv, ManagedTypeOK, StreamTypeOK, DeviceInv, Agrees, Unnoticed, Alike, Same
<1>4. ConnectionInv' /\ FirstOpenInv'
  BY <1>1, <1>2 DEF ManagedIInv, ConnectionInv, FirstOpenInv, Queued, Alike, Same
<1>5. ClosedInv'
  <2> SUFFICES ASSUME ~ managed.open
               PROVE  ClosesLast' \/ (stream = "closed" /\ ~ Queued("open", requests)')
    BY DEF ClosedInv, Alike, Same
  <2>1. request = "apply"
    OBVIOUS
  <2>2. CASE ClosesLast
    BY <1>1, <2>1, <2>2 DEF ClosesLast
  <2>3. CASE stream = "closed" /\ ~ Queued("open", requests)
    BY <1>1, <2>1, <2>3 DEF Queued
  <2> QED
    BY <2>2, <2>3 DEF ManagedIInv, ClosedInv
<1>6. WillOpen => WillOpen'
  BY <1>1 DEF WillOpen
<1>7. StateInv'
  BY <1>2, <1>6 DEF ManagedIInv, StateInv, Alike, Same, DetermineState
<1>8. SettingsInv'
  <2>1. CASE request = "apply"
    BY <1>1, <2>1 DEF SettingsInv, Queued
  <2>2. CASE target' = target
    BY <1>1, <2>2 DEF ManagedIInv, SettingsInv, Queued
  <2> QED
    BY <2>1, <2>2
<1> QED
  BY <1>2, <1>3, <1>4, <1>5, <1>7, <1>8 DEF ManagedIInv

\* the stream is asked to open again, if there is one
LEMMA ReopenStep ==
  ASSUME ManagedIInv, Listened, managed' \in Managed, Alike(managed', managed),
         Unmoved, UNCHANGED <<position, actions>>,
         IF managed.state = "error" THEN Ask("open") ELSE UNCHANGED requests
  PROVE  ManagedIInv'
<1>1. CASE requests' = requests
  BY <1>1, ManagedStep DEF ManagedIInv, ManagedTypeOK, Alike
<1>2. CASE managed.state = "error" /\ kind # NoStream /\ requests' = Append(requests, "open")
  BY <1>2, AskStep, ErrorFacts DEF ManagedIInv, ManagedTypeOK, StreamTypeOK, Unmoved
<1> QED
  BY <1>1, <1>2 DEF Ask

LEMMA TriesAgain ==
  ASSUME ManagedIInv, ReconnectTimeout \/ ConnectionBecameAvailable
  PROVE  ManagedIInv'
<1>1. managed \in Managed
  BY DEF ManagedIInv, ManagedTypeOK
<1>2. CASE ReconnectTimeout
  <2>1. managed' \in Managed /\ Alike(managed', managed)
    BY <1>1, <1>2, TimerFacts DEF ReconnectTimeout
  <2> QED
    BY <1>2, <2>1, ReopenStep DEF ReconnectTimeout, Listened
<1>3. CASE ConnectionBecameAvailable
  <2>1. Listened /\ managed' \in Managed /\ Alike(managed', managed)
    BY <1>1, <1>3 DEF ConnectionBecameAvailable, Listened, States, Alike, Same
  <2> QED
    BY <1>3, <2>1, ReopenStep DEF ConnectionBecameAvailable
<1> QED
  BY <1>2, <1>3

LEMMA DataReceivedStep ==
  ASSUME ManagedIInv, DataReceived
  PROVE  ManagedIInv'
<1>1. managed \in Managed /\ position' \in BOOLEAN
  BY DEF ManagedIInv, ManagedTypeOK, DataReceived
<1> DEFINE m == GoToData(managed, "ok")
<1>2. /\ m \in Managed /\ Same(m, managed) /\ m.connection = managed.connection
      /\ m = managed \/ m.state = DetermineState(m)
  BY <1>1, DataFacts
<1>3. managed' = [m EXCEPT !.dataTimer = TRUE]
  BY DEF DataReceived
<1> HIDE DEF m
<1>4. managed' \in Managed /\ Alike(managed', m)
  BY <1>2, <1>3, TimerFacts
<1>5. /\ Same(managed', managed) /\ managed'.connection = managed.connection
      /\ \/ managed'.state = managed.state /\ managed'.data = managed.data
         \/ managed'.state = DetermineState(managed')
  BY <1>2, <1>4 DEF Alike, Same, DetermineState
<1>6. Listened
  BY DEF DataReceived, Listened, States
<1> QED
  BY <1>1, <1>4, <1>5, <1>6, ManagedStep DEF DataReceived

\* a signal of a state is taken
LEMMA StateChangedStep ==
  ASSUME ManagedIInv, StateChanged
  PROVE  ManagedIInv'
<1> USE DEF ManagedIInv
<1> DEFINE c == Meaning(Head(signals))
<1>1. /\ signals' \in Seq(Signals) /\ Len(signals) \in Nat /\ Head(signals) = signals[1]
      /\ DOMAIN signals = 1 .. Len(signals) /\ signals[1] \in States
      /\ \A i \in DOMAIN signals' : /\ i \in Nat /\ i + 1 \in DOMAIN signals
                                    /\ signals'[i] = signals[i + 1]
      /\ \A i \in DOMAIN signals : i = 1 \/ (/\ i - 1 \in DOMAIN signals'
                                             /\ signals'[i - 1] = signals[i])
      /\ 1 \in DOMAIN signals
  BY TailFacts DEF ManagedTypeOK, StreamTypeOK, StateChanged
<1>2. /\ managed \in Managed /\ c \in {"opening", "open", "error"}
      /\ managed' = GoToConnection(managed, c)
  BY <1>1 DEF ManagedTypeOK, StateChanged, StreamState, Meaning, States
<1>3. /\ managed' \in Managed /\ Same(managed', managed)
      /\ managed'.connection = c
      /\ c = managed.connection => managed' = managed
      /\ c # managed.connection => managed'.state = DetermineState(managed')
  BY <1>2, ConnectionFacts
<1>4. UNCHANGED <<requests, position, actions>> /\ Unmoved
  BY DEF StateChanged
<1>5. kind # NoStream
  BY <1>1 DEF DeviceInv, Agrees, Unnoticed
<1>6. ManagedTypeOK' /\ DeviceInv' /\ SettingsInv'
  BY <1>1, <1>3, <1>4, <1>5
     DEF ManagedTypeOK, StreamTypeOK, Unmoved, Same, DeviceInv, Agrees, Unnoticed, SettingsInv, Queued
<1>7. PICK k \in DOMAIN signals :
        signals[k] = stream /\ \A j \in DOMAIN signals : j > k => signals[j] \notin States
  BY <1>1 DEF LastSignalInv, HasState
<1> HIDE DEF c
<1>9. LastSignalInv' /\ ConnectionInv'
  <2>1. CASE k = 1
    <3>1. c = Meaning(stream)
      BY <1>1, <1>7, <2>1 DEF c
    <3>2. ~ HasState'
      BY <1>1, <1>7, <2>1 DEF HasState
    <3> QED
      BY <3>1, <3>2, <1>3, <1>4 DEF LastSignalInv, ConnectionInv, Unmoved
  <2>2. CASE k # 1
    <3>1. k - 1 \in DOMAIN signals' /\ signals'[k - 1] = stream /\ k \in Int
      BY <1>1, <1>7, <2>2
    <3>2. \A j \in DOMAIN signals' : j > k - 1 => signals'[j] \notin States
      BY <1>1, <1>7, <3>1
    <3>3. stream' = stream /\ stream \in States
      BY <1>4 DEF Unmoved, ManagedTypeOK, StreamTypeOK
    <3> QED
      BY <3>1, <3>2, <3>3 DEF LastSignalInv, ConnectionInv, HasState
  <2> QED
    BY <2>1, <2>2
<1>10. FirstOpenInv'
  BY <1>2, <1>3 DEF FirstOpenInv
<1>11. ClosedInv'
  BY <1>3, <1>4 DEF ClosedInv, ClosesLast, Queued, Unmoved, Same
<1>12. StateInv'
  <2>1. CASE c # managed.connection
    BY <1>3, <2>1 DEF StateInv
  <2>2. CASE c = managed.connection
    <3>1. WillOpen => WillOpen'
      BY <1>4 DEF WillOpen, Unmoved
    <3>2. WillChange => WillChange'
      BY <1>1, <1>3, <2>2 DEF WillChange, c
    <3> QED
      BY <1>3, <2>2, <3>1, <3>2 DEF StateInv
  <2> QED
    BY <2>1, <2>2
<1> HIDE DEF ManagedIInv
<1> QED
  BY <1>6, <1>9, <1>10, <1>11, <1>12 DEF ManagedIInv

-----------------------------------------------------------------------------
(* Steps of the user *)

LEMMA UserOpensStep ==
  ASSUME ManagedIInv, UserOpens
  PROVE  ManagedIInv'
<1> USE DEF ManagedIInv
<1>1. /\ actions' \in 0 .. MaxActions /\ ~ managed.open /\ managed \in Managed
      /\ managed' = [managed EXCEPT !.open = TRUE] /\ Ask("open")
      /\ UNCHANGED <<signals, position>> /\ Unmoved
  BY ManagedAssumption DEF UserOpens, Act, ManagedTypeOK
<1>2. /\ managed' \in Managed /\ managed'.open /\ managed'.hasStream = managed.hasStream
      /\ managed'.connection = managed.connection /\ managed'.state = managed.state
  BY <1>1 DEF Managed
<1>3. /\ requests' \in Seq(Requests)
      /\ DOMAIN requests = 1 .. Len(requests) /\ Len(requests) \in Nat
      /\ kind = NoStream => requests' = requests
      /\ kind # NoStream =>
           /\ DOMAIN requests' = 1 .. Len(requests) + 1
           /\ \A i \in DOMAIN requests :
                i \in DOMAIN requests' /\ requests'[i] = requests[i]
           /\ requests'[Len(requests) + 1] = "open"
  BY <1>1 DEF Ask, ManagedTypeOK, StreamTypeOK, Requests
<1>4. ManagedTypeOK' /\ DeviceInv'
  BY <1>1, <1>2, <1>3 DEF ManagedTypeOK, StreamTypeOK, DeviceInv, Agrees, Unnoticed, Unmoved
<1>5. LastSignalInv' /\ ConnectionInv'
  BY <1>1, <1>2 DEF LastSignalInv, HasState, ConnectionInv, Unmoved
<1>6. FirstOpenInv'
  BY <1>1, <1>3 DEF FirstOpenInv, Queued, Unmoved
<1>7. ClosedInv'
  BY <1>2 DEF ClosedInv
<1>8. StateInv'
  <2>1. CASE kind = NoStream
    <3>1. ~ managed.hasStream
      BY <2>1 DEF ManagedTypeOK
    <3> QED
      BY <1>2, <3>1 DEF StateInv, DetermineState
  <2>2. CASE kind # NoStream
    <3>1. managed.hasStream /\ managed.state = "closed"
      BY <1>1, <2>2 DEF ManagedTypeOK, StateInv, DetermineState
    <3>2. Len(requests) + 1 \in DOMAIN requests'
      BY <1>3, <2>2
    <3>3. WillOpen'
      <4>1. CASE stream = "closed"
        BY <1>1, <1>3, <2>2, <3>2, <4>1 DEF WillOpen, Unmoved
      <4>2. ASSUME NEW j \in DOMAIN requests, requests[j] = "close"
            PROVE  WillOpen'
        <5>1. j \in DOMAIN requests' /\ requests'[j] = "close" /\ j < Len(requests) + 1
          BY <1>3, <2>2, <4>2
        <5> QED
          BY <1>3, <2>2, <3>2, <5>1 DEF WillOpen
      <4> QED
        BY <1>1, <4>1, <4>2 DEF ClosedInv, ClosesLast
    <3> QED
      BY <1>2, <3>1, <3>3 DEF StateInv
  <2> QED
    BY <2>1, <2>2
<1>9. SettingsInv'
  BY <1>1, <1>3 DEF SettingsInv, Queued, Unmoved, DeviceInv, Agrees, Unnoticed
<1> HIDE DEF ManagedIInv
<1> QED
  BY <1>4, <1>5, <1>6, <1>7, <1>8, <1>9 DEF ManagedIInv

LEMMA UserClosesStep ==
  ASSUME ManagedIInv, UserCloses
  PROVE  ManagedIInv'
<1> USE DEF ManagedIInv
<1> DEFINE m == [managed EXCEPT !.open = FALSE]
           n == UpdateState(m)
<1>1. /\ actions' \in 0 .. MaxActions /\ managed \in Managed
      /\ managed' = [n EXCEPT !.dataTimer = FALSE, !.reconnectTimer = FALSE]
      /\ Ask("close") /\ UNCHANGED <<signals, position>> /\ Unmoved
  BY ManagedAssumption DEF UserCloses, Act, ManagedTypeOK
<1>2. /\ m \in Managed /\ ~ m.open /\ m.hasStream = managed.hasStream
      /\ m.connection = managed.connection
  BY <1>1 DEF Managed
<1> HIDE DEF m
<1>3. /\ n \in Managed /\ Same(n, m) /\ n.connection = m.connection
      /\ n.state = DetermineState(n)
  BY <1>2, UpdateFacts
<1> HIDE DEF n
<1>4. managed' \in Managed /\ Alike(managed', n)
  BY <1>1, <1>3, TimerFacts
<1>5. /\ ~ managed'.open /\ managed'.hasStream = managed.hasStream
      /\ managed'.connection = managed.connection
      /\ managed'.state = DetermineState(managed')
  BY <1>2, <1>3, <1>4 DEF Alike, Same, DetermineState
<1>6. /\ requests' \in Seq(Requests)
      /\ DOMAIN requests = 1 .. Len(requests) /\ Len(requests) \in Nat
      /\ kind = NoStream => requests' = requests
      /\ kind # NoStream =>
           /\ DOMAIN requests' = 1 .. Len(requests) + 1
           /\ \A i \in DOMAIN requests :
                i \in DOMAIN requests' /\ requests'[i] = requests[i]
           /\ requests'[Len(requests) + 1] = "close"
  BY <1>1 DEF Ask, ManagedTypeOK, StreamTypeOK, Requests
<1>7. ManagedTypeOK' /\ DeviceInv'
  BY <1>1, <1>4, <1>5, <1>6 DEF ManagedTypeOK, StreamTypeOK, DeviceInv, Agrees, Unnoticed, Unmoved
<1>8. LastSignalInv' /\ ConnectionInv' /\ FirstOpenInv' /\ StateInv'
  BY <1>1, <1>5
     DEF LastSignalInv, HasState, ConnectionInv, FirstOpenInv, StateInv, Unmoved
<1>9. ClosedInv'
  <2>1. CASE kind = NoStream
    BY <1>1, <1>6, <2>1 DEF ClosedInv, DeviceInv, Agrees, Unnoticed, Queued, Unmoved
  <2>2. CASE kind # NoStream
    <3>1. /\ Len(requests) + 1 \in DOMAIN requests'
          /\ \A j \in DOMAIN requests' : ~ (j > Len(requests) + 1)
      BY <1>6, <2>2
    <3> QED
      BY <1>6, <2>2, <3>1 DEF ClosedInv, ClosesLast
  <2> QED
    BY <2>1, <2>2
<1>10. SettingsInv'
  BY <1>1, <1>6 DEF SettingsInv, Queued, Unmoved, DeviceInv, Agrees, Unnoticed
<1> HIDE DEF ManagedIInv
<1> QED
  BY <1>7, <1>8, <1>9, <1>10 DEF ManagedIInv

\* a stream that is new has said nothing, and is asked what the user wants
LEMMA ReplaceStep ==
  ASSUME ManagedIInv, NEW k \in Kinds, NEW t \in Targets, ReplaceStream(k, t),
         UNCHANGED <<answering, outages, position>>, actions' \in 0 .. MaxActions
  PROVE  ManagedIInv'
<1> DEFINE m == [managed EXCEPT !.hasStream = TRUE]
           n == GoToConnection(m, "error")
<1>1. /\ kind' = k /\ target' = t /\ stream' = "closed" /\ device' = "closed"
      /\ active' = NoStream /\ signals' = <<>>
      /\ requests' = <<IF managed.open THEN "open" ELSE "close">>
      /\ managed' = GoToConnection(n, "closed")
  BY DEF ReplaceStream, StreamState
<1>2. m \in Managed /\ m.hasStream /\ m.open = managed.open
  BY DEF ManagedIInv, ManagedTypeOK, Managed
<1> HIDE DEF m
<1>3. n \in Managed /\ Same(n, m) /\ n.connection = "error"
  BY <1>2, ConnectionFacts
<1> HIDE DEF n
<1>4. /\ managed' \in Managed /\ managed'.hasStream /\ managed'.open = managed.open
      /\ managed'.connection = "closed" /\ managed'.state = DetermineState(managed')
  BY <1>1, <1>2, <1>3, ConnectionFacts DEF Same
<1>5. k # NoStream /\ signals' \in Seq(Signals)
  BY <1>1, StreamAssumption, ShortSequences
<1>6. /\ requests' \in Seq(Requests) /\ DOMAIN requests' = {1}
      /\ requests'[1] = IF managed.open THEN "open" ELSE "close"
  BY <1>1 DEF Requests
<1>7. ManagedTypeOK'
  BY <1>1, <1>4, <1>5, <1>6 DEF ManagedIInv, ManagedTypeOK, StreamTypeOK, States
<1>8. DeviceInv' /\ SettingsInv' /\ StateInv'
  BY <1>1, <1>4, <1>5 DEF DeviceInv, Agrees, Unnoticed, SettingsInv, StateInv
<1>9. LastSignalInv' /\ ConnectionInv'
  BY <1>1, <1>4 DEF LastSignalInv, HasState, ConnectionInv
<1>10. FirstOpenInv' /\ ClosedInv'
  BY <1>4, <1>6 DEF FirstOpenInv, ClosedInv, ClosesLast, Queued
<1> QED
  BY <1>7, <1>8, <1>9, <1>10 DEF ManagedIInv

LEMMA ClearStep ==
  ASSUME ManagedIInv, ClearStream, UNCHANGED <<answering, outages, position>>,
         actions' \in 0 .. MaxActions
  PROVE  ManagedIInv'
<1> DEFINE m == [managed EXCEPT !.hasStream = FALSE]
<1>1. /\ kind' = NoStream /\ target' = target /\ stream' = "closed"
      /\ device' = "closed" /\ active' = NoStream
      /\ signals' = <<>> /\ requests' = <<>> /\ managed' = UpdateState(m)
  BY DEF ClearStream
<1>2. m \in Managed /\ ~ m.hasStream
  BY DEF ManagedIInv, ManagedTypeOK, Managed
<1> HIDE DEF m
<1>3. /\ managed' \in Managed /\ ~ managed'.hasStream
      /\ managed'.state = DetermineState(managed')
  BY <1>1, <1>2, UpdateFacts DEF Same
<1>4. signals' \in Seq(Signals) /\ requests' \in Seq(Requests)
  BY <1>1, ShortSequences
<1>5. ManagedTypeOK'
  BY <1>1, <1>3, <1>4 DEF ManagedIInv, ManagedTypeOK, StreamTypeOK, States
<1>6. DeviceInv' /\ SettingsInv' /\ StateInv' /\ ConnectionInv' /\ FirstOpenInv'
  BY <1>1, <1>3 DEF DeviceInv, Agrees, Unnoticed, SettingsInv, StateInv, ConnectionInv, FirstOpenInv
<1>7. LastSignalInv' /\ ClosedInv'
  BY <1>1 DEF LastSignalInv, HasState, ClosedInv, Queued
<1> QED
  BY <1>5, <1>6, <1>7 DEF ManagedIInv

LEMMA SettingsStep ==
  ASSUME ManagedIInv, SettingsChanged
  PROVE  ManagedIInv'
<1>1. actions' \in 0 .. MaxActions /\ UNCHANGED <<answering, outages, position>>
  BY ManagedAssumption DEF SettingsChanged, Act, ManagedIInv, ManagedTypeOK
<1>2. ASSUME NEW t \in Targets, SetParameters(t)
      PROVE  ManagedIInv'
  <2>1. managed' \in Managed /\ Alike(managed', managed) /\ Listened
    BY <1>2 DEF SetParameters, ManagedIInv, ManagedTypeOK, Alike, Same, Listened
  <2> QED
    BY <1>1, <1>2, <2>1, AskStep DEF SetParameters
<1> QED
  BY <1>1, <1>2, ReplaceStep, ClearStep DEF SettingsChanged

-----------------------------------------------------------------------------
(* The theorems *)

LEMMA OutsideStep ==
  ASSUME ManagedIInv, Outage \/ Return, UNCHANGED <<managed, position, actions>>
  PROVE  ManagedIInv'
<1>1. /\ UNCHANGED <<kind, target, stream, device, active, requests, signals,
                     managed, position, actions>>
      /\ answering' \subseteq Targets /\ outages' \in 0 .. MaxOutages
  BY StreamAssumption DEF ManagedIInv, ManagedTypeOK, StreamTypeOK, Outage, Return
<1> QED
  BY <1>1 DEF ManagedIInv, ManagedTypeOK, StreamTypeOK, DeviceInv, Agrees, Unnoticed, LastSignalInv, HasState,
              ConnectionInv, FirstOpenInv, ClosedInv, ClosesLast, StateInv,
              WillChange, WillOpen, SettingsInv, Queued

LEMMA StutterStep ==
  ASSUME ManagedIInv, UNCHANGED managedVars
  PROVE  ManagedIInv'
BY DEF ManagedIInv, ManagedTypeOK, StreamTypeOK, DeviceInv, Agrees, Unnoticed, LastSignalInv, HasState,
       ConnectionInv, FirstOpenInv, ClosedInv, ClosesLast, StateInv,
       WillChange, WillOpen, SettingsInv, Queued, managedVars, streamVars

LEMMA Initially == ManagedInit => ManagedIInv
<1> SUFFICES ASSUME ManagedInit PROVE ManagedIInv
  OBVIOUS
<1>1. kind \in Kinds /\ kind # NoStream
  BY StreamAssumption DEF ManagedInit
<1>2. /\ requests \in Seq(Requests) /\ DOMAIN requests = {1, 2}
      /\ requests[2] = "open"
  <2>1. "close" \in Requests /\ "open" \in Requests
    BY DEF Requests
  <2> QED
    BY <2>1, ShortSequences DEF ManagedInit
<1>3. signals \in Seq(Signals) /\ DOMAIN signals = {}
  BY ShortSequences DEF ManagedInit
<1>4. ManagedTypeOK
  <2>1. StreamTypeOK
    BY <1>1, <1>2, <1>3, StreamAssumption DEF ManagedInit, StreamTypeOK, States
  <2>2. managed \in Managed /\ managed.hasStream
    BY DEF ManagedInit, Managed
  <2>3. position \in BOOLEAN
    BY Zenon DEF ManagedInit
  <2>4. actions = 0
    BY DEF ManagedInit
  <2>5. actions \in 0 .. MaxActions
    BY <2>4, ManagedAssumption
  <2> QED
    BY <1>1, <2>1, <2>2, <2>3, <2>5 DEF ManagedTypeOK
<1>5. DeviceInv /\ LastSignalInv /\ ConnectionInv
  BY <1>1, <1>3 DEF ManagedInit, DeviceInv, Agrees, Unnoticed, LastSignalInv, HasState, ConnectionInv
<1>6. FirstOpenInv /\ ClosedInv /\ SettingsInv
  BY <1>2 DEF ManagedInit, FirstOpenInv, ClosedInv, SettingsInv, Queued
<1>7. StateInv
  <2>1. managed.open /\ managed.state = "closed" /\ DetermineState(managed) = "closed"
    BY DEF ManagedInit, DetermineState
  <2> QED
    BY <2>1 DEF StateInv
<1> QED
  BY <1>4, <1>5, <1>6, <1>7 DEF ManagedIInv

LEMMA Preserved == ManagedIInv /\ [ManagedNext]_managedVars => ManagedIInv'
<1> SUFFICES ASSUME ManagedIInv, [ManagedNext]_managedVars PROVE ManagedIInv'
  OBVIOUS
<1>1. CASE Thread
  BY <1>1, RequestStep, NoticesStep DEF Thread, StreamThread
<1>2. CASE Outside
  BY <1>2, NoticesStep, OutsideStep DEF Outside
<1>3. CASE DeliverSignal
  BY <1>3, StateChangedStep, DataReceivedStep, TriesAgain DEF DeliverSignal
<1>4. CASE ReconnectTimeout \/ DataTimeout \/ GpsTimeout
  BY <1>4, TriesAgain, TimerSteps
<1>5. CASE User
  BY <1>5, UserOpensStep, UserClosesStep, SettingsStep DEF User
<1>6. CASE UNCHANGED managedVars
  BY <1>6, StutterStep
<1> QED
  BY <1>1, <1>2, <1>3, <1>4, <1>5, <1>6 DEF ManagedNext

(* The variables have their types, and there is a stream if and only if    *)
(* the GUI thread has one.                                                 *)
THEOREM StreamsTypeCorrect == ManagedSpec => []ManagedTypeOK
<1>1. ManagedIInv => ManagedTypeOK
  BY DEF ManagedIInv
<1> QED
  BY <1>1, Initially, Preserved, PTL DEF ManagedSpec

(* What is shown is the state of the stream whenever no call and no signal *)
(* is on its way, whatever was opened, closed, replaced or lost before, and *)
(* that of the device but for a socket whose failure nobody notices        *)
(* (ManagedDataStream.cpp: updateState, goToConnectionState,               *)
(* stream_stateChanged).                                                   *)
THEOREM ShownStateIsTrue == ManagedSpec => []ShownIsTrue
<1>1. ASSUME ManagedIInv, Quiet
      PROVE  ShownIsTrue
  <2>1. /\ ~ HasState /\ ~ WillChange /\ ~ WillOpen
        /\ ~ Queued("open", requests) /\ ~ ClosesLast
    BY <1>1 DEF Quiet, HasState, WillChange, WillOpen, ClosesLast, Queued
  <2>2. managed.state = DetermineState(managed)
    BY <1>1, <2>1 DEF ManagedIInv, StateInv
  <2>3. ~ managed.open => stream = "closed"
    BY <1>1, <2>1 DEF ManagedIInv, ClosedInv
  <2>4. managed.hasStream <=> kind # NoStream
    BY <1>1 DEF ManagedIInv, ManagedTypeOK
  <2>5. kind # NoStream => /\ managed.connection \in {stream, Meaning(stream)}
                           /\ managed.open => managed.connection # "closed"
    BY <1>1, <2>1 DEF ManagedIInv, ConnectionInv, FirstOpenInv
  <2>6. /\ stream \in States /\ managed.data \in {"none", "ok", "timeout"}
        /\ managed.connection \in {"closed", "opening", "open", "error"}
    BY <1>1 DEF ManagedIInv, ManagedTypeOK, StreamTypeOK, Managed
  <2>7. /\ ~ Unnoticed => (stream = "open" <=> device = "open")
        /\ kind = NoStream => stream = "closed"
    BY <1>1 DEF ManagedIInv, DeviceInv, Agrees
  <2>8. /\ managed.state = "noConnection" <=> kind = NoStream
        /\ managed.state = "closed" <=> kind # NoStream /\ ~ managed.open
        /\ managed.state = "error" => stream = "closed" /\ managed.open
        /\ managed.state = "opening" <=> stream = "opening" /\ managed.open
        /\ managed.state \in Connected <=> stream = "open" /\ managed.open
    BY <2>2, <2>3, <2>4, <2>5, <2>6, <2>7 DEF DetermineState, Connected, Meaning, States
  <2> QED
    BY <2>3, <2>7, <2>8 DEF ShownIsTrue
<1>2. ManagedIInv => ShownIsTrue
  BY <1>1 DEF ShownIsTrue
<1> QED
  BY <1>2, Initially, Preserved, PTL DEF ManagedSpec

(* No device stays open for a target that the settings no longer name      *)
(* (DataStream.cpp: applyParameters).                                      *)
THEOREM SettingsAreUsed == ManagedSpec => []UsesTheSettings
<1>1. ManagedIInv => UsesTheSettings
  BY DEF ManagedIInv, SettingsInv, UsesTheSettings, Quiet, Queued
<1> QED
  BY <1>1, Initially, Preserved, PTL DEF ManagedSpec

-----------------------------------------------------------------------------
(* Waiter *)

(* Who is where while holding the mutex. *)
MutexInv ==
  \A t \in Threads : mutex = t <=>
    \/ t \in Waiters /\ pc[t] \in {"check", "awake"}
    \/ t \in Notifiers /\ pc[t] \in {"set", "wake", "unlock"}

(* A sleeper is in waitCondition.wait; nobody has left it, and no notifier *)
(* is past setting the flag, unless the flag is set.                       *)
SleepInv ==
  /\ \A t \in sleeping : pc[t] = "asleep"
  /\ \A t \in Waiters : pc[t] \in {"awake", "returned"} => flag
  /\ \A t \in Waiters : pc[t] = "asleep" /\ t \notin sleeping => flag
  /\ \A t \in Notifiers : pc[t] \in {"wake", "unlock", "returned"} => flag

WaiterIInv == WaiterTypeOK /\ MutexInv /\ SleepInv /\ NoLostWakeup

USE ThreadAssumption

LEMMA WaiterStarts == WaiterInit => WaiterIInv
  BY DEF WaiterInit, WaiterIInv, WaiterTypeOK, MutexInv, SleepInv, NoLostWakeup,
         Threads, WaiterPoints, NotifierPoints

LEMMA WaitsStep == ASSUME WaiterIInv, NEW t \in Waiters, Waits(t)
                   PROVE  WaiterIInv'
<1> USE DEF WaiterIInv, WaiterTypeOK, MutexInv, SleepInv, NoLostWakeup,
            Threads, WaiterPoints, NotifierPoints, Proceed, Lock, Unlock
<1>1. CASE WaitLock(t)
  BY <1>1 DEF WaitLock
<1>2. CASE WaitReturnAtOnce(t)
  BY <1>2 DEF WaitReturnAtOnce
<1>3. CASE WaitSleep(t)
  BY <1>3 DEF WaitSleep
<1>4. CASE WaitWake(t)
  BY <1>4 DEF WaitWake
<1>5. CASE WaitReturn(t)
  BY <1>5 DEF WaitReturn
<1> QED BY <1>1, <1>2, <1>3, <1>4, <1>5 DEF Waits

LEMMA NotifiesStep == ASSUME WaiterIInv, NEW t \in Notifiers, Notifies(t)
                      PROVE  WaiterIInv'
<1> USE DEF WaiterIInv, WaiterTypeOK, MutexInv, SleepInv, NoLostWakeup,
            Threads, WaiterPoints, NotifierPoints, Proceed, Lock, Unlock
<1>1. CASE NotifyLock(t)
  BY <1>1 DEF NotifyLock
<1>2. CASE NotifySet(t)
  BY <1>2 DEF NotifySet
<1>3. CASE NotifyWakeAll(t)
  BY <1>3 DEF NotifyWakeAll
<1>4. CASE NotifyUnlock(t)
  BY <1>4 DEF NotifyUnlock
<1> QED BY <1>1, <1>2, <1>3, <1>4 DEF Notifies

LEMMA WaiterGoesOn == WaiterIInv /\ [WaiterNext]_waiterVars => WaiterIInv'
<1> SUFFICES ASSUME WaiterIInv, [WaiterNext]_waiterVars PROVE WaiterIInv'
  OBVIOUS
<1>1. CASE WaiterNext
  BY <1>1, WaitsStep, NotifiesStep DEF WaiterNext
<1>2. CASE UNCHANGED waiterVars
  BY <1>2 DEF waiterVars, WaiterIInv, WaiterTypeOK, MutexInv, SleepInv,
               NoLostWakeup
<1> QED BY <1>1, <1>2

LEMMA WaiterInvariance == WaiterSpec => []WaiterIInv
  BY WaiterStarts, WaiterGoesOn, PTL DEF WaiterSpec

(* Every reachable state is well-typed, for any set of threads. *)
THEOREM WaiterTypeCorrect == WaiterSpec => []WaiterTypeOK
<1>1. WaiterIInv => WaiterTypeOK
  BY DEF WaiterIInv
<1> QED BY <1>1, WaiterInvariance, PTL

(* No wakeup is lost (Waiter.cpp 5-26), whatever the number of threads. *)
THEOREM WakeupsKept == WaiterSpec => []NoLostWakeup
<1>1. WaiterIInv => NoLostWakeup
  BY DEF WaiterIInv
<1> QED BY <1>1, WaiterInvariance, PTL

(* Waiter::wait and notify together are a gate: what an atomic flag would  *)
(* do, so WorkerCall may use one for the Returner's Waiter.                *)
THEOREM WaiterIsGate == WaiterSpec => ImplementsGate
<1>1. WaiterInit => AsGate!Init
  BY DEF WaiterInit, AsGate!Init, Threads
<1>2. WaiterIInv /\ [WaiterNext]_waiterVars => [AsGate!Next]_(AsGate!vars)
  <2> SUFFICES ASSUME WaiterIInv, [WaiterNext]_waiterVars
               PROVE  [AsGate!Next]_(AsGate!vars)
    OBVIOUS
  <2> DEFINE passed == {t \in Waiters : pc[t] = "returned"}
  <2> USE DEF WaiterIInv, WaiterTypeOK, SleepInv, Threads, Proceed,
              AsGate!Next, AsGate!Open, AsGate!Pass, AsGate!vars
  <2>1. ASSUME NEW t \in Waiters,
               WaitReturnAtOnce(t) \/ WaitReturn(t)
        PROVE  AsGate!Pass(t)
    <3>1. flag /\ UNCHANGED flag
      BY <2>1 DEF WaitReturnAtOnce, WaitReturn
    <3>2. passed' = passed \cup {t}
      BY <2>1 DEF WaitReturnAtOnce, WaitReturn
    <3> QED BY <3>1, <3>2
  <2>2. ASSUME NEW t \in Waiters, WaitLock(t) \/ WaitSleep(t) \/ WaitWake(t)
        PROVE  UNCHANGED AsGate!vars
    <3>1. UNCHANGED flag
      BY <2>2 DEF WaitLock, WaitSleep, WaitWake
    <3>2. passed' = passed
      BY <2>2 DEF WaitLock, WaitSleep, WaitWake
    <3> QED BY <3>1, <3>2
  <2>3. ASSUME NEW t \in Notifiers, NotifySet(t)
        PROVE  AsGate!Open
    BY <2>3 DEF NotifySet
  <2>4. ASSUME NEW t \in Notifiers,
               NotifyLock(t) \/ NotifyWakeAll(t) \/ NotifyUnlock(t)
        PROVE  UNCHANGED AsGate!vars
    BY <2>4 DEF NotifyLock, NotifyWakeAll, NotifyUnlock
  <2>5. CASE UNCHANGED waiterVars
    BY <2>5 DEF waiterVars
  <2> QED BY <2>1, <2>2, <2>3, <2>4, <2>5 DEF WaiterNext, Waits, Notifies
<1> QED BY <1>1, <1>2, WaiterInvariance, PTL DEF WaiterSpec, ImplementsGate, AsGate!Spec

-----------------------------------------------------------------------------
(* WorkerCall *)

USE CallAssumption

\* a call that is over has been notified, one that is unused has not
CallsInv ==
  \A c \in Calls : /\ caller[c] \in Over => notified[c]
                   /\ caller[c] = "unused" => ~notified[c] /\ refs[c] = 1

\* c waits for the worker
Posted(c) == /\ caller[c] # "unused" /\ ~notified[c] /\ refs[c] = 1
             /\ worker # Idle => worker.call # c

QueueInv ==
  /\ \A i \in 1 .. Len(queue) : Posted(queue[i])
  /\ \A i, j \in 1 .. Len(queue) : queue[i] = queue[j] => i = j

\* The caller cannot have gone on before it is notified, which is the last
\* that is done to a call whose interface is a temporary; and the interface
\* ends exactly when the slot lets go of it, not with a suboperation.
WorkerInv ==
  worker # Idle =>
    /\ caller[worker.call] # "unused"
    /\ worker.at \in {"work", "nested", "store", "notify"}
         \/ worker.call \in TempCalls
       => ~notified[worker.call]
    /\ worker.at = "notify" => result[worker.call] = worker.out
    /\ worker.at = "nested" => refs[worker.call] = 3
    /\ worker.at \in {"work", "drop"} => refs[worker.call] = 2
    /\ worker.at \in {"store", "notify"} =>
         refs[worker.call] = IF worker.call \in TempCalls THEN 1 ELSE 2
    /\ worker.at \in {"ended", "emit"} => refs[worker.call] = 1

IInv == TypeOK /\ CallsInv /\ QueueInv /\ WorkerInv

LEMMA InitIInv == Init => IInv
BY DEF Init, IInv, TypeOK, CallsInv, QueueInv, WorkerInv, CallerPoints, Over

-----------------------------------------------------------------------------
(* The GUI thread *)

LEMMA TopCall ==
  ASSUME TypeOK, stack # <<>>
  PROVE  /\ Len(stack) \in Nat \ {0} /\ Top \in Calls
         /\ SubSeq(stack, 1, Len(stack) - 1) \in Seq(Calls)
<1>1. stack \in Seq(Calls) /\ Len(stack) \in Nat \ {0}
  BY EmptySeq DEF TypeOK
<1>2. \A i \in 1 .. Len(stack) : stack[i] \in Calls
  BY <1>1
<1>3. SubSeq(stack, 1, Len(stack) - 1) \in Seq(Calls)
  BY <1>1, <1>2, SubSeqProperties
<1> QED BY <1>1, <1>2, <1>3 DEF Top

\* where a call moves on without ending, or ends after it has been notified
LEMMA CallerMoves ==
  ASSUME IInv, NEW c \in Calls, NEW to \in CallerPoints \ {"unused"},
         caller[c] # "unused", to \in Over => notified[c],
         caller' = [caller EXCEPT ![c] = to],
         stack' \in Seq(Calls), accepts' \subseteq Calls,
         UNCHANGED sharedVars, UNCHANGED workerVars
  PROVE  IInv'
<1> USE DEF IInv, sharedVars, workerVars
<1>1. TypeOK'
  BY DEF TypeOK
<1>2. \A d \in Calls : caller'[d] = IF d = c THEN to ELSE caller[d]
  BY DEF TypeOK
<1>3. CallsInv'
  BY <1>2 DEF CallsInv
<1>4. QueueInv'
  <2>1. \A i \in 1 .. Len(queue) : queue[i] \in Calls
    BY DEF TypeOK
  <2> QED BY <1>2, <2>1 DEF QueueInv, Posted
<1>5. WorkerInv'
  BY <1>2 DEF WorkerInv, TypeOK
<1> QED BY <1>1, <1>3, <1>4, <1>5

LEMMA BeginInv ==
  ASSUME IInv, NEW c \in Calls, Begin(c)
  PROVE  IInv'
<1> USE DEF IInv
<1>1. /\ caller[c] = "unused" /\ stack' = Append(stack, c)
      /\ caller' = [caller EXCEPT ![c] = "posted"] /\ queue' = Append(queue, c)
      /\ UNCHANGED <<accepts, worker, progress>> /\ UNCHANGED sharedVars
  BY DEF Begin
<1>2. \A d \in Calls : caller'[d] = IF d = c THEN "posted" ELSE caller[d]
  BY <1>1 DEF TypeOK
<1>3. /\ queue \in Seq(Calls) /\ queue' \in Seq(Calls) /\ stack' \in Seq(Calls)
      /\ Len(queue) \in Nat /\ Len(queue') = Len(queue) + 1
      /\ \A i \in 1 .. Len(queue) : queue'[i] = queue[i] /\ queue[i] \in Calls
      /\ queue'[Len(queue) + 1] = c
  BY <1>1, AppendProperties DEF TypeOK
<1>4. TypeOK'
  BY <1>1, <1>3 DEF TypeOK, sharedVars, CallerPoints
<1>5. CallsInv'
  BY <1>1, <1>2 DEF CallsInv, sharedVars, Over
<1>6. Posted(c)'
  BY <1>1, <1>2 DEF CallsInv, WorkerInv, Posted, sharedVars, Over
<1>7. \A i \in 1 .. Len(queue) : queue[i] # c /\ Posted(queue[i])'
  BY <1>1, <1>2, <1>3 DEF QueueInv, Posted, sharedVars
<1>8. QueueInv'
  <2>1. \A i \in 1 .. Len(queue') : i \in 1 .. Len(queue) \/ i = Len(queue) + 1
    BY <1>3
  <2>2. \A i \in 1 .. Len(queue') : Posted(queue[i])'
    BY <1>1, <1>3, <1>6, <1>7, <2>1 DEF Posted, sharedVars
  <2>3. ASSUME NEW i \in 1 .. Len(queue'), NEW j \in 1 .. Len(queue'),
               queue'[i] = queue'[j]
        PROVE  i = j
    BY <1>3, <1>7, <2>1, <2>3 DEF QueueInv
  <2> QED BY <2>2, <2>3 DEF QueueInv
<1>9. WorkerInv'
  BY <1>1, <1>2 DEF WorkerInv, TypeOK, sharedVars
<1> QED BY <1>4, <1>5, <1>8, <1>9

LEMMA GuiInv ==
  ASSUME IInv, Gui \/ Cancel
  PROVE  IInv'
<1> USE DEF IInv
<1>1. ASSUME NEW c \in Calls, Accept(c)
      PROVE  IInv'
  <2>1. /\ caller[c] = "exec" /\ caller' = [caller EXCEPT ![c] = "accepted"]
        /\ stack' = stack /\ accepts' \subseteq accepts
        /\ UNCHANGED sharedVars /\ UNCHANGED workerVars
    BY <1>1 DEF Accept
  <2> QED BY <2>1, CallerMoves DEF TypeOK, CallerPoints, Over
<1>2. ASSUME NEW from, NEW to \in {"connected", "wait", "exec", "blocked"},
             from \in CallerPoints \ {"unused"}, GuiGoto(from, to),
             stack' = stack, accepts' \subseteq accepts,
             UNCHANGED sharedVars, UNCHANGED workerVars
      PROVE  IInv'
  <2>1. stack # <<>> /\ caller[Top] = from /\ caller' = [caller EXCEPT ![Top] = to]
    BY <1>2 DEF GuiGoto
  <2> QED BY <1>2, <2>1, TopCall, CallerMoves DEF TypeOK, CallerPoints, Over
<1>3. CASE Connect
  BY <1>2, <1>3 DEF Connect, CallerPoints
<1>4. CASE CheckEnded
  <2> DEFINE to == IF hasEnded[Top] THEN "wait" ELSE "exec"
  <2>1. to \in {"wait", "exec"} /\ GuiGoto("connected", to)
    BY <1>4 DEF CheckEnded
  <2> HIDE DEF to
  <2> QED BY <1>2, <1>4, <2>1 DEF CheckEnded, CallerPoints
<1>5. CASE LeaveDialog
  BY <1>2, <1>5 DEF LeaveDialog, CallerPoints
<1>6. ASSUME NEW from \in {"wait", "blocked"}, Deliver(from), UNCHANGED accepts,
             UNCHANGED sharedVars, UNCHANGED workerVars
      PROVE  IInv'
  <2> DEFINE to == IF result[Top] = "value" THEN "returned" ELSE "thrown"
  <2>1. /\ stack # <<>> /\ caller[Top] = from /\ notified[Top]
        /\ caller' = [caller EXCEPT ![Top] = to]
        /\ stack' = SubSeq(stack, 1, Len(stack) - 1)
    BY <1>6 DEF Deliver, GuiGoto
  <2>2. to \in CallerPoints \ {"unused"}
    BY DEF CallerPoints
  <2> HIDE DEF to
  <2> QED BY <1>6, <2>1, <2>2, TopCall, CallerMoves DEF TypeOK
<1>7. CASE WaitForResult \/ WakeUp
  BY <1>2, <1>6, <1>7 DEF WaitForResult, WakeUp, CallerPoints
<1>8. CASE Cancel
  <2>1. /\ stack # <<>> /\ canceled' = [canceled EXCEPT ![Top] = TRUE]
        /\ UNCHANGED <<stack, caller, accepts, refs, hasEnded, notified, result>>
        /\ UNCHANGED <<queue, worker, progress>>
    BY <1>8 DEF Cancel, guiVars, workerVars
  <2>2. TypeOK'
    BY <2>1 DEF TypeOK
  <2> QED BY <2>1, <2>2 DEF CallsInv, QueueInv, Posted, WorkerInv
<1> QED BY <1>1, <1>3, <1>4, <1>5, <1>7, <1>8 DEF Gui

-----------------------------------------------------------------------------
(* The worker thread *)

LEMMA TakeInv ==
  ASSUME IInv, Take
  PROVE  IInv'
<1> USE DEF IInv
<1> DEFINE c == Head(queue)
<1>1. /\ worker = Idle /\ queue # <<>> /\ queue' = Tail(queue)
      /\ worker' = [at |-> "work", call |-> c, out |-> "value"]
      /\ refs' = [refs EXCEPT ![c] = @ + 1] /\ progress' = 0
      /\ UNCHANGED <<hasEnded, canceled, notified, result, stack, caller, accepts>>
  BY DEF Take, guiVars
<1>2. /\ queue \in Seq(Calls) /\ Len(queue) \in Nat \ {0}
      /\ c \in Calls /\ c = queue[1] /\ queue' \in Seq(Calls)
      /\ Len(queue') = Len(queue) - 1
      /\ \A i \in 1 .. Len(queue') : queue'[i] = queue[i + 1]
  BY <1>1, EmptySeq, HeadTailProperties DEF TypeOK
<1>3. Posted(c)
  BY <1>2 DEF QueueInv
<1> HIDE DEF c
<1>4. /\ worker' # Idle /\ worker'.at = "work" /\ worker'.call = c
      /\ worker'.out = "value"
  BY <1>1 DEF Idle
<1>5. \A d \in Calls : refs'[d] = IF d = c THEN refs[c] + 1 ELSE refs[d]
  BY <1>1 DEF TypeOK
<1>6. TypeOK'
  BY <1>1, <1>2, <1>3 DEF TypeOK, Posted, WorkerPoints, Outcomes
<1>7. CallsInv' /\ WorkerInv'
  BY <1>1, <1>3, <1>4, <1>5, <1>2 DEF CallsInv, WorkerInv, Posted
<1>8. QueueInv'
  <2>1. ASSUME NEW i \in 1 .. Len(queue')
        PROVE  /\ i + 1 \in 1 .. Len(queue) /\ queue'[i] = queue[i + 1]
               /\ queue[i + 1] # c /\ queue[i + 1] \in Calls
    BY <1>2 DEF QueueInv
  <2>2. ASSUME NEW i \in 1 .. Len(queue')
        PROVE  Posted(queue[i])'
    <3>1. Posted(queue[i + 1])
      BY <2>1 DEF QueueInv
    <3> QED BY <1>1, <1>4, <1>5, <2>1, <3>1 DEF Posted
  <2>3. ASSUME NEW i \in 1 .. Len(queue'), NEW j \in 1 .. Len(queue'),
               queue'[i] = queue'[j]
        PROVE  i = j
    <3>1. i + 1 = j + 1
      BY <2>1, <2>3 DEF QueueInv
    <3> QED BY <1>2, <3>1
  <2> QED BY <2>2, <2>3 DEF QueueInv
<1> QED BY <1>6, <1>7, <1>8

\* the worker is busy with a call
LEMMA BusyWith ==
  ASSUME TypeOK, worker # Idle
  PROVE  /\ worker \in [at : WorkerPoints, call : Calls, out : Outcomes]
         /\ worker.call \in Calls /\ worker.out \in Outcomes
BY DEF TypeOK

\* what the worker does to the call it is busy with disturbs no other
LEMMA WorkerMoves ==
  ASSUME IInv, worker # Idle, UNCHANGED <<stack, caller, queue, canceled>>,
         TypeOK', WorkerInv', worker' = Idle \/ worker'.call = worker.call,
         \A c \in Calls \ {worker.call} : refs'[c] = refs[c]
                                       /\ notified'[c] = notified[c],
         notified[worker.call] => notified'[worker.call]
  PROVE  IInv'
<1> USE DEF IInv
<1>1. caller[worker.call] # "unused"
  BY DEF WorkerInv
<1>2. CallsInv'
  BY <1>1, BusyWith DEF CallsInv
<1>3. QueueInv'
  <2>1. \A i \in 1 .. Len(queue) : queue[i] \in Calls /\ queue[i] # worker.call
    BY DEF QueueInv, Posted, TypeOK
  <2> QED BY <2>1 DEF QueueInv, Posted
<1> QED BY <1>2, <1>3

LEMMA WorkerStepInv ==
  ASSUME IInv, Worker
  PROVE  IInv'
<1> USE DEF IInv
<1> SUFFICES ASSUME ~ Take, worker # Idle PROVE IInv'
  BY TakeInv DEF Worker, Take, Progress, Complete, DropInterface, SetEnded,
     EmitEnded, Store, Notify, Busy
<1> DEFINE c == worker.call
<1>1. /\ worker \in [at : WorkerPoints, call : Calls, out : Outcomes]
      /\ c \in Calls /\ worker.out \in Outcomes
  BY BusyWith
<1>2. \A at \in WorkerPoints, out \in Outcomes :
        LET w == [worker EXCEPT !.at = at, !.out = out]
        IN  w # Idle /\ w.at = at /\ w.call = c /\ w.out = out
            /\ w \in [at : WorkerPoints, call : Calls, out : Outcomes]
  BY <1>1 DEF Idle, WorkerPoints
<1>3. \A at \in WorkerPoints :
        LET w == [worker EXCEPT !.at = at]
        IN  w # Idle /\ w.at = at /\ w.call = c /\ w.out = worker.out
            /\ w \in [at : WorkerPoints, call : Calls, out : Outcomes]
  BY <1>1 DEF Idle, WorkerPoints
<1>4. /\ refs \in [Calls -> 1 .. 3] /\ notified \in [Calls -> BOOLEAN]
      /\ result \in [Calls -> Outcomes \cup {NoOutcome}]
  BY DEF TypeOK
<1> HIDE DEF c
<1>5. CASE Progress
  <2>1. /\ worker.at = "work" /\ progress < MaxProgress /\ progress' = progress + 1
        /\ UNCHANGED <<queue, hasEnded, canceled, notified, result>>
        /\ UNCHANGED <<stack, caller, accepts>>
    BY <1>5 DEF Progress, Busy, guiVars
  <2>2. CASE canceled[c]
    <3>1. /\ worker' = [worker EXCEPT !.at = Finish(c), !.out = "canceled"]
          /\ refs' = refs
      BY <1>5, <2>2 DEF Progress, c
    <3>2. /\ Finish(c) = (IF c \in TempCalls THEN "drop" ELSE "store")
          /\ Finish(c) \in WorkerPoints /\ "canceled" \in Outcomes
      BY DEF Finish, EndsFirst, WorkerPoints, Outcomes
    <3>3. /\ worker' # Idle /\ worker'.at = Finish(c) /\ worker'.call = c
          /\ worker' \in [at : WorkerPoints, call : Calls, out : Outcomes]
      BY <1>2, <3>1, <3>2
    <3>4. TypeOK'
      BY <2>1, <3>1, <3>3 DEF TypeOK
    <3>5. WorkerInv'
      BY <2>1, <3>1, <3>2, <3>3 DEF WorkerInv, c
    <3> QED BY <2>1, <3>1, <3>3, <3>4, <3>5, WorkerMoves DEF c
  <2>3. CASE ~ canceled[c]
    <3>1. /\ worker' = [worker EXCEPT !.at = "nested"]
          /\ refs' = [refs EXCEPT ![c] = @ + 1]
      BY <1>5, <2>3 DEF Progress, Goto, c
    <3>2. /\ worker' # Idle /\ worker'.at = "nested" /\ worker'.call = c
          /\ worker' \in [at : WorkerPoints, call : Calls, out : Outcomes]
      BY <1>3, <3>1 DEF WorkerPoints
    <3>3. /\ refs[c] = 2 /\ refs' \in [Calls -> 1 .. 3] /\ refs'[c] = 3
          /\ \A d \in Calls \ {c} : refs'[d] = refs[d]
      BY <1>1, <1>4, <2>1, <3>1 DEF WorkerInv, c
    <3>4. TypeOK'
      BY <2>1, <3>2, <3>3 DEF TypeOK
    <3>5. WorkerInv'
      BY <2>1, <3>2, <3>3 DEF WorkerInv, c
    <3> QED BY <2>1, <3>2, <3>3, <3>4, <3>5, WorkerMoves DEF c
  <2> QED BY <2>2, <2>3
<1>6. CASE \E o \in Outcomes : Complete(o)
  <2>1. PICK o \in Outcomes :
          worker' = [worker EXCEPT !.at = Finish(c), !.out = o]
    BY <1>6 DEF Complete, c
  <2>2. /\ worker.at = "work" /\ UNCHANGED <<queue, progress, stack, caller, accepts>>
        /\ UNCHANGED <<refs, hasEnded, canceled, notified, result>>
    BY <1>6 DEF Complete, Busy, guiVars, sharedVars
  <2>3. /\ Finish(c) = (IF c \in TempCalls THEN "drop" ELSE "store")
        /\ Finish(c) \in WorkerPoints
    BY DEF Finish, EndsFirst, WorkerPoints
  <2>4. /\ worker' # Idle /\ worker'.at = Finish(c) /\ worker'.call = c
        /\ worker' \in [at : WorkerPoints, call : Calls, out : Outcomes]
    BY <1>2, <2>1, <2>3
  <2>5. TypeOK'
    BY <2>2, <2>4 DEF TypeOK
  <2>6. WorkerInv'
    BY <2>2, <2>3, <2>4 DEF WorkerInv, c
  <2> QED BY <2>2, <2>4, <2>5, <2>6, WorkerMoves DEF c
<1>7. CASE DropInterface
  <2>1. /\ worker.at \in {"nested", "drop"} /\ refs' = [refs EXCEPT ![c] = @ - 1]
        /\ worker' = [worker EXCEPT !.at = IF refs'[c] = 1 THEN "ended" ELSE "work"]
        /\ UNCHANGED <<queue, progress, stack, caller, accepts>>
        /\ UNCHANGED <<hasEnded, canceled, notified, result>>
    BY <1>7 DEF DropInterface, Goto, guiVars, c
  <2>2. /\ refs[c] = IF worker.at = "nested" THEN 3 ELSE 2
        /\ refs' \in [Calls -> 1 .. 3] /\ refs'[c] = refs[c] - 1
        /\ \A d \in Calls \ {c} : refs'[d] = refs[d]
    BY <1>1, <1>4, <2>1 DEF WorkerInv, c
  <2>3. /\ worker' # Idle /\ worker'.call = c
        /\ worker'.at = IF worker.at = "nested" THEN "work" ELSE "ended"
        /\ worker' \in [at : WorkerPoints, call : Calls, out : Outcomes]
    BY <1>3, <2>1, <2>2 DEF WorkerPoints
  <2>4. TypeOK'
    BY <2>1, <2>2, <2>3 DEF TypeOK
  <2>5. WorkerInv'
    BY <2>1, <2>2, <2>3 DEF WorkerInv, c
  <2> QED BY <2>1, <2>2, <2>3, <2>4, <2>5, WorkerMoves DEF c
<1>8. CASE SetEnded
  <2>1. /\ worker.at = "ended" /\ hasEnded' = [hasEnded EXCEPT ![c] = TRUE]
        /\ worker' = [worker EXCEPT !.at = "emit"]
        /\ UNCHANGED <<queue, progress, refs, canceled, notified, result>>
        /\ UNCHANGED <<stack, caller, accepts>>
    BY <1>8 DEF SetEnded, Busy, Goto, guiVars, c
  <2>2. /\ worker' # Idle /\ worker'.call = c /\ worker'.at = "emit"
        /\ worker' \in [at : WorkerPoints, call : Calls, out : Outcomes]
    BY <1>3, <2>1 DEF WorkerPoints
  <2>3. TypeOK'
    BY <2>1, <2>2 DEF TypeOK
  <2>4. WorkerInv'
    BY <2>1, <2>2 DEF WorkerInv, c
  <2> QED BY <2>1, <2>2, <2>3, <2>4, WorkerMoves DEF c
<1>9. CASE EmitEnded
  <2>1. /\ worker.at = "emit" /\ accepts' \subseteq accepts \cup {c}
        /\ worker' = IF c \in TempCalls THEN [worker EXCEPT !.at = "store"] ELSE Idle
        /\ UNCHANGED <<stack, caller, queue, progress>>
        /\ UNCHANGED <<refs, hasEnded, canceled, notified, result>>
    BY <1>9 DEF EmitEnded, Busy, Goto, EndsFirst, sharedVars, c
  <2>2. \/ worker' = Idle
        \/ /\ worker' # Idle /\ worker'.call = c /\ worker'.at = "store"
           /\ c \in TempCalls
           /\ worker' \in [at : WorkerPoints, call : Calls, out : Outcomes]
    BY <1>3, <2>1 DEF WorkerPoints
  <2>3. TypeOK'
    BY <1>1, <2>1, <2>2 DEF TypeOK
  <2>4. WorkerInv'
    BY <2>1, <2>2 DEF WorkerInv, c
  <2> QED BY <2>1, <2>2, <2>3, <2>4, WorkerMoves DEF c
<1>10. CASE Store
  <2>1. /\ worker.at = "store" /\ result' = [result EXCEPT ![c] = worker.out]
        /\ worker' = [worker EXCEPT !.at = "notify"]
        /\ UNCHANGED <<queue, progress, refs, hasEnded, canceled, notified>>
        /\ UNCHANGED <<stack, caller, accepts>>
    BY <1>10 DEF Store, Busy, Goto, guiVars, c
  <2>2. /\ worker' # Idle /\ worker'.call = c /\ worker'.at = "notify"
        /\ worker'.out = worker.out
        /\ worker' \in [at : WorkerPoints, call : Calls, out : Outcomes]
    BY <1>3, <2>1 DEF WorkerPoints
  <2>3. result'[c] = worker.out /\ result' \in [Calls -> Outcomes \cup {NoOutcome}]
    BY <1>1, <1>4, <2>1
  <2>4. TypeOK'
    BY <2>1, <2>2, <2>3 DEF TypeOK
  <2>5. WorkerInv'
    BY <2>1, <2>2, <2>3 DEF WorkerInv, c
  <2> QED BY <2>1, <2>2, <2>4, <2>5, WorkerMoves DEF c
<1>11. CASE Notify
  <2>1. /\ worker.at = "notify" /\ notified' = [notified EXCEPT ![c] = TRUE]
        /\ worker' = IF c \in TempCalls THEN Idle ELSE [worker EXCEPT !.at = "drop"]
        /\ UNCHANGED <<queue, progress, refs, hasEnded, canceled, result>>
        /\ UNCHANGED <<stack, caller, accepts>>
    BY <1>11 DEF Notify, Busy, Goto, EndsFirst, guiVars, c
  <2>2. \/ worker' = Idle
        \/ /\ worker' # Idle /\ worker'.call = c /\ worker'.at = "drop"
           /\ c \notin TempCalls
           /\ worker' \in [at : WorkerPoints, call : Calls, out : Outcomes]
    BY <1>3, <2>1 DEF WorkerPoints
  <2>3. /\ notified' \in [Calls -> BOOLEAN] /\ notified'[c]
        /\ \A d \in Calls \ {c} : notified'[d] = notified[d]
    BY <1>1, <1>4, <2>1
  <2>4. TypeOK'
    BY <2>1, <2>2, <2>3 DEF TypeOK
  <2>5. WorkerInv'
    BY <2>1, <2>2, <2>3 DEF WorkerInv, c
  <2> QED BY <2>1, <2>2, <2>3, <2>4, <2>5, WorkerMoves DEF c
<1> QED BY <1>5, <1>6, <1>7, <1>8, <1>9, <1>10, <1>11 DEF Worker

LEMMA StepIInv == IInv /\ [Next]_vars => IInv'
<1> SUFFICES ASSUME IInv, [Next]_vars PROVE IInv'
  OBVIOUS
<1>1. CASE UNCHANGED vars
  BY <1>1 DEF vars, IInv, TypeOK, CallsInv, QueueInv, Posted, WorkerInv
<1> QED BY <1>1, GuiInv, WorkerStepInv, BeginInv DEF Next

-----------------------------------------------------------------------------
(* What follows for the calls *)

\* The variables of the worker, the GUI thread and the calls keep their
\* types; no monitor has more references than the slot and one suboperation
\* give it besides its own (OperationMonitorInterface).
THEOREM CallsTypeCorrect == Spec => []TypeOK
<1>1. IInv => TypeOK
  BY DEF IInv
<1> QED BY <1>1, InitIInv, StepIInv, PTL DEF Spec

\* However calls are nested, canceled and delayed, the worker uses a Returner
\* only as long as its frame exists, and so a monitor whose interface is a
\* temporary (worker.txt).
THEOREM StackOutlives == Spec => []StackOutlivesUse
<1>1. IInv => StackOutlivesUse
  <2> SUFFICES ASSUME IInv, worker # Idle,
                      \/ worker.at \in UsesReturner
                      \/ worker.at \in UsesMonitor /\ worker.call \in TempCalls
               PROVE  Alive(worker.call)
    BY DEF StackOutlivesUse
  <2>1. worker.call \in Calls
    BY BusyWith DEF IInv
  <2>2. ~ notified[worker.call] /\ caller[worker.call] # "unused"
    BY DEF IInv, WorkerInv, UsesReturner
  <2> QED BY <2>1, <2>2 DEF IInv, CallsInv, Alive
<1> QED BY <1>1, InitIInv, StepIInv, PTL DEF Spec

phaseOf == [c \in Calls |->
              IF caller[c] \in Over \cup {"unused"} THEN caller[c]
              ELSE IF notified[c] THEN "finished" ELSE "running"]
outcomeOf == [c \in Calls |-> IF notified[c] THEN result[c] ELSE NoOutcome]

\* a call that goes on, without ending, looks the same
LEMMA SamePhase ==
  ASSUME IInv, NEW c \in Calls, NEW to, to \notin Over \cup {"unused"},
         caller[c] \notin Over \cup {"unused"},
         caller' = [caller EXCEPT ![c] = to], UNCHANGED <<notified, result>>
  PROVE  UNCHANGED <<phaseOf, outcomeOf>>
<1>1. \A d \in Calls : caller'[d] = IF d = c THEN to ELSE caller[d]
  BY DEF IInv, TypeOK
<1> QED BY <1>1 DEF phaseOf, outcomeOf

LEMMA GuiPhase ==
  ASSUME IInv, Gui \/ Cancel
  PROVE  UNCHANGED <<phaseOf, outcomeOf>> \/ \E c \in Calls :
           /\ phaseOf[c] = "finished" /\ outcomeOf' = outcomeOf
           /\ phaseOf' = [phaseOf EXCEPT ![c] = IF outcomeOf[c] = "value"
                                                THEN "returned" ELSE "thrown"]
<1>1. ASSUME NEW c \in Calls, Accept(c)
      PROVE  UNCHANGED <<phaseOf, outcomeOf>>
  BY <1>1, SamePhase DEF Accept, sharedVars, Over
<1>2. ASSUME NEW from, NEW to \in {"connected", "wait", "exec", "blocked"},
             from \notin Over \cup {"unused"}, GuiGoto(from, to),
             UNCHANGED sharedVars
      PROVE  UNCHANGED <<phaseOf, outcomeOf>>
  BY <1>2, TopCall, SamePhase DEF IInv, GuiGoto, sharedVars, Over
<1>3. CASE Connect \/ LeaveDialog
  BY <1>2, <1>3 DEF Connect, LeaveDialog, Over
<1>4. CASE CheckEnded
  <2> DEFINE to == IF hasEnded[Top] THEN "wait" ELSE "exec"
  <2>1. to \in {"wait", "exec"} /\ GuiGoto("connected", to)
    BY <1>4 DEF CheckEnded
  <2> HIDE DEF to
  <2> QED BY <1>2, <1>4, <2>1 DEF CheckEnded, Over
<1>5. ASSUME NEW from \in {"wait", "blocked"}, Deliver(from), UNCHANGED sharedVars
      PROVE  \E c \in Calls :
           /\ phaseOf[c] = "finished" /\ outcomeOf' = outcomeOf
           /\ phaseOf' = [phaseOf EXCEPT ![c] = IF outcomeOf[c] = "value"
                                                THEN "returned" ELSE "thrown"]
  <2> DEFINE to == IF result[Top] = "value" THEN "returned" ELSE "thrown"
  <2>1. /\ stack # <<>> /\ caller[Top] = from /\ notified[Top]
        /\ caller' = [caller EXCEPT ![Top] = to]
        /\ UNCHANGED <<notified, result>>
    BY <1>5 DEF Deliver, GuiGoto, sharedVars
  <2>2. Top \in Calls
    BY <2>1, TopCall DEF IInv
  <2>3. phaseOf[Top] = "finished" /\ outcomeOf' = outcomeOf
    BY <2>1, <2>2 DEF phaseOf, outcomeOf, Over
  <2>4. to = IF outcomeOf[Top] = "value" THEN "returned" ELSE "thrown"
    BY <2>1, <2>2 DEF outcomeOf
  <2>5. to \in Over
    BY DEF Over
  <2> HIDE DEF to
  <2>6. \A d \in Calls : caller'[d] = IF d = Top THEN to ELSE caller[d]
    BY <2>1, <2>2 DEF IInv, TypeOK
  <2>7. phaseOf' = [phaseOf EXCEPT ![Top] = to]
    <3> DEFINE top == Top
    <3> HIDE DEF top
    <3>1. top \in Calls /\ \A d \in Calls : caller'[d] = IF d = top THEN to ELSE caller[d]
      BY <2>2, <2>6 DEF top
    <3>2. phaseOf' = [d \in Calls |-> IF d = top THEN to ELSE phaseOf[d]]
      BY <2>1, <2>5, <3>1 DEF phaseOf
    <3>3. phaseOf' = [phaseOf EXCEPT ![top] = to]
      BY <3>1, <3>2 DEF phaseOf
    <3> QED BY <3>3 DEF top
  <2> QED BY <2>2, <2>3, <2>4, <2>7
<1>6. CASE WaitForResult \/ WakeUp
  BY <1>2, <1>5, <1>6 DEF WaitForResult, WakeUp, Over
<1>7. CASE Cancel
  BY <1>7 DEF Cancel, phaseOf, outcomeOf, guiVars
<1> QED BY <1>1, <1>3, <1>4, <1>6, <1>7 DEF Gui

LEMMA WorkerPhase ==
  ASSUME IInv, Worker
  PROVE  UNCHANGED <<phaseOf, outcomeOf>> \/ \E c \in Calls, o \in Outcomes :
           /\ phaseOf[c] = "running"
           /\ phaseOf' = [phaseOf EXCEPT ![c] = "finished"]
           /\ outcomeOf' = [outcomeOf EXCEPT ![c] = o]
<1> DEFINE c == worker.call
<1>1. CASE \/ Take \/ Progress \/ DropInterface \/ SetEnded \/ EmitEnded
           \/ \E o \in Outcomes : Complete(o)
  <2>1. UNCHANGED <<caller, notified, result>>
    BY <1>1 DEF Take, Progress, DropInterface, SetEnded, EmitEnded, Complete,
                guiVars, sharedVars
  <2> QED BY <2>1 DEF phaseOf, outcomeOf
<1>2. CASE Store
  <2>1. /\ worker # Idle /\ worker.at = "store" /\ UNCHANGED <<caller, notified>>
        /\ result' = [result EXCEPT ![c] = worker.out]
    BY <1>2 DEF Store, Busy, guiVars
  <2>2. c \in Calls /\ ~ notified[c]
    BY <2>1, BusyWith DEF IInv, WorkerInv
  <2> HIDE DEF c
  <2>3. \A d \in Calls : notified[d] => result'[d] = result[d]
    BY <2>1, <2>2 DEF IInv, TypeOK
  <2> QED BY <2>1, <2>3 DEF phaseOf, outcomeOf
<1>3. CASE Notify
  <2>1. /\ worker # Idle /\ worker.at = "notify" /\ UNCHANGED <<caller, result>>
        /\ notified' = [notified EXCEPT ![c] = TRUE]
    BY <1>3 DEF Notify, Busy, guiVars
  <2>2. /\ c \in Calls /\ ~ notified[c] /\ caller[c] # "unused"
        /\ result[c] = worker.out /\ worker.out \in Outcomes
    BY <2>1, BusyWith DEF IInv, WorkerInv
  <2> HIDE DEF c
  <2>3. \A d \in Calls : notified'[d] = IF d = c THEN TRUE ELSE notified[d]
    BY <2>1, <2>2 DEF IInv, TypeOK
  <2>4. caller[c] \notin Over \cup {"unused"}
    BY <2>2 DEF IInv, CallsInv
  <2>5. phaseOf[c] = "running" /\ phaseOf' = [phaseOf EXCEPT ![c] = "finished"]
    BY <2>1, <2>2, <2>3, <2>4 DEF phaseOf
  <2>6. outcomeOf' = [outcomeOf EXCEPT ![c] = worker.out]
    BY <2>1, <2>2, <2>3 DEF outcomeOf
  <2> QED BY <2>2, <2>5, <2>6
<1> QED BY <1>1, <1>2, <1>3 DEF Worker

\* Seen from its caller each call is carried out once, and what it returns or
\* throws is the outcome of that (Returner.h 91-115): the machinery of both
\* threads implements BlockingCall.
THEOREM CallsAreBlocking == Spec => ImplementsBlockingCall
<1> DEFINE phase == [c \in Calls |->
              IF caller[c] \in Over \cup {"unused"} THEN caller[c]
              ELSE IF notified[c] THEN "finished" ELSE "running"]
           outcome == [c \in Calls |-> IF notified[c] THEN result[c] ELSE NoOutcome]
<1>1. Init => Promise!Init
  BY DEF Init, Promise!Init
<1>2. IInv /\ [Next]_vars => [Promise!Next]_(Promise!vars)
  <2> SUFFICES ASSUME IInv, [Next]_vars
               PROVE  [Promise!Next]_(Promise!vars)
    OBVIOUS
  <2>1. phase = phaseOf /\ outcome = outcomeOf
    BY DEF phaseOf, outcomeOf
  <2>2. CASE UNCHANGED <<phaseOf, outcomeOf>>
    BY <2>1, <2>2 DEF Promise!vars, phaseOf, outcomeOf
  <2>3. ASSUME NEW c \in Calls, Begin(c)
        PROVE  Promise!Next
    <3>1. /\ caller[c] = "unused" /\ caller' = [caller EXCEPT ![c] = "posted"]
          /\ UNCHANGED <<notified, result>> /\ ~ notified[c]
      BY <2>3 DEF Begin, sharedVars, IInv, CallsInv
    <3>2. \A d \in Calls : caller'[d] = IF d = c THEN "posted" ELSE caller[d]
      BY <3>1 DEF IInv, TypeOK
    <3>3. phase[c] = "unused" /\ outcome' = outcome
      BY <3>1
    <3>4. phase' = [d \in Calls |-> IF d = c THEN "running" ELSE phase[d]]
      BY <3>1, <3>2 DEF Over
    <3>5. phase' = [phase EXCEPT ![c] = "running"]
      BY <3>4
    <3> QED BY <3>3, <3>5 DEF Promise!Next, Promise!Call
  <2>4. ASSUME NEW c \in Calls, phaseOf[c] = "finished", outcomeOf' = outcomeOf,
               phaseOf' = [phaseOf EXCEPT ![c] = IF outcomeOf[c] = "value"
                                                 THEN "returned" ELSE "thrown"]
        PROVE  Promise!Next
    BY <2>4 DEF Promise!Next, Promise!Return, phaseOf, outcomeOf
  <2>5. ASSUME NEW c \in Calls, NEW o \in Outcomes, phaseOf[c] = "running",
               phaseOf' = [phaseOf EXCEPT ![c] = "finished"],
               outcomeOf' = [outcomeOf EXCEPT ![c] = o]
        PROVE  Promise!Next
    BY <2>5 DEF Promise!Next, Promise!Finish, phaseOf, outcomeOf
  <2>6. CASE UNCHANGED vars
    BY <2>2, <2>6 DEF vars, phaseOf, outcomeOf
  <2> QED BY <2>2, <2>3, <2>4, <2>5, <2>6, GuiPhase, WorkerPhase DEF Next
<1> QED BY <1>1, <1>2, InitIInv, StepIInv, PTL
        DEF Spec, ImplementsBlockingCall, Promise!Spec
=============================================================================
