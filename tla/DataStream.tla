----------------------------- MODULE DataStream -----------------------------
(***************************************************************************)
(* A data stream (src/src/io/dataStream/DataStream.cpp) with its back-end: *)
(* a serial port, a TCP socket or a file (SerialDataStream.cpp,            *)
(* TcpDataStream.cpp, FileDataStream.cpp).                                 *)
(*                                                                         *)
(* The stream lives in the thread of its BackgroundDataStream.  The GUI    *)
(* thread asks it to open, close or apply new parameters by queued calls   *)
(* and hears of it by queued signals.  The parameters themselves are set   *)
(* by the GUI thread directly, under a mutex, at any time.                 *)
(***************************************************************************)
EXTENDS Naturals, Sequences

CONSTANTS
  Kinds,      \* the types of streams in use
  Targets,    \* what a stream can be opened for: port, host or file
  NoStream,   \* no stream, or nothing opened yet
  MaxOutages  \* bound on the number of times a target stops answering

ASSUME StreamAssumption ==
  /\ Kinds \subseteq {"serial", "tcp", "file"}
  /\ NoStream \notin {"serial", "tcp", "file"} \cup Targets
  /\ MaxOutages \in Nat

VARIABLES
  kind,        \* the type of the current stream, or NoStream
  target,      \* _portName; _host, _port; _fileName
  stream,      \* DataStream::_state
  device,      \* the back-end; "stuck" when its thread waits for itself
  active,      \* the target the back-end was last opened for
  requests,    \* calls queued for the stream's thread
  signals,     \* signals queued for the GUI thread
  answering,   \* the targets that exist and answer
  outages      \* outages so far

streamVars == <<kind, target, stream, device, active, requests, signals,
                answering, outages>>

States   == {"closed", "opening", "open"}
Requests == {"open", "close", "apply"}
Signals  == States \cup {"data", "available"}

StreamTypeOK ==
  /\ kind \in Kinds \cup {NoStream} /\ target \in Targets
  /\ stream \in States
  /\ device \in {"closed", "connecting", "open", "stuck"}
  /\ active \in Targets \cup {NoStream}
  /\ requests \in Seq(Requests) /\ signals \in Seq(Signals)
  /\ answering \subseteq Targets /\ outages \in 0 .. MaxOutages

Queued(s, queue) == \E i \in DOMAIN queue : queue[i] = s

-----------------------------------------------------------------------------
(* The back-ends: openStream and streamParametersCurrent *)

\* the stream is opening and then in state s; sent are the signals before that
Report(sent, s, d) ==
  /\ stream' = s /\ device' = d
  /\ signals' = signals \o sent \o
       (IF s = "opening" THEN <<"opening">> ELSE <<"opening", s>>)

\* A port answers at once.  If it is in use, QSerialPort::open says so by a
\* signal, whose slot port_errorOccurred locks _backEndMutex: openStream holds
\* it, so the thread waits for itself.
OpenPort(sent) == IF target \in answering
                  THEN Report(sent, "open", "open") \/ Report(sent, "opening", "stuck")
                  ELSE Report(sent, "closed", "closed")

\* the answer of the other side comes later
OpenSocket(sent) == Report(sent, "opening", "connecting")

OpenFile(sent) == IF target \in answering THEN Report(sent, "open", "open")
                                          ELSE Report(sent, "closed", "closed")

OpenStream(sent) == /\ active' = target
                    /\ \/ kind = "serial" /\ OpenPort(sent)
                       \/ kind = "tcp"    /\ OpenSocket(sent)
                       \/ kind = "file"   /\ OpenFile(sent)

PortIsCurrent   == device # "closed" /\ active = target
\* peerPort () is 0 unless the socket is connected
SocketIsCurrent == device = "open" /\ active = target
\* sic: if (_file->isOpen ()) return false
FileIsCurrent   == device = "closed" /\ active = target

StreamParametersCurrent == \/ kind = "serial" /\ PortIsCurrent
                           \/ kind = "tcp"    /\ SocketIsCurrent
                           \/ kind = "file"   /\ FileIsCurrent

-----------------------------------------------------------------------------
(* The slots of DataStream, in its thread *)

Unchanged == UNCHANGED <<stream, device, active, signals>>

Open == IF stream = "closed" THEN OpenStream(<<>>) ELSE Unchanged

Close == IF stream # "closed"
         THEN /\ stream' = "closed" /\ device' = "closed"
              /\ signals' = Append(signals, "closed")
              /\ UNCHANGED active
         ELSE Unchanged

\* (mutated: nothing is done unless the stream is open)
ApplyToOpen == IF StreamParametersCurrent \/ stream # "open" THEN Unchanged
               ELSE OpenStream(<<"closed">>)

\* close () and open () unless the stream is closed already
ApplyParameters ==
  IF StreamParametersCurrent THEN Unchanged
  ELSE IF stream = "closed"
  THEN /\ signals' = Append(signals, "available")
       /\ UNCHANGED <<stream, device, active>>
  ELSE OpenStream(<<"closed">>)

Running == kind # NoStream /\ device # "stuck"

HandleRequest ==
  /\ Running /\ requests # <<>>
  /\ \/ Head(requests) = "open"  /\ Open
     \/ Head(requests) = "close" /\ Close
     \/ Head(requests) = "apply" /\ ApplyParameters
  /\ requests' = Tail(requests)
  /\ UNCHANGED <<kind, target, answering, outages>>

StreamOpened == /\ stream' = IF stream = "opening" THEN "open" ELSE stream
                /\ signals' = IF stream = "opening" THEN Append(signals, "open")
                                                    ELSE signals

StreamError  == /\ stream' = "closed"
                /\ signals' = IF stream # "closed" THEN Append(signals, "closed")
                                                   ELSE signals

-----------------------------------------------------------------------------
(* What the back-ends notice, in the same thread *)

Unaffected == UNCHANGED <<kind, target, active, requests, answering, outages>>

SocketStateChanged ==
  /\ kind = "tcp" /\ device = "connecting" /\ active \in answering
  /\ device' = "open"
  /\ StreamOpened /\ Unaffected

\* A connection that cannot be made or is lost leaves the socket unconnected, and
\* that is all: socket_error is connected to error (SocketError), a signal that
\* QAbstractSocket does not have in Qt 6, and socket_stateChanged waits for
\* ConnectedState only.
SocketDisconnected ==
  /\ kind = "tcp" /\ device \in {"connecting", "open"} /\ active \notin answering
  /\ device' = "closed"
  /\ UNCHANGED <<stream, signals>> /\ Unaffected

PortErrorOccurred ==
  /\ kind = "serial" /\ device = "open" /\ active \notin answering
  /\ device' = "closed"
  /\ StreamError /\ Unaffected

\* Bound: one chunk of data is on its way at a time.
SendData == /\ device = "open" /\ ~ Queued("data", signals)
            /\ signals' = Append(signals, "data")
            /\ UNCHANGED <<stream, device>> /\ Unaffected

SocketDataReceived == kind = "tcp" /\ active \in answering /\ SendData

PortDataReceived == /\ kind = "serial" /\ active \in answering
                    /\ stream = "open"       \* streamDataReceived
                    /\ SendData

EndOfFile == /\ kind = "file" /\ device = "open"
             /\ device' = "closed"
             /\ StreamError /\ Unaffected

FileTimer == EndOfFile \/ (kind = "file" /\ SendData)

\* SerialDataStream::timer_timeout; its test of the name fails for a port with
\* capital letters, so nothing relies on it
PortTimer ==
  /\ kind = "serial" /\ device = "closed" /\ requests = <<>>
  /\ target \in answering
  /\ ~ Queued("available", signals)
  /\ signals' = Append(signals, "available")
  /\ UNCHANGED <<stream, device>> /\ Unaffected

-----------------------------------------------------------------------------
(* The world outside *)

Outage == /\ outages < MaxOutages
          /\ outages' = outages + 1
          /\ \E t \in answering : answering' = answering \ {t}
          /\ UNCHANGED <<kind, target, stream, device, active, requests, signals>>

Return == /\ \E t \in Targets \ answering : answering' = answering \cup {t}
          /\ UNCHANGED <<kind, target, stream, device, active, requests, signals,
                         outages>>

StreamThread == HandleRequest \/ SocketStateChanged \/ SocketDisconnected
                \/ PortErrorOccurred \/ EndOfFile
Noticed == SocketDataReceived \/ PortDataReceived \/ FileTimer \/ PortTimer
=============================================================================
