---------------------------- MODULE PcClient_proofs ----------------------------
(***************************************************************************)
(* Proofs about the PC's network client, for any number of HTTP tasks,     *)
(* connections and segments.                                               *)
(***************************************************************************)
EXTENDS PcClient, SequenceFacts, TLAPS

(* The segments, whatever the callers do. *)

\* What is on the wire was spoken before what is being sent, and that before
\* what waits in the buffer.
StreamInv ==
    /\ InOrder(wire) /\ InOrder(audio) /\ InOrder(buffer)
    /\ Before(wire, audio) /\ Before(wire, buffer) /\ Before(audio, buffer)

\* Every segment that was spoken is in one place.
AccountInv ==
    /\ 1..(nextSegment - 1) = Range(buffer) \cup counted
    /\ Range(buffer) \cap counted = {}
    /\ counted = Range(wire) \cup Range(audio) \cup lost
    /\ (Range(wire) \cup Range(audio)) \cap lost = {}

(* The callers.  Main is in the client while it starts and while it stops. *)
Connecting == {"socket", "connect", "flag", "spawn"}
Disconnecting == {"disconnect", "close", "join", "joining", "late", "unflag"}

CallerInv ==
    /\ \A c \in Conn : c > made => link[c] = "free"
    /\ phase \in {"up", "done"} => op["main"] = "idle"
    /\ phase = "starting" => op["main"] \in Connecting \cup {"ok", "failed"}
    /\ phase = "stopping" => op["main"] \in Disconnecting \cup {"ok"}

(* What holds as long as no two callers were in the client at once. *)

\* There is no connection, and no thread.
Down == sockNow = None /\ receiver = "none" /\ ~running

\* The socket was connected to the phone.
Linked == LinkIs(sockNow, {"up", "lost"})

\* Where nobody changes the members, they belong together.
AtRest ==
    /\ connected => Linked /\ receiver \in {"loop", "recv"}
    /\ receiver # "none" => running
    /\ receiver = "recv" => rxSock = sockNow

\* What caller p finds at each statement.
Finds(p) ==
    /\ op[p] # "late"
    /\ op[p] = "close" => ~running
    /\ op[p] \in {"join", "joining"} => ~running /\ sockNow = None
    /\ op[p] = "unflag" => Down
    /\ op[p] \in {"socket", "failed"} => Down /\ ~connected
    /\ op[p] = "connect" =>
          LinkIs(sockNow, {"connecting"}) /\ receiver = "none" /\ ~running /\ ~connected
    /\ op[p] = "flag" => Linked /\ receiver = "none" /\ ~running /\ ~connected
    /\ op[p] = "spawn" => Linked /\ receiver = "none" /\ running
    /\ op[p] = "ok" /\ phase = "stopping" => Down /\ ~connected

\* A connection was lost or given up.
Broken == \E c \in Conn : link[c] \in {"lost", "closed"}

\* A segment is given to a connection that is up, unless one was broken.
Sendable == connected \/ audio # <<>> => LinkIs(sockNow, {"up"}) \/ Broken

AloneInv ==
    /\ \A p, q \in Callers : op[p] # "idle" /\ op[q] # "idle" => p = q
    /\ \A p \in Callers : Finds(p)
    /\ (\A p \in Callers : op[p] \in {"idle", "disconnect", "ok", "failed"}) => AtRest
    /\ (\A p \in Callers : op[p] \in {"idle", "disconnect"})
          => (connected => phoneConnected /\ callbackSet)
    /\ reconnecting => \E p \in Tasks : op[p] # "idle"
    /\ \A c \in Conn \ {sockNow} : link[c] \in {"free", "closed"}
    /\ Sendable
    /\ lost # {} => Broken
    /\ ~crashed

ClientInv ==
    /\ TypeOK /\ StreamInv /\ AccountInv /\ CallerInv
    /\ ~overlapped => AloneInv

-----------------------------------------------------------------------------
LEMMA InitInv == Init => ClientInv
<1> SUFFICES ASSUME Init PROVE ClientInv
  OBVIOUS
<1> USE ClientAssumption DEF Init, Callers, None
<1>1. TypeOK
  <2>1. <<>> \in Seq(Segment)
    OBVIOUS
  <2>2. op \in [Callers -> OpPc]
    BY DEF OpPc
  <2>3. nextSegment \in 1..(MaxSegments + 1) /\ made \in 0..MaxConns
    OBVIOUS
  <2> QED
    BY <2>1, <2>2, <2>3 DEF TypeOK
<1>2. StreamInv /\ AccountInv
  BY DEF StreamInv, AccountInv, InOrder, Before, Range
<1>3. CallerInv
  BY DEF CallerInv, Connecting
<1>4. AloneInv
  BY DEF AloneInv, Finds, AtRest, Down, Sendable, Broken
<1> QED
  BY <1>1, <1>2, <1>3, <1>4 DEF ClientInv

\* What a statement of caller p leaves alone; while nobody overlaps, the others
\* are idle.
LEMMA StepFacts ==
    ASSUME op \in [Callers -> OpPc], NEW p \in Callers, NEW from, NEW to \in OpPc,
           Step(p, from, to)
    PROVE  /\ ~crashed /\ op[p] = from
           /\ op' \in [Callers -> OpPc]
           /\ op'[p] = to /\ \A q \in Callers \ {p} : op'[q] = op[q]
           /\ overlapped' \in BOOLEAN
           /\ overlapped => overlapped'
           /\ ~overlapped' => \A q \in Callers \ {p} : op[q] = "idle"
           /\ UNCHANGED <<nextSegment, buffer, audio, counted, wire, lost>>
<1>1. /\ ~crashed /\ op[p] = from /\ op' = [op EXCEPT ![p] = to]
      /\ overlapped' = (overlapped \/ \E q \in Callers \ {p} : op[q] # "idle")
      /\ UNCHANGED audioVars
  BY DEF Step
<1>2. op' \in [Callers -> OpPc] /\ op'[p] = to /\ \A q \in Callers \ {p} : op'[q] = op[q]
  BY <1>1
<1>3. /\ overlapped' \in BOOLEAN
      /\ overlapped => overlapped'
      /\ ~overlapped' => \A q \in Callers \ {p} : op[q] = "idle"
  BY <1>1, Zenon
<1> QED
  BY <1>1, <1>2, <1>3 DEF audioVars

(* The values of the members, and where main is. *)
LEMMA CallerType ==
    ASSUME TypeOK, CallerInv, NEW p \in Callers, Caller(p) \/ Reconnect(p)
    PROVE  TypeOK' /\ CallerInv'
<1> USE ClientAssumption
    DEF TypeOK, CallerInv, OpPc, Conn, None, Callers, Step, NoStatus, netVars, flags, rxVars,
        statusVars, audioVars
<1>1. CASE Disconnect(p)
  <2>1. TypeOK'
    BY <1>1 DEF Disconnect, AfterDisconnect
  <2>2. CallerInv'
    BY <1>1 DEF Disconnect, AfterDisconnect, Connecting, Disconnecting
  <2> QED
    BY <2>1, <2>2
<1>2. CASE CloseSocket(p)
  BY <1>2 DEF CloseSocket, CloseMember, Connecting, Disconnecting
<1>3. CASE JoinReceiver(p)
  BY <1>3 DEF JoinReceiver, Connecting, Disconnecting
<1>4. CASE JoinedReceiver(p)
  BY <1>4 DEF JoinedReceiver, Connecting, Disconnecting
<1>5. CASE JoinLate(p)
  <2>1. CASE Step(p, "late", "unflag")
    BY <1>5, <2>1 DEF JoinLate, Connecting, Disconnecting
  <2>2. CASE p # "main" /\ Step(p, "late", "idle")
    BY <1>5, <2>2 DEF JoinLate, Connecting, Disconnecting
  <2> QED
    BY <1>5, <2>1, <2>2 DEF JoinLate
<1>6. CASE Unflag(p)
  <2>1. Step(p, "unflag", AfterDisconnect(p)) /\ AfterDisconnect(p) \in OpPc
    BY <1>6 DEF Unflag, AfterDisconnect
  <2>2. op' \in [Callers -> OpPc] /\ overlapped' \in BOOLEAN /\ UNCHANGED audioVars
    BY <2>1, StepFacts
  <2>3. /\ p # "main" => op'["main"] = op["main"]
        /\ p = "main" => op["main"] = "unflag" /\ op'["main"] = "ok"
    BY <2>1, StepFacts DEF AfterDisconnect
  <2>4. /\ connected' \in BOOLEAN /\ phoneConnected' \in BOOLEAN
        /\ UNCHANGED <<netVars, running, rxVars, callbackSet, reconnecting, phase, crashed>>
    BY <1>6 DEF Unflag
  <2> HIDE DEF Step
  <2>5. TypeOK'
    BY <2>2, <2>4
  <2>6. p = "main" => phase = "stopping"
    BY <2>3 DEF Connecting
  <2>7. CallerInv'
    BY <2>3, <2>4, <2>6 DEF Connecting, Disconnecting
  <2> QED
    BY <2>5, <2>7
<1>7. CASE MakeSocket(p)
  <2>1. TypeOK'
    BY <1>7 DEF MakeSocket
  <2>2. CallerInv'
    BY <1>7 DEF MakeSocket, Connecting, Disconnecting
  <2> QED
    BY <2>1, <2>2
<1>8. CASE NoSocket(p)
  BY <1>8 DEF NoSocket, Connecting, Disconnecting
<1>9. CASE ConnectOk(p)
  BY <1>9 DEF ConnectOk, LinkIs, Connecting, Disconnecting
<1>10. CASE ConnectFails(p)
  BY <1>10 DEF ConnectFails, CloseMember, Connecting, Disconnecting
<1>11. CASE SetFlags(p)
  BY <1>11 DEF SetFlags, Connecting, Disconnecting
<1>12. CASE SpawnReceiver(p)
  BY <1>12 DEF SpawnReceiver, Connecting, Disconnecting
<1>13. CASE TaskDone(p)
  <2>1. \E from \in {"ok", "failed"} : Step(p, from, "idle")
    BY <1>13 DEF TaskDone
  <2>2. op' \in [Callers -> OpPc] /\ overlapped' \in BOOLEAN /\ UNCHANGED audioVars
    BY <2>1, StepFacts
  <2>3. op'["main"] = op["main"]
    BY <1>13, <2>1, StepFacts DEF TaskDone
  <2>4. callbackSet' \in BOOLEAN /\ phoneConnected' \in BOOLEAN /\ reconnecting' \in BOOLEAN
    BY <1>13 DEF TaskDone
  <2>5. UNCHANGED <<netVars, flags, rxVars, phase, crashed>>
    BY <1>13 DEF TaskDone
  <2> HIDE DEF Step
  <2> QED
    BY <2>2, <2>3, <2>4, <2>5
<1>14. CASE Reconnect(p)
  BY <1>14 DEF Reconnect, Connecting, Disconnecting
<1> QED
  BY <1>1, <1>2, <1>3, <1>4, <1>5, <1>6, <1>7, <1>8, <1>9, <1>10, <1>11, <1>12,
     <1>13, <1>14 DEF Caller

LEMMA MainType ==
    ASSUME TypeOK, CallerInv, MainConnected \/ MainStops \/ MainStopped
    PROVE  TypeOK' /\ CallerInv'
<1> USE ClientAssumption
    DEF TypeOK, CallerInv, OpPc, Conn, None, Callers, netVars, flags, rxVars,
        statusVars, audioVars
<1>0. "main" \in Callers
  OBVIOUS
<1>1. CASE MainConnected
  <2>1. op' \in [Callers -> OpPc] /\ op'["main"] = "idle" /\ overlapped' \in BOOLEAN
    BY <1>0, <1>1, StepFacts DEF MainConnected
  <2>2. callbackSet' \in BOOLEAN /\ phoneConnected' \in BOOLEAN /\ phase' = "up"
    BY <1>1 DEF MainConnected
  <2>3. UNCHANGED <<netVars, flags, rxVars, audioVars, reconnecting, crashed>>
    BY <1>1 DEF MainConnected, Step
  <2> QED
    BY <2>1, <2>2, <2>3
<1>2. CASE MainStops
  <2>1. op' \in [Callers -> OpPc] /\ op'["main"] = "disconnect" /\ overlapped' \in BOOLEAN
    BY <1>0, <1>2, StepFacts DEF MainStops
  <2>2. phase' = "stopping"
    BY <1>2 DEF MainStops
  <2>3. UNCHANGED <<netVars, flags, rxVars, audioVars, statusVars, crashed>>
    BY <1>2 DEF MainStops, Step
  <2> QED
    BY <2>1, <2>2, <2>3 DEF Disconnecting
<1>3. CASE MainStopped
  <2>1. op' \in [Callers -> OpPc] /\ op'["main"] = "idle" /\ overlapped' \in BOOLEAN
    BY <1>0, <1>3, StepFacts DEF MainStopped
  <2>2. phoneConnected' \in BOOLEAN /\ phase' = "done"
    BY <1>3 DEF MainStopped
  <2>3. UNCHANGED <<netVars, flags, rxVars, audioVars, callbackSet, reconnecting, crashed>>
    BY <1>3 DEF MainStopped, Step
  <2> QED
    BY <2>1, <2>2, <2>3
<1> QED
  BY <1>1, <1>2, <1>3

LEMMA ThreadType ==
    ASSUME TypeOK, CallerInv, Receiver \/ ConnectionLost \/ UNCHANGED vars
    PROVE  TypeOK' /\ CallerInv'
<1> USE ClientAssumption
    DEF TypeOK, CallerInv, OpPc, Conn, None, Callers, netVars, flags, rxVars,
        statusVars, audioVars, RxFrame
<1>1. CASE RxLoop
  BY <1>1 DEF RxLoop
<1>2. CASE RxText
  BY <1>2 DEF RxText
<1>3. CASE RxEnd
  <2>1. connected' \in BOOLEAN /\ receiver' = "finished" /\ rxSock' = None
    BY <1>3 DEF RxEnd
  <2>2. RxFrame
    BY <1>3 DEF RxEnd
  <2> QED
    BY <2>1, <2>2
<1>4. CASE ConnectionLost
  BY <1>4 DEF ConnectionLost, LinkIs
<1>5. CASE UNCHANGED vars
  BY <1>5 DEF vars
<1> QED
  BY <1>1, <1>2, <1>3, <1>4, <1>5 DEF Receiver

(* The segments. *)

-----------------------------------------------------------------------------
(* What the audio thread does to the segments. *)
LEMMA SpeakInv ==
    ASSUME TypeOK, StreamInv, AccountInv, Speak
    PROVE  TypeOK' /\ StreamInv' /\ AccountInv'
<1> USE ClientAssumption
<1> DEFINE merged == Append(buffer, nextSegment)
<1>1. /\ audio = <<>> /\ nextSegment <= MaxSegments
      /\ nextSegment' = nextSegment + 1 /\ UNCHANGED wire
      /\ \/ buffer' = merged /\ UNCHANGED <<audio, counted, lost>>
         \/ /\ buffer' = <<>> /\ counted' = counted \cup Range(merged)
            /\ \/ lost' = lost \cup Range(merged) /\ UNCHANGED audio
               \/ audio' = merged /\ UNCHANGED lost
  BY DEF Speak, Kept, Cleared
<1>2. /\ buffer \in Seq(Segment) /\ wire \in Seq(Segment) /\ nextSegment \in Segment
      /\ counted \subseteq Segment /\ lost \subseteq Segment
      /\ nextSegment \in Nat /\ nextSegment >= 1
  BY <1>1 DEF TypeOK, Segment
<1>3. /\ merged \in Seq(Segment) /\ <<>> \in Seq(Segment)
      /\ Len(merged) = Len(buffer) + 1 /\ Len(buffer) \in Nat
      /\ \A i \in 1..Len(buffer) : merged[i] = buffer[i]
      /\ merged[Len(buffer) + 1] = nextSegment
  BY <1>2
<1>4. Range(merged) = Range(buffer) \cup {nextSegment}
  BY <1>2, AppendFacts
<1>5. Range(<<>>) = {}
  BY EmptyFacts
<1>6. \A e \in Range(buffer) \cup Range(wire) : e < nextSegment /\ e \in Nat
  <2>1. Range(buffer) \cup Range(wire) \subseteq 1..(nextSegment - 1)
    BY DEF AccountInv
  <2> QED
    BY <2>1, <1>2
<1>7. /\ \A i \in 1..Len(buffer) : buffer[i] \in Range(buffer)
      /\ \A i \in 1..Len(wire) : wire[i] \in Range(wire)
  BY <1>2 DEF Range
<1>8. InOrder(merged) /\ Before(wire, merged)
  <2>1. InOrder(buffer) /\ Before(wire, buffer)
    BY DEF StreamInv
  <2>2. InOrder(merged)
    BY <2>1, <1>2, <1>6, AppendInOrder DEF Segment
  <2>3. \A j \in 1..Len(merged) : j \in 1..Len(buffer) \/ j = Len(buffer) + 1
    BY <1>3
  <2>4. Before(wire, merged)
    BY <2>1, <2>3, <1>3, <1>6, <1>7 DEF Before
  <2> QED
    BY <2>2, <2>4
<1>9. InOrder(<<>>) /\ Before(wire, <<>>) /\ \A s : Before(<<>>, s) /\ Before(s, <<>>)
  BY EmptyFacts
<1> HIDE DEF merged
<1>10. StreamInv'
  BY <1>1, <1>8, <1>9 DEF StreamInv
<1>11. AccountInv'
  <2>1. 1..(nextSegment' - 1) = 1..(nextSegment - 1) \cup {nextSegment}
    BY <1>1, <1>2
  <2>2. nextSegment \notin counted /\ nextSegment \notin Range(wire) /\ nextSegment \notin lost
    BY <1>2 DEF AccountInv
  <2>3. audio = <<>> /\ Range(audio) = {}
    BY <1>1, <1>5
  <2>4. CASE buffer' = merged /\ UNCHANGED <<audio, counted, lost>>
    BY <2>1, <2>2, <2>4, <1>1, <1>4 DEF AccountInv
  <2>5. ASSUME buffer' = <<>>, counted' = counted \cup Range(merged),
               lost' = lost \cup Range(merged), UNCHANGED audio
        PROVE  AccountInv'
    BY <2>1, <2>2, <2>3, <2>5, <1>1, <1>4, <1>5 DEF AccountInv
  <2>6. ASSUME buffer' = <<>>, counted' = counted \cup Range(merged),
               audio' = merged, UNCHANGED lost
        PROVE  AccountInv'
    BY <2>1, <2>2, <2>3, <2>6, <1>1, <1>4, <1>5 DEF AccountInv
  <2> QED
    BY <1>1, <2>4, <2>5, <2>6
<1>12. TypeOK'
  <2>1. Range(merged) \subseteq Segment
    BY <1>3, RangeFacts
  <2>2. /\ nextSegment' \in 1..(MaxSegments + 1) /\ buffer' \in Seq(Segment)
        /\ counted' \in SUBSET Segment /\ lost' \in SUBSET Segment
        /\ audio' \in Seq(Segment) /\ wire' \in Seq(Segment)
    <3>1. nextSegment' \in 1..(MaxSegments + 1)
      BY <1>1, <1>2
    <3>2. buffer' \in Seq(Segment) /\ audio' \in Seq(Segment) /\ wire' \in Seq(Segment)
      BY <1>1, <1>2, <1>3
    <3>3. counted' \subseteq Segment /\ lost' \subseteq Segment
      BY <1>1, <1>2, <2>1
    <3> QED
      BY <3>1, <3>2, <3>3
  <2>3. AudioFrame
    BY DEF Speak
  <2> QED
    BY <2>2, <2>3
       DEF TypeOK, AudioFrame, netVars, flags, rxVars, statusVars
<1> QED
  BY <1>10, <1>11, <1>12

LEMMA SendBytesInv ==
    ASSUME TypeOK, StreamInv, AccountInv, SendBytes
    PROVE  TypeOK' /\ StreamInv' /\ AccountInv'
<1> USE ClientAssumption
<1>1. /\ audio # <<>> /\ audio' = <<>> /\ UNCHANGED <<nextSegment, buffer, counted>>
      /\ \/ wire' = wire \o audio /\ UNCHANGED lost
         \/ lost' = lost \cup Range(audio) /\ UNCHANGED wire
  BY DEF SendBytes
<1>2. /\ wire \in Seq(Segment) /\ audio \in Seq(Segment) /\ buffer \in Seq(Segment)
      /\ <<>> \in Seq(Segment) /\ lost \subseteq Segment
  BY DEF TypeOK
<1>3. wire \o audio \in Seq(Segment) /\ Range(wire \o audio) = Range(wire) \cup Range(audio)
  BY <1>2, ConcatProperties, ConcatRange
<1>4. Range(<<>>) = {}
  BY EmptyFacts
<1>5. StreamInv'
  <2>1. wire \in Seq(Nat) /\ audio \in Seq(Nat) /\ buffer \in Seq(Nat)
    BY <1>2, SeqMonotonic DEF Segment
  <2>2. InOrder(wire \o audio) /\ Before(wire \o audio, buffer)
    BY <2>1, ConcatInOrder DEF StreamInv
  <2>3. InOrder(<<>>) /\ \A s : Before(<<>>, s) /\ Before(s, <<>>)
    BY EmptyFacts
  <2> QED
    BY <2>2, <2>3, <1>1 DEF StreamInv
<1>6. AccountInv'
  <2>1. \A e : ~(e \in Range(wire) /\ e \in Range(audio))
    <3>1. Before(wire, audio)
      BY DEF StreamInv
    <3>2. \A i \in 1..Len(wire) : wire[i] \in Nat
      BY <1>2 DEF Segment
    <3> QED
      BY <3>1, <3>2, <1>2, RangeFacts DEF Before
  <2>2. CASE wire' = wire \o audio /\ UNCHANGED lost
    BY <2>2, <1>1, <1>3, <1>4 DEF AccountInv
  <2>3. CASE lost' = lost \cup Range(audio) /\ UNCHANGED wire
    BY <2>1, <2>3, <1>1, <1>4 DEF AccountInv
  <2> QED
    BY <2>2, <2>3, <1>1
<1>7. TypeOK'
  <2>1. Range(audio) \subseteq Segment
    BY <1>2, RangeFacts
  <2>2. /\ wire' \in Seq(Segment) /\ audio' \in Seq(Segment) /\ lost' \in SUBSET Segment
    BY <2>1, <1>1, <1>2, <1>3
  <2>3. AudioFrame
    BY DEF SendBytes
  <2> QED
    BY <2>2, <2>3, <1>1
       DEF TypeOK, AudioFrame, netVars, flags, rxVars, statusVars
<1> QED
  BY <1>5, <1>6, <1>7


-----------------------------------------------------------------------------
(* The callers, as long as they do not overlap. *)

LEMMA OnlyCaller ==
    ASSUME AloneInv, op \in [Callers -> OpPc], NEW p \in Callers, op[p] # "idle"
    PROVE  \A q \in Callers \ {p} : op[q] = "idle"
BY DEF AloneInv

\* It is enough to look at the caller that takes the step.
LEMMA AloneStep ==
    ASSUME NEW p \in Callers,
           \A q \in Callers \ {p} : op'[q] = "idle",
           Finds(p)',
           op'[p] \in {"idle", "disconnect", "ok", "failed"} => AtRest',
           op'[p] \in {"idle", "disconnect"}
               => (connected' => phoneConnected' /\ callbackSet'),
           reconnecting' => p \in Tasks /\ op'[p] # "idle",
           \A c \in Conn \ {sockNow'} : link'[c] \in {"free", "closed"},
           Sendable', lost' # {} => Broken', ~crashed'
    PROVE  AloneInv'
<1>1. \A q \in Callers : Finds(q)'
  BY DEF Finds
<1>2. \A q, r \in Callers : op'[q] # "idle" /\ op'[r] # "idle" => q = r
  OBVIOUS
<1>3. reconnecting' => \E q \in Tasks : op'[q] # "idle"
  OBVIOUS
<1> QED
  BY <1>1, <1>2, <1>3 DEF AloneInv

\* The parts of the invariant that a step on other members leaves alone.
LEMMA AloneFrame ==
    ASSUME AloneInv, UNCHANGED <<link, sockNow, connected, audio, lost, crashed>>
    PROVE  /\ \A c \in Conn \ {sockNow'} : link'[c] \in {"free", "closed"}
           /\ Sendable' /\ (lost' # {} => Broken') /\ ~crashed'
BY DEF AloneInv, Sendable, Broken, LinkIs

LEMMA CallerAlone ==
    ASSUME TypeOK, CallerInv, AloneInv, ~overlapped', NEW p \in Callers,
           Caller(p) \/ Reconnect(p)
    PROVE  AloneInv'
<1> USE ClientAssumption
<1>0. /\ op \in [Callers -> OpPc] /\ Finds(p) /\ "main" \notin Tasks
      /\ \A c \in Conn \ {sockNow} : link[c] \in {"free", "closed"}
      /\ Sendable /\ (lost # {} => Broken) /\ ~crashed
      /\ link \in [Conn -> {"free", "connecting", "up", "lost", "closed"}]
      /\ sockNow \in Conn \cup {None} /\ made \in 0..MaxConns
      /\ sockNow # None => link[sockNow] \in {"connecting", "up", "lost"}
  BY DEF TypeOK, AloneInv
<1>1. ASSUME NEW from, NEW to \in OpPc, Step(p, from, to)
      PROVE  /\ op[p] = from /\ op'[p] = to
             /\ \A q \in Callers \ {p} : op[q] = "idle" /\ op'[q] = "idle"
             /\ UNCHANGED <<audio, lost>>
  BY <1>0, <1>1, StepFacts
<1>2. ASSUME \A q \in Callers \ {p} : op[q] = "idle"
      PROVE  /\ op[p] \in {"idle", "disconnect", "ok", "failed"} => AtRest
             /\ op[p] \in {"idle", "disconnect"}
                   => (connected => phoneConnected /\ callbackSet)
             /\ reconnecting => p \in Tasks /\ op[p] # "idle"
  BY <1>2 DEF AloneInv, Callers
<1>3. CASE Disconnect(p)
  <2> DEFINE to == IF Nothing THEN AfterDisconnect(p) ELSE "close"
  <2>1. /\ Step(p, "disconnect", to) /\ to \in OpPc
        /\ running' = FALSE /\ phoneConnected' = (phoneConnected /\ ~Nothing)
        /\ UNCHANGED <<netVars, connected, rxVars, callbackSet, reconnecting, phase, crashed>>
    BY <1>3 DEF Disconnect, OpPc, AfterDisconnect
  <2>2. /\ op[p] = "disconnect" /\ op'[p] = to
        /\ \A q \in Callers \ {p} : op[q] = "idle" /\ op'[q] = "idle"
        /\ UNCHANGED <<audio, lost>>
    BY <2>1, <1>1
  <2>3. AtRest /\ (reconnecting => p \in Tasks)
    BY <2>2, <1>2
  <2>4. /\ \A c \in Conn \ {sockNow'} : link'[c] \in {"free", "closed"}
        /\ Sendable' /\ (lost' # {} => Broken') /\ ~crashed'
    BY <2>1, <2>2, AloneFrame DEF netVars
  <2>5. Nothing => Down /\ ~connected
    BY <2>3 DEF Nothing, Down, AtRest
  <2>6. Finds(p)'
    BY <2>1, <2>2, <2>5 DEF Finds, Down, AfterDisconnect, netVars, rxVars
  <2>7. to \in {"idle", "disconnect", "ok", "failed"} => AtRest'
    BY <2>1, <2>5 DEF AtRest, Down, AfterDisconnect, netVars, rxVars
  <2>8. to # "idle" /\ to # "disconnect"
    BY DEF AfterDisconnect
  <2> HIDE DEF to
  <2> QED
    BY <2>1, <2>2, <2>3, <2>4, <2>6, <2>7, <2>8, AloneStep
<1>4. CASE CloseSocket(p)
  <2>1. /\ Step(p, "close", "join") /\ CloseMember
        /\ UNCHANGED <<made, flags, rxVars, statusVars, phase, crashed>>
    BY <1>4 DEF CloseSocket, NoStatus
  <2>2. /\ op[p] = "close" /\ op'[p] = "join"
        /\ \A q \in Callers \ {p} : op[q] = "idle" /\ op'[q] = "idle"
        /\ UNCHANGED <<audio, lost>>
    BY <2>1, <1>1 DEF OpPc
  <2>3. sockNow' = None /\ ~running'
    BY <2>1, <2>2, <1>0 DEF CloseMember, Finds, flags
  <2>4. reconnecting' => p \in Tasks
    BY <2>1, <2>2, <1>2 DEF statusVars
  <2>5. \A c \in Conn : link'[c] \in {"free", "closed"}
    <3>1. CASE sockNow = None
      BY <2>1, <3>1, <1>0 DEF CloseMember, Conn, None
    <3>2. CASE sockNow # None
      <4>1. link' = [link EXCEPT ![sockNow] = "closed"] /\ sockNow \in Conn
        BY <2>1, <3>2, <1>0 DEF CloseMember
      <4> QED
        BY <4>1, <1>0
    <3> QED
      BY <3>1, <3>2
  <2>6. Broken \/ LinkIs(sockNow, {"up"}) => Broken'
    BY <2>1, <1>0 DEF Broken, LinkIs, CloseMember, Conn
  <2>7. Sendable' /\ (lost' # {} => Broken')
    BY <2>1, <2>2, <2>6, <1>0 DEF Sendable, flags
  <2>8. Finds(p)' /\ ~crashed'
    BY <2>1, <2>2, <2>3, <1>0 DEF Finds
  <2> QED
    BY <2>2, <2>4, <2>5, <2>7, <2>8, AloneStep
<1>5. CASE JoinReceiver(p)
  <2>1. /\ Step(p, "join", (IF receiver = "none" THEN "unflag" ELSE "joining")) /\ (IF receiver = "none" THEN "unflag" ELSE "joining") \in OpPc
        /\ UNCHANGED <<netVars, flags, rxVars, statusVars, phase, crashed>>
    BY <1>5 DEF JoinReceiver, NoStatus, OpPc
  <2>2. /\ op[p] = "join" /\ op'[p] = (IF receiver = "none" THEN "unflag" ELSE "joining")
        /\ \A q \in Callers \ {p} : op[q] = "idle" /\ op'[q] = "idle"
        /\ UNCHANGED <<audio, lost>>
    BY <2>1, <1>1
  <2>3. reconnecting' => p \in Tasks
    BY <2>1, <2>2, <1>2 DEF statusVars
  <2>4. /\ \A c \in Conn \ {sockNow'} : link'[c] \in {"free", "closed"}
        /\ Sendable' /\ (lost' # {} => Broken') /\ ~crashed'
    BY <2>1, <2>2, AloneFrame DEF netVars, flags
  <2>5. Finds(p)'
    BY <2>1, <2>2, <1>0 DEF Finds, Down, netVars, flags, rxVars
  <2> QED
    BY <2>2, <2>3, <2>4, <2>5, AloneStep
<1>6. CASE JoinedReceiver(p)
  <2>1. /\ op[p] = "joining" /\ receiver' = "none"
        /\ op' = [q \in Callers |-> IF q = p THEN "unflag"
                                    ELSE IF op[q] = "joining" THEN "late" ELSE op[q]]
        /\ UNCHANGED <<netVars, flags, audioVars, crashed, statusVars, phase>>
    BY <1>6 DEF JoinedReceiver, NoStatus
  <2>2. \A q \in Callers \ {p} : op[q] = "idle"
    BY <2>1, <1>0, OnlyCaller
  <2>3. op'[p] = "unflag" /\ \A q \in Callers \ {p} : op'[q] = "idle"
    BY <2>1, <2>2
  <2>4. reconnecting' => p \in Tasks
    BY <2>1, <2>2, <1>2 DEF statusVars
  <2>5. /\ \A c \in Conn \ {sockNow'} : link'[c] \in {"free", "closed"}
        /\ Sendable' /\ (lost' # {} => Broken') /\ ~crashed'
    BY <2>1, AloneFrame DEF netVars, flags, audioVars
  <2>6. Finds(p)'
    BY <2>1, <2>3, <1>0 DEF Finds, Down, netVars, flags
  <2> QED
    BY <2>3, <2>4, <2>5, <2>6, AloneStep
<1>7. CASE JoinLate(p)
  <2>1. op[p] = "late"
    BY <1>7 DEF JoinLate, Step
  <2> QED
    BY <2>1, <1>0 DEF Finds
<1>8. CASE Unflag(p)
  <2>1. /\ Step(p, "unflag", AfterDisconnect(p)) /\ AfterDisconnect(p) \in OpPc
        /\ ~connected' /\ ~phoneConnected'
        /\ UNCHANGED <<netVars, running, rxVars, callbackSet, reconnecting, phase, crashed>>
    BY <1>8 DEF Unflag, OpPc, AfterDisconnect
  <2>2. /\ op[p] = "unflag" /\ op'[p] = AfterDisconnect(p)
        /\ \A q \in Callers \ {p} : op[q] = "idle" /\ op'[q] = "idle"
        /\ UNCHANGED <<audio, lost>>
    BY <2>1, <1>1
  <2>3. reconnecting' => p \in Tasks
    BY <2>1, <2>2, <1>2
  <2>4. Down'
    BY <2>1, <2>2, <1>0 DEF Finds, Down, netVars, rxVars
  <2>5. Finds(p)' /\ AtRest'
    BY <2>1, <2>2, <2>4 DEF Finds, Down, AtRest, AfterDisconnect
  <2>6. UNCHANGED <<sockNow, link>>
    BY <2>1 DEF netVars
  <2>7. \A c \in Conn \ {sockNow'} : link'[c] \in {"free", "closed"}
    BY <2>6, <1>0
  <2>8. Sendable' /\ (lost' # {} => Broken') /\ ~crashed'
    BY <2>1, <2>2, <2>6, <1>0 DEF Sendable, Broken, LinkIs
  <2> QED
    BY <2>1, <2>2, <2>3, <2>5, <2>7, <2>8, AloneStep DEF AfterDisconnect
<1>9. CASE MakeSocket(p)
  <2>1. /\ Step(p, "socket", "connect") /\ made < MaxConns
        /\ sockNow' = made + 1 /\ link' = [link EXCEPT ![made + 1] = "connecting"]
        /\ UNCHANGED <<flags, rxVars, statusVars, phase, crashed>>
    BY <1>9 DEF MakeSocket, NoStatus
  <2>2. /\ op[p] = "socket" /\ op'[p] = "connect"
        /\ \A q \in Callers \ {p} : op[q] = "idle" /\ op'[q] = "idle"
        /\ UNCHANGED <<audio, lost>>
    BY <2>1, <1>1 DEF OpPc
  <2>3. reconnecting' => p \in Tasks
    BY <2>1, <2>2, <1>2 DEF statusVars
  <2>4. Down /\ ~connected
    BY <2>2, <1>0 DEF Finds
  <2>5. made + 1 \in Conn /\ link[made + 1] = "free" /\ sockNow' # None
    BY <2>1, <1>0 DEF CallerInv, Conn, None
  <2>6. Finds(p)' /\ ~crashed'
    BY <2>1, <2>2, <2>4, <2>5, <1>0 DEF Finds, Down, LinkIs, flags, rxVars
  <2>7. \A c \in Conn \ {sockNow'} : link'[c] \in {"free", "closed"}
    BY <2>1, <2>4, <2>5, <1>0 DEF Down, Conn, None
  <2>8. Broken => Broken'
    BY <2>1, <2>5, <1>0 DEF Broken
  <2>9. Sendable' /\ (lost' # {} => Broken')
    BY <2>1, <2>2, <2>4, <2>8, <1>0 DEF Sendable, Down, LinkIs, flags
  <2> QED
    BY <2>2, <2>3, <2>6, <2>7, <2>9, AloneStep
<1>10. CASE NoSocket(p)
  <2>1. /\ Step(p, "socket", "failed") /\ sockNow' \in {sockNow, None}
        /\ UNCHANGED <<made, link, flags, rxVars, statusVars, phase, crashed>>
    BY <1>10 DEF NoSocket, NoStatus
  <2>2. /\ op[p] = "socket" /\ op'[p] = "failed"
        /\ \A q \in Callers \ {p} : op[q] = "idle" /\ op'[q] = "idle"
        /\ UNCHANGED <<audio, lost>>
    BY <2>1, <1>1 DEF OpPc
  <2>3. reconnecting' => p \in Tasks
    BY <2>1, <2>2, <1>2 DEF statusVars
  <2>4. Down /\ ~connected /\ UNCHANGED sockNow
    BY <2>1, <2>2, <1>0 DEF Finds, Down
  <2>5. Finds(p)' /\ AtRest'
    BY <2>1, <2>2, <2>4 DEF Finds, Down, AtRest, flags, rxVars
  <2>6. /\ \A c \in Conn \ {sockNow'} : link'[c] \in {"free", "closed"}
        /\ Sendable' /\ (lost' # {} => Broken') /\ ~crashed'
    BY <2>1, <2>2, <2>4, AloneFrame DEF flags
  <2> QED
    BY <2>2, <2>3, <2>5, <2>6, AloneStep
<1>11. CASE ConnectOk(p)
  <2>1. /\ Step(p, "connect", "flag") /\ sockNow # None
        /\ link' = [link EXCEPT ![sockNow] = "up"]
        /\ UNCHANGED <<sockNow, made, flags, rxVars, statusVars, phase, crashed>>
    BY <1>11 DEF ConnectOk, NoStatus, LinkIs
  <2>2. /\ op[p] = "connect" /\ op'[p] = "flag"
        /\ \A q \in Callers \ {p} : op[q] = "idle" /\ op'[q] = "idle"
        /\ UNCHANGED <<audio, lost>>
    BY <2>1, <1>1 DEF OpPc
  <2>3. reconnecting' => p \in Tasks
    BY <2>1, <2>2, <1>2 DEF statusVars
  <2>4. receiver = "none" /\ ~running /\ ~connected
    BY <2>2, <1>0 DEF Finds
  <2>5. sockNow \in Conn /\ link'[sockNow] = "up"
        /\ \A c \in Conn \ {sockNow} : link'[c] = link[c]
    BY <2>1, <1>0
  <2>6. Finds(p)' /\ ~crashed'
    BY <2>1, <2>2, <2>4, <2>5, <1>0 DEF Finds, Linked, LinkIs, flags, rxVars
  <2>7. \A c \in Conn \ {sockNow'} : link'[c] \in {"free", "closed"}
    BY <2>1, <2>5, <1>0
  <2>8. Sendable'
    BY <2>1, <2>5 DEF Sendable, LinkIs
  <2>9. Broken => Broken'
    <3> SUFFICES ASSUME Broken PROVE Broken'
      OBVIOUS
    <3>1. PICK c \in Conn : link[c] \in {"lost", "closed"}
      BY DEF Broken
    <3>2. LinkIs(sockNow, {"connecting"})
      BY <2>2, <1>0 DEF Finds
    <3>3. c # sockNow
      BY <3>1, <3>2 DEF LinkIs
    <3> QED
      BY <3>1, <3>3, <2>5 DEF Broken
  <2> QED
    BY <2>2, <2>3, <2>6, <2>7, <2>8, <2>9, <1>0, AloneStep
<1>12. CASE ConnectFails(p)
  <2>1. /\ Step(p, "connect", "failed") /\ CloseMember
        /\ UNCHANGED <<made, flags, rxVars, statusVars, phase, crashed>>
    BY <1>12 DEF ConnectFails, NoStatus
  <2>2. /\ op[p] = "connect" /\ op'[p] = "failed"
        /\ \A q \in Callers \ {p} : op[q] = "idle" /\ op'[q] = "idle"
        /\ UNCHANGED <<audio, lost>>
    BY <2>1, <1>1 DEF OpPc
  <2>3. reconnecting' => p \in Tasks
    BY <2>1, <2>2, <1>2 DEF statusVars
  <2>4. /\ receiver = "none" /\ ~running /\ ~connected
        /\ LinkIs(sockNow, {"connecting"})
    BY <2>2, <1>0 DEF Finds
  <2>5. /\ sockNow \in Conn /\ sockNow' = None
        /\ link' = [link EXCEPT ![sockNow] = "closed"]
    BY <2>1, <2>4, <1>0 DEF CloseMember, LinkIs
  <2>6. Finds(p)' /\ AtRest' /\ ~crashed'
    BY <2>1, <2>2, <2>4, <2>5, <1>0 DEF Finds, Down, AtRest, flags, rxVars
  <2>7. \A c \in Conn : link'[c] \in {"free", "closed"}
    BY <2>5, <1>0
  <2>8. Broken'
    BY <2>5, <1>0 DEF Broken
  <2>9. Sendable'
    BY <2>8 DEF Sendable
  <2> QED
    BY <2>2, <2>3, <2>6, <2>7, <2>8, <2>9, AloneStep
<1>13. CASE SetFlags(p)
  <2>1. /\ Step(p, "flag", "spawn") /\ connected' /\ running'
        /\ UNCHANGED <<netVars, rxVars, statusVars, phase, crashed>>
    BY <1>13 DEF SetFlags, NoStatus
  <2>2. /\ op[p] = "flag" /\ op'[p] = "spawn"
        /\ \A q \in Callers \ {p} : op[q] = "idle" /\ op'[q] = "idle"
        /\ UNCHANGED <<audio, lost>>
    BY <2>1, <1>1 DEF OpPc
  <2>3. reconnecting' => p \in Tasks
    BY <2>1, <2>2, <1>2 DEF statusVars
  <2>4. Linked /\ receiver = "none"
    BY <2>2, <1>0 DEF Finds
  <2>5. UNCHANGED <<sockNow, link, receiver, crashed>>
    BY <2>1 DEF netVars, rxVars
  <2>6. Finds(p)' /\ ~crashed'
    BY <2>1, <2>2, <2>4, <2>5, <1>0 DEF Finds, Linked, LinkIs
  <2>7. \A c \in Conn \ {sockNow'} : link'[c] \in {"free", "closed"}
    BY <2>5, <1>0
  <2>8. (Broken => Broken') /\ (LinkIs(sockNow, {"lost"}) => Broken)
    BY <2>5, <1>0 DEF Broken, LinkIs
  <2>9. Sendable'
    BY <2>4, <2>5, <2>8 DEF Sendable, Linked, LinkIs
  <2> QED
    BY <2>2, <2>3, <2>6, <2>7, <2>8, <2>9, <1>0, AloneStep
<1>14. CASE SpawnReceiver(p)
  <2>1. /\ Step(p, "spawn", "ok") /\ receiver' = "loop"
        /\ UNCHANGED <<netVars, flags, statusVars, phase>>
    BY <1>14 DEF SpawnReceiver, NoStatus
  <2>2. /\ op[p] = "spawn" /\ op'[p] = "ok"
        /\ \A q \in Callers \ {p} : op[q] = "idle" /\ op'[q] = "idle"
        /\ UNCHANGED <<audio, lost>>
    BY <2>1, <1>1 DEF OpPc
  <2>3. reconnecting' => p \in Tasks
    BY <2>1, <2>2, <1>2 DEF statusVars
  <2>4. Linked /\ receiver = "none" /\ running
    BY <2>2, <1>0 DEF Finds
  <2>5. ~crashed'
    BY <1>14, <2>4 DEF SpawnReceiver
  <2>6. UNCHANGED <<sockNow, link, connected, running, phase>>
    BY <2>1 DEF netVars, flags
  <2>7. phase # "stopping"
    BY <2>2, <2>4, <1>0 DEF CallerInv, Callers, Connecting, Disconnecting
  <2>8. Finds(p)' /\ AtRest'
    BY <2>1, <2>2, <2>4, <2>6, <2>7 DEF Finds, AtRest, Linked, LinkIs
  <2>9. \A c \in Conn \ {sockNow'} : link'[c] \in {"free", "closed"}
    BY <2>6, <1>0
  <2>10. Sendable' /\ (Broken => Broken')
    BY <2>2, <2>6, <1>0 DEF Sendable, Broken, LinkIs
  <2> QED
    BY <2>2, <2>3, <2>5, <2>8, <2>9, <2>10, <1>0, AloneStep
<1>15. CASE TaskDone(p)
  <2>1. /\ p # "main" /\ ~reconnecting'
        /\ UNCHANGED <<netVars, flags, rxVars, phase, crashed>>
        /\ \/ /\ Step(p, "ok", "idle")
              /\ callbackSet' /\ phoneConnected'
           \/ Step(p, "failed", "idle")
    BY <1>15 DEF TaskDone
  <2>2. /\ op[p] \in {"ok", "failed"} /\ op'[p] = "idle"
        /\ \A q \in Callers \ {p} : op[q] = "idle" /\ op'[q] = "idle"
        /\ UNCHANGED <<audio, lost>>
    <3>1. CASE Step(p, "ok", "idle")
      BY <3>1, <1>1 DEF OpPc
    <3>2. CASE Step(p, "failed", "idle")
      BY <3>2, <1>1 DEF OpPc
    <3> QED
      BY <2>1, <3>1, <3>2
  <2>3. connected' => phoneConnected' /\ callbackSet'
    <3>1. CASE Step(p, "ok", "idle") /\ callbackSet' /\ phoneConnected'
      BY <3>1
    <3>2. CASE Step(p, "failed", "idle")
      <4>1. op[p] = "failed"
        BY <3>2, <1>1 DEF OpPc
      <4> QED
        BY <4>1, <2>1, <1>0 DEF Finds, flags
    <3> QED
      BY <2>1, <3>1, <3>2
  <2>4. AtRest'
    BY <2>1, <2>2, <1>2 DEF AtRest, Linked, LinkIs, netVars, flags, rxVars
  <2>5. Finds(p)'
    BY <2>2 DEF Finds
  <2>6. /\ \A c \in Conn \ {sockNow'} : link'[c] \in {"free", "closed"}
        /\ Sendable' /\ (lost' # {} => Broken') /\ ~crashed'
    BY <2>1, <2>2, AloneFrame DEF netVars, flags
  <2> QED
    BY <2>1, <2>2, <2>3, <2>4, <2>5, <2>6, AloneStep
<1>16. CASE Reconnect(p)
  <2>1. /\ p \in Tasks /\ Step(p, "idle", "disconnect")
        /\ UNCHANGED <<netVars, flags, rxVars, callbackSet, phoneConnected, phase, crashed>>
    BY <1>16 DEF Reconnect
  <2>2. /\ op[p] = "idle" /\ op'[p] = "disconnect"
        /\ \A q \in Callers \ {p} : op[q] = "idle" /\ op'[q] = "idle"
        /\ UNCHANGED <<audio, lost>>
    BY <2>1, <1>1 DEF OpPc
  <2>3. connected' => phoneConnected' /\ callbackSet'
    BY <2>1, <2>2, <1>2 DEF flags
  <2>4. AtRest'
    BY <2>1, <2>2, <1>2 DEF AtRest, Linked, LinkIs, netVars, flags, rxVars
  <2>5. Finds(p)'
    BY <2>2 DEF Finds
  <2>6. /\ \A c \in Conn \ {sockNow'} : link'[c] \in {"free", "closed"}
        /\ Sendable' /\ (lost' # {} => Broken') /\ ~crashed'
    BY <2>1, <2>2, AloneFrame DEF netVars, flags
  <2> QED
    BY <2>1, <2>2, <2>3, <2>4, <2>5, <2>6, AloneStep
<1> QED
  BY <1>3, <1>4, <1>5, <1>6, <1>7, <1>8, <1>9, <1>10, <1>11, <1>12,
     <1>13, <1>14, <1>15, <1>16 DEF Caller


\* Main, which shows the result of the connection.
LEMMA MainAlone ==
    ASSUME TypeOK, CallerInv, AloneInv, ~overlapped',
           MainConnected \/ MainStops \/ MainStopped
    PROVE  AloneInv'
<1> USE ClientAssumption
<1> DEFINE p == "main"
<1>0. /\ op \in [Callers -> OpPc] /\ p \in Callers /\ Finds(p) /\ p \notin Tasks
  BY DEF TypeOK, AloneInv, Callers
<1>1. ASSUME NEW from, NEW to \in OpPc, Step(p, from, to)
      PROVE  /\ op[p] = from /\ op'[p] = to
             /\ \A q \in Callers \ {p} : op[q] = "idle" /\ op'[q] = "idle"
             /\ UNCHANGED <<audio, lost>>
  BY <1>0, <1>1, StepFacts
<1>2. ASSUME \A q \in Callers \ {p} : op[q] = "idle"
      PROVE  /\ op[p] \in {"idle", "disconnect", "ok", "failed"} => AtRest
             /\ op[p] \in {"idle", "disconnect"}
                   => (connected => phoneConnected /\ callbackSet)
             /\ ~reconnecting
  BY <1>0, <1>2 DEF AloneInv, Callers
<1>3. ASSUME NEW to \in {"idle", "disconnect"}, op'[p] = to,
             \A q \in Callers \ {p} : op'[q] = "idle",
             AtRest, UNCHANGED <<netVars, flags, rxVars, reconnecting, crashed>>,
             UNCHANGED <<audio, lost>>, ~reconnecting,
             connected' => phoneConnected' /\ callbackSet'
      PROVE  AloneInv'
  <2>1. AtRest'
    BY <1>3 DEF AtRest, Linked, LinkIs, netVars, flags, rxVars
  <2>2. Finds(p)'
    BY <1>3 DEF Finds
  <2>3. /\ \A c \in Conn \ {sockNow'} : link'[c] \in {"free", "closed"}
        /\ Sendable' /\ (lost' # {} => Broken') /\ ~crashed'
    BY <1>3, AloneFrame DEF netVars, flags
  <2>4. ~reconnecting'
    BY <1>3
  <2> QED
    BY <1>0, <1>3, <2>1, <2>2, <2>3, <2>4, AloneStep
<1>4. CASE MainConnected
  <2>1. /\ Step(p, op[p], "idle") /\ op[p] \in {"ok", "failed"}
        /\ phoneConnected' = (op[p] = "ok") /\ callbackSet'
        /\ UNCHANGED <<netVars, flags, rxVars, reconnecting, crashed>>
    BY <1>4 DEF MainConnected
  <2>2. /\ op'[p] = "idle" /\ UNCHANGED <<audio, lost>>
        /\ \A q \in Callers \ {p} : op[q] = "idle" /\ op'[q] = "idle"
    BY <2>1, <1>1 DEF OpPc
  <2>3. AtRest /\ ~reconnecting
    BY <2>1, <2>2, <1>2
  <2>4. connected' => phoneConnected' /\ callbackSet'
    <3>1. CASE op[p] = "ok"
      BY <3>1, <2>1
    <3>2. CASE op[p] = "failed"
      BY <3>2, <2>1, <1>0 DEF Finds, flags
    <3> QED
      BY <2>1, <3>1, <3>2
  <2> QED
    BY <2>1, <2>2, <2>3, <2>4, <1>3
<1>5. CASE MainStops
  <2>1. /\ Step(p, "idle", "disconnect")
        /\ UNCHANGED <<netVars, flags, rxVars, statusVars, crashed>>
    BY <1>5 DEF MainStops
  <2>2. /\ op[p] = "idle" /\ op'[p] = "disconnect" /\ UNCHANGED <<audio, lost>>
        /\ \A q \in Callers \ {p} : op[q] = "idle" /\ op'[q] = "idle"
    BY <2>1, <1>1 DEF OpPc
  <2>3. AtRest /\ ~reconnecting /\ (connected => phoneConnected /\ callbackSet)
    BY <2>2, <1>2
  <2>4. connected' => phoneConnected' /\ callbackSet'
    BY <2>1, <2>3 DEF flags, statusVars
  <2>5. UNCHANGED <<netVars, flags, rxVars, reconnecting, crashed>>
    BY <2>1 DEF statusVars
  <2> QED
    BY <2>2, <2>3, <2>4, <2>5, <1>3
<1>6. CASE MainStopped
  <2>1. /\ phase = "stopping" /\ Step(p, "ok", "idle")
        /\ UNCHANGED <<netVars, flags, rxVars, callbackSet, reconnecting, crashed>>
    BY <1>6 DEF MainStopped
  <2>2. /\ op[p] = "ok" /\ op'[p] = "idle" /\ UNCHANGED <<audio, lost>>
        /\ \A q \in Callers \ {p} : op[q] = "idle" /\ op'[q] = "idle"
    BY <2>1, <1>1 DEF OpPc
  <2>3. AtRest /\ ~reconnecting
    BY <2>2, <1>2
  <2>4. ~connected'
    BY <2>1, <2>2, <1>0 DEF Finds, flags
  <2> QED
    BY <2>1, <2>2, <2>3, <2>4, <1>3
<1> QED
  BY <1>4, <1>5, <1>6

\* What the other threads and the cable do.
LEMMA AloneThread ==
    ASSUME AloneInv,
           UNCHANGED <<op, phase, sockNow, reconnecting, callbackSet, phoneConnected,
                       crashed>>,
           connected' => connected,
           \A p \in Callers : Finds(p)',
           AtRest => AtRest',
           \A c \in Conn \ {sockNow} : link'[c] \in {"free", "closed"},
           Sendable', lost' # {} => Broken'
    PROVE  AloneInv'
BY DEF AloneInv

LEMMA ThreadAlone ==
    ASSUME TypeOK, AloneInv, Receiver \/ ConnectionLost \/ UNCHANGED vars
    PROVE  AloneInv'
<1> USE ClientAssumption
<1>0. /\ link \in [Conn -> {"free", "connecting", "up", "lost", "closed"}]
      /\ \A c \in Conn \ {sockNow} : link[c] \in {"free", "closed"}
      /\ \A p \in Callers : Finds(p)
      /\ Sendable /\ (lost # {} => Broken) /\ sockNow \in Conn \cup {None}
  BY DEF TypeOK, AloneInv
<1>1. ASSUME receiver # "none", receiver' # "none", connected' => connected, RxFrame,
             AtRest => AtRest'
      PROVE  AloneInv'
  <2>1. UNCHANGED <<op, phase, sockNow, link, running, reconnecting, callbackSet,
                    phoneConnected, crashed, audio, lost>>
    BY <1>1 DEF RxFrame, netVars, statusVars, audioVars
  <2>2. \A p \in Callers : Finds(p)'
    BY <1>0, <1>1, <2>1 DEF Finds, Down, Linked, LinkIs
  <2>3. Sendable' /\ (Broken => Broken')
    BY <1>0, <1>1, <2>1 DEF Sendable, Broken, LinkIs
  <2>4. \A c \in Conn \ {sockNow} : link'[c] \in {"free", "closed"}
    BY <1>0, <2>1
  <2> QED
    BY <1>0, <1>1, <2>1, <2>2, <2>3, <2>4, AloneThread
<1>2. CASE RxLoop
  <2>1. /\ receiver = "loop" /\ UNCHANGED connected /\ RxFrame
        /\ IF running /\ connected
           THEN receiver' = "recv" /\ rxSock' = sockNow
           ELSE receiver' = "finished"
    BY <1>2 DEF RxLoop
  <2>2. UNCHANGED <<sockNow, link, running>>
    BY <2>1 DEF RxFrame, netVars
  <2>3. AtRest => AtRest'
    BY <2>1, <2>2 DEF AtRest, Linked, LinkIs
  <2> QED
    BY <2>1, <2>3, <1>1
<1>3. CASE RxText
  <2>1. receiver = "recv" /\ receiver' = "loop" /\ UNCHANGED connected /\ RxFrame
    BY <1>3 DEF RxText
  <2>2. UNCHANGED <<sockNow, link, running>>
    BY <2>1 DEF RxFrame, netVars
  <2>3. AtRest => AtRest'
    BY <2>1, <2>2 DEF AtRest, Linked, LinkIs
  <2> QED
    BY <2>1, <2>3, <1>1
<1>4. CASE RxEnd
  <2>1. receiver = "recv" /\ receiver' = "finished" /\ ~connected' /\ RxFrame
    BY <1>4 DEF RxEnd
  <2>2. UNCHANGED running
    BY <2>1 DEF RxFrame
  <2>3. AtRest => AtRest'
    BY <2>1, <2>2 DEF AtRest
  <2> QED
    BY <2>1, <2>3, <1>1
<1>5. CASE ConnectionLost
  <2>1. /\ LinkIs(sockNow, {"up"}) /\ link' = [link EXCEPT ![sockNow] = "lost"]
        /\ UNCHANGED <<sockNow, made, flags, rxVars, statusVars, audioVars, op, phase, crashed>>
    BY <1>5 DEF ConnectionLost
  <2>2. /\ link'[sockNow] = "lost" /\ sockNow \in Conn
        /\ \A c \in Conn \ {sockNow} : link'[c] = link[c]
    BY <2>1, <1>0 DEF LinkIs
  <2>3. UNCHANGED <<op, phase, sockNow, receiver, rxSock, running, connected,
                    reconnecting, callbackSet, phoneConnected>>
    BY <2>1 DEF flags, rxVars, statusVars
  <2>4. Linked' /\ Broken'
    BY <2>2, <2>3 DEF Linked, LinkIs, Broken, Conn, None
  <2>5. \A p \in Callers : Finds(p)'
    BY <1>0, <2>1, <2>3, <2>4 DEF Finds, Down, LinkIs
  <2>6. AtRest => AtRest'
    BY <2>3, <2>4 DEF AtRest
  <2> QED
    BY <1>0, <2>1, <2>2, <2>3, <2>4, <2>5, <2>6, AloneThread DEF Sendable
<1>6. CASE UNCHANGED vars
  <2>1. UNCHANGED <<sockNow, link, running, connected, receiver, rxSock, callbackSet, op,
                    phase, phoneConnected, reconnecting, audio, lost>>
    BY <1>6 DEF vars, netVars, flags, rxVars, statusVars, audioVars
  <2>2. UNCHANGED crashed
    BY <1>6 DEF vars
  <2>3. \A p \in Callers : Finds(p)'
    BY <1>0, <2>1 DEF Finds, Down, Linked, LinkIs
  <2>4. AtRest => AtRest'
    BY <2>1 DEF AtRest, Linked, LinkIs
  <2>5. Sendable' /\ (Broken => Broken')
    BY <1>0, <2>1 DEF Sendable, Broken, LinkIs
  <2> QED
    BY <1>0, <2>1, <2>2, <2>3, <2>4, <2>5, AloneThread
<1> QED
  BY <1>2, <1>3, <1>4, <1>5, <1>6 DEF Receiver


\* A segment is lost only when the connection was.
LEMMA AudioAlone ==
    ASSUME TypeOK, AloneInv, Speak \/ SendBytes
    PROVE  AloneInv'
<1>0. /\ \A c \in Conn \ {sockNow} : link[c] \in {"free", "closed"}
      /\ \A p \in Callers : Finds(p)
      /\ Sendable /\ (lost # {} => Broken)
  BY DEF AloneInv
<1>1. AudioFrame
  BY DEF Speak, SendBytes
<1>2. UNCHANGED <<sockNow, link, running, connected, receiver, rxSock, callbackSet, op,
                  phase, phoneConnected, reconnecting>>
  BY <1>1 DEF AudioFrame, netVars, flags, rxVars, statusVars
<1>3. UNCHANGED crashed
  BY <1>1 DEF AudioFrame
<1>4. \A p \in Callers : Finds(p)'
  BY <1>0, <1>2 DEF Finds, Down, Linked, LinkIs
<1>5. AtRest => AtRest'
  BY <1>2 DEF AtRest, Linked, LinkIs
<1>6. Broken => Broken'
  BY <1>2 DEF Broken
<1>7. Sendable' /\ (lost' # {} => Broken')
  <2>1. CASE UNCHANGED <<audio, lost>>
    BY <2>1, <1>0, <1>2, <1>6 DEF Sendable, LinkIs
  <2>2. CASE connected /\ sockNow = None
    BY <2>2, <1>0, <1>6 DEF Sendable, LinkIs
  <2>3. CASE connected /\ UNCHANGED lost
    BY <2>3, <1>0, <1>2, <1>6 DEF Sendable, LinkIs
  <2>4. CASE audio # <<>> /\ audio' = <<>> /\ (LinkIs(sockNow, {"up"}) => UNCHANGED lost)
    BY <2>4, <1>0, <1>2, <1>6 DEF Sendable, LinkIs
  <2>5. CASE Speak
    BY <2>1, <2>2, <2>3, <2>5 DEF Speak
  <2>6. CASE SendBytes
    BY <2>4, <2>6 DEF SendBytes
  <2> QED
    BY <2>5, <2>6
<1> QED
  BY <1>0, <1>2, <1>3, <1>4, <1>5, <1>7, AloneThread

-----------------------------------------------------------------------------
(* Together *)

\* Only the audio thread moves segments; an overlap is not forgotten.
LEMMA OtherFrame ==
    ASSUME TypeOK, [Next]_vars, ~(Speak \/ SendBytes)
    PROVE  UNCHANGED <<nextSegment, buffer, audio, counted, wire, lost>>
           /\ (overlapped => overlapped')
<1> USE DEF TypeOK
<1>1. ASSUME NEW p \in Callers, Caller(p) PROVE UNCHANGED audioVars /\ (overlapped => overlapped')
  <2>1. CASE JoinedReceiver(p)
    BY <2>1 DEF JoinedReceiver
  <2>2. CASE \E from, to \in OpPc : Step(p, from, to)
    BY <2>2, StepFacts DEF audioVars
  <2>3. CASE ~JoinedReceiver(p)
    <3> HIDE DEF Step
    <3> QED
      BY <1>1, <2>2, <2>3
         DEF Caller, Disconnect, CloseSocket, JoinReceiver, JoinLate, Unflag, MakeSocket,
             NoSocket, ConnectOk, ConnectFails, SetFlags, SpawnReceiver, TaskDone,
             OpPc, AfterDisconnect
  <2> QED
    BY <2>1, <2>3
<1>2. ASSUME NEW p \in Callers, NEW from, NEW to \in OpPc, Step(p, from, to)
      PROVE  UNCHANGED audioVars /\ (overlapped => overlapped')
  BY <1>2, StepFacts DEF audioVars
<1>3. ASSUME \/ \E p \in Tasks : Reconnect(p)
             \/ MainConnected \/ MainStops \/ MainStopped
      PROVE  UNCHANGED audioVars /\ (overlapped => overlapped')
  BY <1>2, <1>3 DEF Reconnect, MainConnected, MainStops, MainStopped, OpPc, Callers
<1>4. ASSUME Receiver \/ ConnectionLost \/ UNCHANGED vars
      PROVE  UNCHANGED audioVars /\ (overlapped => overlapped')
  BY <1>4 DEF Receiver, RxLoop, RxText, RxEnd, RxFrame, ConnectionLost, vars
<1> QED
  BY <1>1, <1>3, <1>4 DEF Next, Ended, audioVars

LEMMA NextInv == ClientInv /\ [Next]_vars => ClientInv'
<1> SUFFICES ASSUME ClientInv, [Next]_vars PROVE ClientInv'
  OBVIOUS
<1>0. TypeOK /\ StreamInv /\ AccountInv /\ CallerInv /\ (~overlapped => AloneInv)
  BY DEF ClientInv
<1>1. CASE Speak \/ SendBytes
  <2>1. TypeOK' /\ StreamInv' /\ AccountInv'
    BY <1>0, <1>1, SpeakInv, SendBytesInv
  <2>2. AudioFrame
    BY <1>1 DEF Speak, SendBytes
  <2>3. CallerInv'
    BY <1>0, <2>2 DEF CallerInv, AudioFrame, netVars
  <2>4. overlapped' = overlapped
    BY <2>2 DEF AudioFrame
  <2> QED
    BY <1>0, <1>1, <2>1, <2>3, <2>4, AudioAlone DEF ClientInv
<1>2. CASE ~(Speak \/ SendBytes)
  <2>1. /\ UNCHANGED <<nextSegment, buffer, audio, counted, wire, lost>>
        /\ overlapped => overlapped'
    BY <1>0, <1>2, OtherFrame
  <2>2. StreamInv' /\ AccountInv'
    BY <1>0, <2>1 DEF StreamInv, AccountInv, InOrder, Before
  <2>3. \/ \E p \in Callers : Caller(p) \/ Reconnect(p)
        \/ MainConnected \/ MainStops \/ MainStopped
        \/ Receiver \/ ConnectionLost \/ UNCHANGED vars
    BY <1>2 DEF Next, Ended, Callers
  <2>4. TypeOK' /\ CallerInv'
    BY <1>0, <2>3, CallerType, MainType, ThreadType
  <2>5. ~overlapped' => AloneInv'
    BY <1>0, <2>1, <2>3, CallerAlone, MainAlone, ThreadAlone
  <2> QED
    BY <2>2, <2>4, <2>5 DEF ClientInv
<1> QED
  BY <1>1, <1>2

\* The client's invariant: the segments are in order and in one place each,
\* and until two callers overlap, the members belong together at each
\* statement of connect and disconnect (client.cpp).
THEOREM ClientInvariance == Spec => []ClientInv
BY InitInv, NextInv, PTL DEF Spec

\* The members of NetworkClient, the callers and the segments have values of
\* their types, and the member names a socket that was not closed yet.
THEOREM ClientTypeCorrect == Spec => []TypeOK
<1>1. ClientInv => TypeOK
  BY DEF ClientInv
<1> QED
  BY <1>1, ClientInvariance, PTL

\* sendAudio and g_buffer: segments are on the wire in the order of speech,
\* each once, whatever callers connect, disconnect and reconnect meanwhile.
THEOREM ClientWireInOrder == Spec => []WireInOrder
<1>1. ClientInv => WireInOrder
  BY DEF ClientInv, StreamInv, InOrder, WireInOrder
<1> QED
  BY <1>1, ClientInvariance, PTL

\* No segment that was spoken disappears unaccounted for, and one that was
\* counted as sent is missing only if a connection broke or calls overlapped.
THEOREM ClientSegmentsAccountedFor == Spec => []SegmentsAccountedFor
<1>1. ClientInv => SegmentsAccountedFor
  <2> SUFFICES ASSUME ClientInv PROVE SegmentsAccountedFor
    OBVIOUS
  <2>1. AccountInv /\ (~overlapped => AloneInv)
    BY DEF ClientInv
  <2>2. ~overlapped => (lost # {} => Broken)
    BY <2>1 DEF AloneInv
  <2> QED
    BY <2>1, <2>2 DEF AccountInv, Broken, SegmentsAccountedFor
<1> QED
  BY <1>1, ClientInvariance, PTL

\* connect() assigns m_receiveThread only when no thread is joinable, as long
\* as no other caller is in the client: the process does not end.
THEOREM ClientCrashNeedsOverlap == Spec => []CrashNeedsOverlap
<1>1. ClientInv => CrashNeedsOverlap
  BY DEF ClientInv, AloneInv, CrashNeedsOverlap
<1> QED
  BY <1>1, ClientInvariance, PTL

\* Between calls that did not overlap, the flags, the socket, the receive
\* thread and the status page agree, and no socket is left open.
THEOREM ClientLinkSound == Spec => []LinkSound
<1>1. ClientInv => LinkSound
  <2> SUFFICES ASSUME ClientInv PROVE LinkSound
    OBVIOUS
  <2>1. TypeOK /\ (~overlapped => AloneInv)
    BY DEF ClientInv
  <2>2. LinkConsistent
    BY <2>1 DEF LinkConsistent, Settled, AloneInv, AtRest, Linked, LinkIs
  <2>3. NoSocketLeaked
    BY <2>1 DEF NoSocketLeaked, AloneInv
  <2>4. StatusConsistent
    BY <2>1 DEF StatusConsistent, Settled, AloneInv, Callers
  <2> QED
    BY <2>2, <2>3, <2>4 DEF LinkSound
<1> QED
  BY <1>1, ClientInvariance, PTL


=============================================================================
