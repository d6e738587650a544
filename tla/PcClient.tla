-------------------------------- MODULE PcClient --------------------------------
(***************************************************************************)
(* The PC's end of the connection: NetworkClient (client.cpp) and those    *)
(* who use it.                                                             *)
(*                                                                         *)
(*   main            connects at the start, disconnects at the end         *)
(*   HTTP tasks      /control/phone/reconnect: PcAppController and         *)
(*                   reconnectPhone of main.cpp; several may run at once   *)
(*   receive thread  one per connection, m_receiveThread                   *)
(*   audio thread    addPaddedSegmentToBuffer and sendAudio                *)
(*                                                                         *)
(* NetworkClient has no lock: the flags are atomic, the socket and the     *)
(* thread object are plain members.  op says where main and every task are *)
(* in connect and disconnect; one step is one statement on a member.       *)
(* An assignment to m_receiveThread while it is joinable ends the process  *)
(* (std::terminate).  Of two callers that join it at once, one succeeds;   *)
(* for the other this is undefined: join returns, or it throws out of the  *)
(* task, whose future keeps the exception.                                 *)
(***************************************************************************)
EXTENDS Integers, SequencesExt, FiniteSets

CONSTANTS Tasks,       \* HTTP tasks that may reconnect at the same time
          MaxConns,    \* bound of the model: sockets made
          MaxSegments, \* bound of the model: segments spoken
          MergeMax     \* merge.max_segments

ASSUME ClientAssumption ==
    /\ IsFiniteSet(Tasks) /\ "main" \notin Tasks
    /\ MaxConns \in Nat /\ MaxSegments \in Nat /\ MergeMax \in Nat \ {0}

Callers == Tasks \cup {"main"}
Conn == 1..MaxConns
Segment == 1..MaxSegments
None == 0

VARIABLES sockNow,    \* m_impl->socket
          made,       \* how many sockets were made
          link,       \* per socket, its state
          running, connected,   \* m_running, m_connected
          receiver, rxSock,     \* receive thread and the socket it reads
          callbackSet,          \* m_textCallback is set
          op,         \* where each caller is
          phase,      \* main: starting, up, stopping, done
          phoneConnected, reconnecting,  \* PcRuntime
          nextSegment,
          buffer,     \* g_buffer: segments not sent yet
          audio,      \* message sendAudio is building, <<>> for none
          counted,    \* segments sent_audio_count accounts for
          wire,       \* history: segments that reached a connection, in order
          lost,       \* history: counted segments that did not
          crashed,    \* the process has ended
          overlapped  \* history: two callers were in the client at once

netVars    == <<sockNow, made, link>>
flags      == <<running, connected>>
rxVars     == <<receiver, rxSock>>
statusVars == <<callbackSet, phoneConnected, reconnecting>>
audioVars  == <<nextSegment, buffer, audio, counted, wire, lost>>
vars == <<netVars, flags, rxVars, statusVars, audioVars, op, phase,
          crashed, overlapped>>

OpPc == {"idle", "disconnect", "close", "join", "joining", "late", "unflag",
         "socket", "connect", "flag", "spawn", "ok", "failed"}

TypeOK ==
    /\ sockNow \in Conn \cup {None}
    /\ sockNow # None => link[sockNow] \in {"connecting", "up", "lost"}
    /\ made \in 0..MaxConns
    /\ link \in [Conn -> {"free", "connecting", "up", "lost", "closed"}]
    /\ running \in BOOLEAN /\ connected \in BOOLEAN
    /\ receiver \in {"none", "loop", "recv", "finished"}
    /\ rxSock \in Conn \cup {None}
    /\ callbackSet \in BOOLEAN
    /\ op \in [Callers -> OpPc]
    /\ phase \in {"starting", "up", "stopping", "done"}
    /\ phoneConnected \in BOOLEAN /\ reconnecting \in BOOLEAN
    /\ nextSegment \in 1..(MaxSegments + 1)
    /\ buffer \in Seq(Segment) /\ audio \in Seq(Segment)
    /\ counted \in SUBSET Segment /\ lost \in SUBSET Segment
    /\ wire \in Seq(Segment)
    /\ crashed \in BOOLEAN /\ overlapped \in BOOLEAN

Init ==
    /\ sockNow = None /\ made = 0 /\ link = [c \in Conn |-> "free"]
    /\ running = FALSE /\ connected = FALSE
    /\ receiver = "none" /\ rxSock = None
    /\ callbackSet = FALSE /\ phoneConnected = FALSE /\ reconnecting = FALSE
    /\ op = [p \in Callers |-> IF p = "main" THEN "socket" ELSE "idle"]
    /\ phase = "starting"
    /\ nextSegment = 1 /\ buffer = <<>> /\ audio = <<>>
    /\ counted = {} /\ wire = <<>> /\ lost = {}
    /\ crashed = FALSE /\ overlapped = FALSE

-----------------------------------------------------------------------------
(* connect and disconnect *)

\* Caller p goes from one statement to the next.
Step(p, from, to) ==
    /\ ~crashed
    /\ op[p] = from
    /\ op' = [op EXCEPT ![p] = to]
    /\ overlapped' = (overlapped \/ \E q \in Callers \ {p} : op[q] # "idle")
    /\ UNCHANGED audioVars

NoStatus == UNCHANGED <<statusVars, phase>>

\* The socket c is in the given state; no socket has no state.
LinkIs(c, states) == c # None /\ link[c] \in states

\* Mutant: the member is cleared, the socket stays.
ForgetMember == sockNow' = None /\ UNCHANGED link

\* closesocket on the member, which is then INVALID_SOCKET.
CloseMember ==
    /\ link' = IF sockNow = None THEN link
                                 ELSE [link EXCEPT ![sockNow] = "closed"]
    /\ sockNow' = None

\* disconnect() does nothing when nothing was connected; the caller goes on.
NotConnected == ~connected    \* mutant: only m_connected is asked
Nothing == ~running /\ ~connected /\ sockNow = None
AfterDisconnect(p) == IF p = "main" THEN "ok" ELSE "socket"

Disconnect(p) ==
    /\ Step(p, "disconnect", IF Nothing THEN AfterDisconnect(p) ELSE "close")
    /\ running' = FALSE
    /\ phoneConnected' = (phoneConnected /\ ~Nothing)
    /\ UNCHANGED <<netVars, connected, rxVars, callbackSet, reconnecting, phase,
                   crashed>>

CloseSocket(p) ==
    /\ Step(p, "close", "join")
    /\ CloseMember
    /\ UNCHANGED <<made, flags, rxVars, crashed>>
    /\ NoStatus

JoinReceiver(p) ==
    /\ Step(p, "join", IF receiver = "none" THEN "unflag" ELSE "joining")
    /\ UNCHANGED <<netVars, flags, rxVars, crashed>>
    /\ NoStatus

\* The thread is joined once; whoever waited for it too comes late.
JoinedReceiver(p) ==
    /\ ~crashed
    /\ op[p] = "joining" /\ receiver = "finished"
    /\ op' = [q \in Callers |-> IF q = p THEN "unflag"
                               ELSE IF op[q] = "joining" THEN "late" ELSE op[q]]
    /\ receiver' = "none" /\ rxSock' = None
    /\ UNCHANGED <<netVars, flags, audioVars, crashed, overlapped>>
    /\ NoStatus

JoinLate(p) ==
    /\ \/ Step(p, "late", "unflag")
       \/ p # "main" /\ Step(p, "late", "idle")
    /\ UNCHANGED <<netVars, flags, rxVars, crashed>>
    /\ NoStatus

\* The end of disconnect(), after which the caller reports it.
Unflag(p) ==
    /\ Step(p, "unflag", AfterDisconnect(p))
    /\ connected' = FALSE
    /\ phoneConnected' = FALSE
    /\ UNCHANGED <<netVars, running, rxVars, callbackSet, reconnecting, phase,
                   crashed>>

MakeSocket(p) ==
    /\ made < MaxConns
    /\ Step(p, "socket", "connect")
    /\ made' = made + 1
    /\ sockNow' = made + 1
    /\ link' = [link EXCEPT ![made + 1] = "connecting"]
    /\ UNCHANGED <<flags, rxVars, crashed>>
    /\ NoStatus

\* Without WSAStartup the member stays, without a socket it is cleared.
NoSocket(p) ==
    /\ Step(p, "socket", "failed")
    /\ sockNow' \in {sockNow, None}
    /\ UNCHANGED <<made, link, flags, rxVars, crashed>>
    /\ NoStatus

\* ::connect on whatever socket the member names now, and the two outcomes.
ConnectOk(p) ==
    /\ LinkIs(sockNow, {"connecting"})
    /\ Step(p, "connect", "flag")
    /\ link' = [link EXCEPT ![sockNow] = "up"]
    /\ UNCHANGED <<sockNow, made, flags, rxVars, crashed>>
    /\ NoStatus

ConnectFails(p) ==
    /\ Step(p, "connect", "failed")
    /\ CloseMember
    /\ UNCHANGED <<made, flags, rxVars, crashed>>
    /\ NoStatus

\* m_connected and m_running.
SetFlags(p) ==
    /\ Step(p, "flag", "spawn")
    /\ connected' = TRUE /\ running' = TRUE
    /\ UNCHANGED <<netVars, rxVars, crashed>>
    /\ NoStatus

SpawnReceiver(p) ==
    /\ Step(p, "spawn", "ok")
    /\ crashed' = (receiver # "none")
    /\ receiver' = "loop" /\ rxSock' = None
    /\ UNCHANGED <<netVars, flags>>
    /\ NoStatus

\* What reconnectPhone and the controller do with the result.
TaskDone(p) ==
    /\ p # "main"
    /\ \/ /\ Step(p, "ok", "idle")
          /\ callbackSet' = TRUE /\ phoneConnected' = TRUE
       \/ /\ Step(p, "failed", "idle")
          /\ phoneConnected' = FALSE
          /\ UNCHANGED callbackSet
    /\ reconnecting' = FALSE
    /\ UNCHANGED <<netVars, flags, rxVars, phase, crashed>>

\* What main does with it; the callback is set either way.
MainConnected ==
    /\ phase = "starting"
    /\ Step("main", op["main"], "idle")
    /\ op["main"] \in {"ok", "failed"}
    /\ phoneConnected' = (op["main"] = "ok")
    /\ callbackSet' = TRUE
    /\ phase' = "up"
    /\ UNCHANGED <<netVars, flags, rxVars, reconnecting, crashed>>

-----------------------------------------------------------------------------
(* The callers *)

\* A task calls PcAppController::reconnectPhone: the server runs before main
\* connects, and until main stops it.
Reconnect(p) ==
    /\ p \in Tasks
    /\ phase \in {"starting", "up"}
    /\ made < MaxConns
    /\ Step(p, "idle", "disconnect")
    /\ reconnecting' = TRUE
    /\ UNCHANGED <<netVars, flags, rxVars, callbackSet, phoneConnected, phase,
                   crashed>>

\* Shutdown: stopStatusServer has waited for the tasks, main disconnects.
MainStops ==
    /\ phase = "up"
    /\ \A p \in Tasks : op[p] = "idle"
    /\ audio = <<>>
    /\ Step("main", "idle", "disconnect")
    /\ phase' = "stopping"
    /\ UNCHANGED <<netVars, flags, rxVars, statusVars, crashed>>

MainStopped ==
    /\ phase = "stopping"
    /\ Step("main", "ok", "idle")
    /\ phoneConnected' = FALSE
    /\ phase' = "done"
    /\ UNCHANGED <<netVars, flags, rxVars, callbackSet, reconnecting, crashed>>

-----------------------------------------------------------------------------
(* receiveThread *)

RxFrame == UNCHANGED <<netVars, running, statusVars, audioVars, op, phase,
                       crashed, overlapped>>

\* The loop condition, and recv on the socket the member names at that time.
RxLoop ==
    /\ ~crashed
    /\ receiver = "loop"
    /\ IF running /\ connected
       THEN receiver' = "recv" /\ rxSock' = sockNow
       ELSE receiver' = "finished" /\ rxSock' = None
    /\ UNCHANGED connected
    /\ RxFrame

\* A text is received, also one sent just before the connection was lost.
\* The callback has it shown; what becomes of it is ChatBox's affair.
Arrived(c) == LinkIs(c, {"up", "lost"})
RxText ==
    /\ ~crashed
    /\ receiver = "recv"
    /\ Arrived(rxSock)
    /\ receiver' = "loop"
    /\ UNCHANGED <<rxSock, connected>>
    /\ RxFrame

Unreadable(c) == ~LinkIs(c, {"up"})

\* Mutant: the thread ends, and the client stays connected.
RxEndQuietly ==
    /\ ~crashed
    /\ receiver = "recv" /\ Unreadable(rxSock)
    /\ receiver' = "finished" /\ rxSock' = None
    /\ UNCHANGED connected
    /\ RxFrame

\* The connection is lost or closed; only m_connected tells.
RxEnd ==
    /\ ~crashed
    /\ receiver = "recv" /\ Unreadable(rxSock)
    /\ connected' = FALSE
    /\ receiver' = "finished" /\ rxSock' = None
    /\ RxFrame

-----------------------------------------------------------------------------
(* The audio thread *)

AudioFrame == UNCHANGED <<netVars, flags, rxVars, statusVars, op, phase,
                          crashed, overlapped>>

\* g_buffer.shouldSend(): the merge window or the duration may be over, and
\* the number of segments is bounded.
MaySend(segments) == IF Len(segments) >= MergeMax THEN {TRUE} ELSE BOOLEAN

\* What stays in g_buffer after sendAudio.
NotCleared(segments) == segments    \* mutant: no g_buffer.clear()
Cleared(segments) == <<>>

\* ... and when there is nobody to send it to.
Dropped(segments) == <<>>    \* mutant: the buffer is cleared in any case
Kept(segments) == segments

\* A segment is added to the buffer; if it should be sent and the client is
\* connected, the buffer goes to sendAudio, which tests again, and is cleared.
Speak ==
    /\ ~crashed /\ phase = "up"
    /\ audio = <<>>
    /\ nextSegment <= MaxSegments
    /\ nextSegment' = nextSegment + 1
    /\ LET merged == Append(buffer, nextSegment) IN
       \E send \in MaySend(merged) :
         IF ~send \/ ~connected
         THEN buffer' = Kept(merged) /\ UNCHANGED <<audio, counted, lost>>
         ELSE /\ buffer' = Cleared(merged)
              /\ counted' = counted \cup Range(merged)
              /\ IF sockNow = None
                 THEN lost' = lost \cup Range(merged) /\ UNCHANGED audio
                 ELSE audio' = merged /\ UNCHANGED lost
    /\ UNCHANGED wire
    /\ AudioFrame

\* sendBytes reads the member again; nobody looks at its result.
SendBytes ==
    /\ ~crashed
    /\ audio # <<>>
    /\ IF LinkIs(sockNow, {"up"})
       THEN wire' = wire \o audio /\ UNCHANGED lost
       ELSE lost' = lost \cup Range(audio) /\ UNCHANGED wire
    /\ audio' = <<>>
    /\ UNCHANGED <<nextSegment, buffer, counted>>
    /\ AudioFrame

-----------------------------------------------------------------------------
(* The cable (environment) *)

ConnectionLost ==
    /\ ~crashed
    /\ LinkIs(sockNow, {"up"})
    /\ link' = [link EXCEPT ![sockNow] = "lost"]
    /\ UNCHANGED <<sockNow, made, flags, rxVars, statusVars,
                   audioVars, op, phase, crashed, overlapped>>

-----------------------------------------------------------------------------
Caller(p) ==
    \/ Disconnect(p) \/ CloseSocket(p) \/ JoinReceiver(p) \/ JoinedReceiver(p)
    \/ JoinLate(p) \/ Unflag(p)
    \/ MakeSocket(p) \/ NoSocket(p) \/ ConnectOk(p) \/ ConnectFails(p)
    \/ SetFlags(p) \/ SpawnReceiver(p) \/ TaskDone(p)
Receiver == RxLoop \/ RxText \/ RxEnd

Ended ==
    /\ crashed \/ phase = "done"
    /\ UNCHANGED vars

Next ==
    \/ \E p \in Callers : Caller(p)
    \/ \E p \in Tasks : Reconnect(p)
    \/ MainConnected
    \/ MainStops
    \/ MainStopped
    \/ Receiver
    \/ Speak
    \/ SendBytes
    \/ ConnectionLost
    \/ Ended

\* A text comes or not; only so many are on the way when a connection is lost.
Fairness ==
    /\ \A p \in Callers : WF_vars(Caller(p))
    /\ WF_vars(MainConnected)
    /\ WF_vars(MainStopped)
    /\ WF_vars(RxLoop) /\ SF_vars(RxEnd)
    /\ WF_vars(SendBytes)

Spec == Init /\ [][Next]_vars /\ Fairness

-----------------------------------------------------------------------------
(* Properties *)

\* Nobody is in connect or disconnect.
Settled == \A p \in Callers : op[p] = "idle"

\* The process survives every reconnect that no other caller overlaps: no
\* thread is assigned to m_receiveThread before the old one is joined.
CrashNeedsOverlap == crashed => overlapped

\* Between calls that did not overlap, the flags, the socket and the thread
\* belong together: a connected client has a receive thread on its socket, and
\* a thread that is joinable makes disconnect() not return early.
LinkConsistent ==
    Settled /\ ~overlapped =>
        /\ connected => /\ sockNow # None
                        /\ link[sockNow] \in {"up", "lost"}
                        /\ receiver \in {"loop", "recv"}
        /\ receiver # "none" => running
        /\ receiver = "recv" => rxSock = sockNow

\* Calls that did not overlap leave no socket behind.
NoSocketLeaked ==
    ~overlapped =>
        {c \in Conn : link[c] \in {"connecting", "up", "lost"}} \subseteq {sockNow}

\* Between such calls the status page does not call a connected client
\* disconnected or busy, and texts that arrive are shown.
StatusConsistent ==
    Settled /\ ~overlapped =>
        /\ ~reconnecting
        /\ connected => phoneConnected /\ callbackSet

\* A client that no two callers used at once is in order between the calls.
LinkSound == LinkConsistent /\ NoSocketLeaked /\ StatusConsistent

\* Segments reach the phone in the order of speech and each once, whatever is
\* reconnected while they are merged and sent.
WireInOrder ==
    \A i, j \in 1..Len(wire) : i < j => wire[i] < wire[j]

\* A spoken segment is in the buffer, being sent, or counted; a counted one is
\* on the wire unless a connection broke or was closed.
SegmentsAccountedFor ==
    /\ 1..(nextSegment - 1) = Range(buffer) \cup counted
    /\ Range(buffer) \cap counted = {}
    /\ counted = Range(wire) \cup Range(audio) \cup lost
    /\ Range(wire) \cap lost = {}
    /\ lost # {} => overlapped \/ \E c \in Conn : link[c] \in {"lost", "closed"}

\* A reconnect comes to an end, and so does the shutdown: closing the socket
\* wakes the receive thread whatever it was doing, so that it can be joined.
\* When calls overlap, a socket may be left open that nobody can close.
CallsEnd == []<>(Settled \/ overlapped)

\* A lost connection is noticed, or given up by a reconnect: isConnected()
\* does not stay TRUE on it.
LossNoticed == []<>(~LinkIs(sockNow, {"lost"}) \/ ~connected \/ overlapped)

=============================================================================
