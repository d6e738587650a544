------------------------------ MODULE PhoneServer ------------------------------
(***************************************************************************)
(* The phone's recognition server: NetworkServer (network.cpp), the        *)
(* AudioJobQueue between it and the recognizer, the recognizer's worker    *)
(* (recognizeOneAudio) and the engine thread that starts and stops them    *)
(* (runEngine in jni_bridge.cpp).                                          *)
(*                                                                         *)
(* Four threads share m_clientSocket (m_clientMutex), m_clientThread       *)
(* (unguarded), the waiting flag (m_responseMutex) and the job queue (its  *)
(* own mutex).  An action is one critical section or one blocking call.    *)
(*                                                                         *)
(*   accept thread   accept -> closeOld -> join -> install -> spawn        *)
(*   client thread   loop -> recv -> mark -> push -> loop ... -> enter     *)
(*                   -> await -> close -> finished                         *)
(*   worker          idle <-> busy, exited                                 *)
(*   engine thread   start -> serve -> take -> joinClient -> joinAccept    *)
(*                   -> joinWorker -> destroy -> stopped                   *)
(*                                                                         *)
(* The PC is the environment: it connects, sends segments (all of them     *)
(* final: sendAudio is only called that way) and closes.  Sockets are      *)
(* named by their connection; their numbers are not reused in the model.   *)
(* The 15 s of wait_for are not measured: the timeout may come at any time *)
(* of the wait, and comes in the end.                                      *)
(***************************************************************************)
EXTENDS Integers, SequencesExt, FiniteSets

CONSTANTS MaxConns,    \* bound of the model: connections the PC makes
          MaxSegments, \* bound of the model: segments the PC sends
          Capacity,    \* of the job queue; runEngine gives it 1
          WireId       \* the id a segment carries: the PC counts from 1, and
                       \* counts again from 1 when it is started again

ASSUME ServerAssumption ==
    /\ MaxConns \in Nat
    /\ MaxSegments \in Nat
    /\ Capacity \in Nat \ {0}
    /\ WireId \in [1..MaxSegments -> Nat \ {0}]

Conn == 1..MaxConns
Segment == 1..MaxSegments
None == 0

VARIABLES sock,        \* per connection, its state at the phone
          peerClosed,  \* connections the PC has closed
          inbox,       \* segments on their way to the phone
          lastConn,    \* the PC's latest connection
          nextSegment, \* the next segment of the PC
          running,     \* m_running
          listening,   \* the server socket is open
          current,     \* m_clientSocket
          acceptPc, acceptConn,            \* accept thread
          clientPc, clientConn, clientSeg, \* client thread (m_clientThread)
          waiting,     \* m_waitingFinalResponse
          pendingId,   \* m_pendingFinalSegmentId
          jobs,        \* AudioJobQueue::m_queue
          jobsStopped, \* AudioJobQueue::m_stopped
          worker, job, \* worker thread and what it works on
          engine,      \* engine thread
          crashed,     \* std::terminate was called
          received,    \* history: segments received
          answered,    \* history: segments answered, in order
          latest       \* history: the last segment received

pcVars     == <<peerClosed, inbox, lastConn, nextSegment>>
netVars    == <<running, listening, current>>
acceptVars == <<acceptPc, acceptConn>>
clientVars == <<clientPc, clientConn, clientSeg>>
waitVars   == <<waiting, pendingId>>
jobVars    == <<jobs, jobsStopped>>
workVars   == <<worker, job>>
history    == <<received, answered, latest>>
vars == <<sock, pcVars, netVars, acceptVars, clientVars, waitVars, jobVars,
          workVars, engine, crashed, history>>

TypeOK ==
    /\ sock \in [Conn -> {"free", "backlog", "open", "closed"}]
    /\ peerClosed \in SUBSET Conn
    /\ inbox \in [Conn -> Seq(Segment)]
    /\ lastConn \in Conn \cup {None}
    /\ nextSegment \in 1..(MaxSegments + 1)
    /\ running \in BOOLEAN /\ listening \in BOOLEAN
    /\ current \in Conn \cup {None}
    /\ acceptPc \in {"none", "accept", "closeOld", "join", "joining",
                     "install", "spawn", "exited"}
    /\ acceptConn \in Conn \cup {None}
    /\ clientPc \in {"none", "loop", "recv", "mark", "push", "enter", "await",
                     "close", "finished"}
    /\ clientConn \in Conn \cup {None}
    /\ clientSeg \in Segment \cup {None}
    /\ waiting \in BOOLEAN
    /\ pendingId \in Nat
    /\ jobs \in Seq(Segment) /\ Len(jobs) <= Capacity
    /\ jobsStopped \in BOOLEAN
    /\ worker \in {"none", "idle", "busy", "exited"}
    /\ job \in Segment \cup {None}
    /\ engine \in {"start", "serve", "take", "joinClient", "joiningClient",
                   "joinAccept", "stopJobs", "joinWorker", "destroy",
                   "stopped"}
    /\ crashed \in BOOLEAN
    /\ received \in SUBSET Segment /\ answered \in Seq(Segment)
    /\ latest \in Segment \cup {None}

Init ==
    /\ sock = [c \in Conn |-> "free"]
    /\ peerClosed = {}
    /\ inbox = [c \in Conn |-> <<>>]
    /\ lastConn = None /\ nextSegment = 1
    /\ running = FALSE /\ listening = FALSE /\ current = None
    /\ acceptPc = "none" /\ acceptConn = None
    /\ clientPc = "none" /\ clientConn = None /\ clientSeg = None
    /\ waiting = FALSE /\ pendingId = 0
    /\ jobs = <<>> /\ jobsStopped = FALSE
    /\ worker = "idle" /\ job = None
    /\ engine = "start"
    /\ crashed = FALSE
    /\ received = {} /\ answered = <<>> /\ latest = None

-----------------------------------------------------------------------------
(* The PC (environment) *)

PcConnect ==
    /\ ~crashed /\ listening
    /\ lastConn < MaxConns
    /\ lastConn' = lastConn + 1
    /\ sock' = [sock EXCEPT ![lastConn + 1] = "backlog"]
    /\ UNCHANGED <<peerClosed, inbox, nextSegment, netVars, acceptVars,
                   clientVars, waitVars, jobVars, workVars, engine, crashed,
                   history>>

\* The PC sends on its latest connection only.
PcSend ==
    /\ ~crashed
    /\ lastConn # None /\ lastConn \notin peerClosed
    /\ sock[lastConn] \in {"backlog", "open"}
    /\ nextSegment <= MaxSegments
    /\ inbox' = [inbox EXCEPT ![lastConn] = Append(@, nextSegment)]
    /\ nextSegment' = nextSegment + 1
    /\ UNCHANGED <<sock, peerClosed, lastConn, netVars, acceptVars, clientVars,
                   waitVars, jobVars, workVars, engine, crashed, history>>

PcClose ==
    /\ ~crashed
    /\ lastConn # None /\ lastConn \notin peerClosed
    /\ peerClosed' = peerClosed \cup {lastConn}
    /\ UNCHANGED <<sock, inbox, lastConn, nextSegment, netVars, acceptVars,
                   clientVars, waitVars, jobVars, workVars, engine, crashed,
                   history>>

-----------------------------------------------------------------------------
(* acceptThread *)

\* The thread goes from one statement to another.
AcceptStep(from, to) ==
    /\ ~crashed
    /\ acceptPc = from /\ acceptPc' = to
    /\ UNCHANGED <<pcVars, running, listening, clientSeg, waitVars, jobVars,
                   workVars, engine, history>>

\* The oldest connection of the backlog.
Backlog == {c \in Conn : sock[c] = "backlog"}

Accept ==
    /\ AcceptStep("accept", "closeOld")
    /\ Backlog # {}
    /\ LET c == CHOOSE c \in Backlog : \A d \in Backlog : c <= d IN
       /\ acceptConn' = c
       /\ sock' = [sock EXCEPT ![c] = "open"]
    /\ UNCHANGED <<current, clientPc, clientConn, crashed>>

\* accept fails because stop() closed the server socket: the loop ends.
AcceptExit ==
    /\ AcceptStep("accept", "exited")
    /\ ~listening /\ ~running
    /\ UNCHANGED <<sock, current, acceptConn, clientPc, clientConn, crashed>>

\* shutdown and close of m_clientSocket, if there is one.
LeftOpen == sock    \* mutant: the old socket is not closed
ClosedCurrent ==
    IF current = None THEN sock ELSE [sock EXCEPT ![current] = "closed"]

\* A new connection replaces the one that is being served.
CloseOld ==
    /\ AcceptStep("closeOld", "join")
    /\ sock' = ClosedCurrent
    /\ current' = None
    /\ UNCHANGED <<acceptConn, clientPc, clientConn, crashed>>

\* Mutant: the thread is joined without asking whether it is joinable, which
\* throws for the first connection.
AcceptJoinUnchecked ==
    /\ AcceptStep("join", "joining")
    /\ crashed' = (clientPc = "none" \/ engine = "joiningClient")
    /\ UNCHANGED <<sock, current, acceptConn, clientPc, clientConn>>

\* m_clientThread.join() by a thread while the other one is in it already:
\* the second pthread_join fails, join throws and nobody catches.
AcceptJoin ==
    /\ AcceptStep("join", IF clientPc = "none" THEN "install" ELSE "joining")
    /\ crashed' = (clientPc # "none" /\ engine = "joiningClient")
    /\ UNCHANGED <<sock, current, acceptConn, clientPc, clientConn>>

AcceptJoined ==
    /\ AcceptStep("joining", "install")
    /\ clientPc = "finished"
    /\ clientPc' = "none" /\ clientConn' = None
    /\ UNCHANGED <<sock, current, acceptConn, crashed>>

Install ==
    /\ AcceptStep("install", "spawn")
    /\ current' = acceptConn
    /\ UNCHANGED <<sock, acceptConn, clientPc, clientConn, crashed>>

\* The client thread is started, and the loop is taken again if m_running.
Spawn ==
    /\ AcceptStep("spawn", IF running THEN "accept" ELSE "exited")
    /\ clientPc' = "loop" /\ clientConn' = acceptConn
    /\ acceptConn' = None
    /\ UNCHANGED <<sock, current, crashed>>

-----------------------------------------------------------------------------
(* clientThread *)

\* The thread goes from one statement to another, ...
ClientStep(from, to) ==
    /\ ~crashed
    /\ clientPc = from /\ clientPc' = to
    /\ UNCHANGED <<peerClosed, lastConn, nextSegment, running, listening,
                   acceptVars, clientConn, workVars, engine, crashed>>

\* ... and changes nothing else.
ClientGoes(from, to) ==
    /\ ClientStep(from, to)
    /\ UNCHANGED <<sock, inbox, current, clientSeg, waitVars, jobVars, history>>

\* The loop condition; m_running is not looked at during recv.
ClientLoop ==
    ClientGoes("loop", IF running THEN "recv" ELSE "close")

\* A frame arrived: header and payload are read.  A socket that was closed
\* under the thread yields nothing any more.
Recv ==
    /\ ClientStep("recv", "mark")
    /\ sock[clientConn] = "open" /\ inbox[clientConn] # <<>>
    /\ clientSeg' = Head(inbox[clientConn])
    /\ inbox' = [inbox EXCEPT ![clientConn] = Tail(@)]
    /\ UNCHANGED <<sock, current, waitVars, jobVars, history>>

\* markPendingFinalSegment(segment_id)
Mark ==
    /\ ClientStep("mark", "push")
    /\ waiting' = TRUE
    /\ pendingId' = WireId[clientSeg]
    /\ received' = received \cup {clientSeg}
    /\ latest' = clientSeg
    /\ UNCHANGED <<sock, inbox, current, clientSeg, jobVars, answered>>

\* tryPush refuses a job when the queue is stopped or full.
Full == jobsStopped \/ Len(jobs) >= Capacity

\* The audio callback: tryPush, which drops the segment when the queue is
\* full or stopped.
Push ==
    /\ ClientStep("push", "loop")
    /\ jobs' = IF Full THEN jobs ELSE Append(jobs, clientSeg)
    /\ clientSeg' = None
    /\ UNCHANGED <<sock, inbox, current, waitVars, jobsStopped, history>>

\* recv finds the connection closed by either side, which ends the loop; what
\* the PC sent before may be lost with a reset.
RecvEnd ==
    /\ ClientGoes("recv", IF waiting THEN "enter" ELSE "close")
    /\ sock[clientConn] = "closed" \/ clientConn \in peerClosed

\* wait_for(15 s) tests its predicate on entry, ...
EnterWait ==
    ClientGoes("enter", IF waiting /\ running THEN "await" ELSE "close")

\* ... and when notifySegmentSent wakes it (stop() does not).
Notified ==
    /\ ClientGoes("await", "close")
    /\ ~waiting

\* Mutant: wait instead of wait_for.
NoTimeout == FALSE /\ UNCHANGED vars

WaitTimeout ==
    ClientGoes("await", "close")

\* closeClientIfCurrent(clientSocket), and the thread's end.
CloseIfCurrent ==
    /\ ClientStep("close", "finished")
    /\ IF current = clientConn
       THEN current' = None /\ sock' = [sock EXCEPT ![clientConn] = "closed"]
       ELSE UNCHANGED <<current, sock>>
    /\ UNCHANGED <<inbox, clientSeg, waitVars, jobVars, history>>

-----------------------------------------------------------------------------
(* The recognizer's worker *)

WorkerStep(from, to) ==
    /\ ~crashed
    /\ worker = from /\ worker' = to
    /\ UNCHANGED <<sock, pcVars, netVars, acceptVars, clientVars, jobsStopped,
                   engine, crashed>>

\* The queue after pop_front.
NotPopped == jobs    \* mutant: the job is read, not removed
Popped == Tail(jobs)

\* waitPop: a stopped queue still hands out what it holds.
WaitPop ==
    /\ WorkerStep("idle", "busy")
    /\ jobs # <<>>
    /\ job' = Head(jobs) /\ jobs' = Popped
    /\ UNCHANGED <<waitVars, history>>

WorkerExit ==
    /\ WorkerStep("idle", "exited")
    /\ jobs = <<>> /\ jobsStopped
    /\ UNCHANGED <<job, jobs, waitVars, history>>

\* Too short, not recognised, or nothing heard: no answer.
NoAnswer ==
    /\ WorkerStep("busy", "idle") /\ job' = None
    /\ UNCHANGED <<jobs, waitVars, history>>

\* notifySegmentSent(segmentId): this answer is the one that is waited for.
SettlesAny(segment) == waiting    \* mutant: any answer ends the wait
Settles(segment) == waiting /\ WireId[segment] = pendingId

\* sendText on whatever connection is current; it is lost when there is none,
\* and send() may fail (sent = FALSE) when the PC is gone.
SendText(sent) ==
    /\ WorkerStep("busy", "idle") /\ job' = None
    /\ sent => current # None
    /\ ~sent => current = None \/ current \in peerClosed
    /\ IF sent
       THEN /\ answered' = Append(answered, job)
            /\ IF Settles(job)
               THEN waiting' = FALSE /\ pendingId' = 0
               ELSE UNCHANGED waitVars
       ELSE UNCHANGED <<answered, waitVars>>
    /\ UNCHANGED <<jobs, received, latest>>

-----------------------------------------------------------------------------
(* The engine thread: runEngine from the worker's creation on *)

\* The thread goes from one statement to another, ...
EngineStep(from, to) ==
    /\ ~crashed
    /\ engine = from /\ engine' = to
    /\ UNCHANGED <<pcVars, acceptConn, clientSeg, waitVars, jobs, workVars,
                   history>>

\* ... and changes nothing else.
EngineGoes(from, to) ==
    /\ EngineStep(from, to)
    /\ UNCHANGED <<sock, netVars, acceptPc, clientPc, clientConn, jobsStopped,
                   crashed>>

ServerStart ==
    /\ EngineStep("start", "serve")
    /\ running' = TRUE /\ listening' = TRUE
    /\ acceptPc' = "accept"
    /\ UNCHANGED <<sock, current, clientPc, clientConn, jobsStopped, crashed>>

\* The port is taken: runEngine returns, and the destructor of the worker's
\* std::thread, which nobody joined, calls std::terminate.
ServerStartFails ==
    /\ EngineStep("start", "stopped")
    /\ crashed' = TRUE
    /\ UNCHANGED <<sock, netVars, acceptPc, clientPc, clientConn, jobsStopped>>

\* g_running is found FALSE.  server.stop(): m_running, and the server socket
\* with what waits in its backlog.
StopServer ==
    /\ EngineStep("serve", "take")
    /\ running' = FALSE /\ listening' = FALSE
    /\ sock' = [c \in Conn |-> IF sock[c] = "backlog" THEN "closed" ELSE sock[c]]
    /\ UNCHANGED <<current, acceptPc, clientPc, clientConn, jobsStopped, crashed>>

TakeClient ==
    /\ EngineStep("take", "joinClient")
    /\ sock' = ClosedCurrent
    /\ current' = None
    /\ UNCHANGED <<running, listening, acceptPc, clientPc, clientConn,
                   jobsStopped, crashed>>

JoinClient ==
    /\ EngineStep("joinClient", IF clientPc = "none" THEN "joinAccept"
                                                    ELSE "joiningClient")
    /\ crashed' = (clientPc # "none" /\ acceptPc = "joining")
    /\ UNCHANGED <<sock, netVars, acceptPc, clientPc, clientConn, jobsStopped>>

JoinedClient ==
    /\ EngineStep("joiningClient", "joinAccept")
    /\ clientPc = "finished"
    /\ clientPc' = "none" /\ clientConn' = None
    /\ UNCHANGED <<sock, netVars, acceptPc, jobsStopped, crashed>>

JoinAccept ==
    /\ EngineGoes("joinAccept", "stopJobs")
    /\ acceptPc = "exited"

StopJobs ==
    /\ EngineStep("stopJobs", "joinWorker")
    /\ jobsStopped' = TRUE
    /\ UNCHANGED <<sock, netVars, acceptPc, clientPc, clientConn, crashed>>

JoinWorker ==
    /\ EngineGoes("joinWorker", "destroy")
    /\ worker = "exited"

\* Mutant: the destructor does nothing.
DestroyOnly ==
    EngineGoes("destroy", "stopped")

\* ~NetworkServer stops once more: a client thread that acceptThread started
\* behind the first stop is joined here.
Destroy ==
    /\ EngineStep("destroy", "stopped")
    /\ clientPc \in {"none", "finished"}
    /\ sock' = ClosedCurrent
    /\ current' = None
    /\ clientPc' = "none" /\ clientConn' = None
    /\ UNCHANGED <<running, listening, acceptPc, jobsStopped, crashed>>

-----------------------------------------------------------------------------
Pc == PcConnect \/ PcSend \/ PcClose
AcceptThread == \/ Accept \/ AcceptExit \/ CloseOld \/ AcceptJoin
                \/ AcceptJoined \/ Install \/ Spawn
ClientThread == \/ ClientLoop \/ Recv \/ Mark \/ Push \/ RecvEnd
                \/ EnterWait \/ Notified \/ WaitTimeout \/ CloseIfCurrent
Worker == \/ WaitPop \/ WorkerExit \/ NoAnswer
          \/ \E sent \in BOOLEAN : SendText(sent)
Starting == ServerStart \/ ServerStartFails
Stopping == \/ TakeClient \/ JoinClient \/ JoinedClient \/ JoinAccept
            \/ StopJobs \/ JoinWorker \/ Destroy

\* The engine has stopped, or the process is gone: nothing happens any more.
Ended ==
    /\ crashed \/ engine = "stopped"
    /\ UNCHANGED vars

Next ==
    \/ Pc
    \/ AcceptThread
    \/ ClientThread
    \/ Worker
    \/ Starting
    \/ StopServer
    \/ Stopping
    \/ Ended

\* Threads that can run do; whether the user stops the server is up to him.
Fairness ==
    /\ WF_vars(AcceptThread)
    /\ WF_vars(ClientThread)
    /\ WF_vars(Worker)
    /\ WF_vars(Starting)
    /\ WF_vars(Stopping)

Spec == Init /\ [][Next]_vars /\ Fairness

-----------------------------------------------------------------------------
(* Properties *)

\* The client thread waits for an answer exactly while the segment received
\* last has none: an answer to an earlier segment does not end the wait for a
\* later one, and its own answer always does.  This relies on ids that are not
\* used again, so on a PC program that is not started anew.
WaitingIffUnanswered ==
    /\ waiting <=> latest # None /\ latest \notin Range(answered)
    /\ waiting => pendingId = WireId[latest]

\* The segments are answered in order and at most once.
Contract == INSTANCE RecognitionContract
RefinesContract == Contract!RSpec

\* m_clientSocket is the descriptor of an open connection or none: sendText
\* never writes to a descriptor that was closed (and may name another file).
CurrentIsOpen == current # None => sock[current] = "open"

\* Once the engine has stopped, no connection is left open, no thread left
\* behind and no accepted segment left in the queue.
StopLeavesNothing ==
    engine = "stopped" /\ ~crashed =>
        /\ \A c \in Conn : sock[c] \in {"free", "closed"}
        /\ clientPc = "none" /\ acceptPc = "exited" /\ worker = "exited"
        /\ jobs = <<>>

\* No socket is used after it was closed, and none is left behind.
SocketsSound == CurrentIsOpen /\ StopLeavesNothing

\* Two threads join m_clientThread only when the server is stopped while a
\* connection replaces another one.
CrashNeedsReplacement ==
    crashed => listening = FALSE /\ (acceptPc = "none" \/ lastConn > 1)

\* A connection that waits is accepted or refused, although the acceptor joins
\* the thread of the one before, which may wait for an answer.
ConnectionServed ==
    \A c \in Conn :
        sock[c] = "backlog" ~> (sock[c] # "backlog" \/ crashed)

\* The stop ends, whatever the threads are doing when it begins.
StopEnds == engine = "take" ~> (engine = "stopped" \/ crashed)

\* runEngine reports a port it cannot bind as the error "server start failed"
\* instead of ending the process.
StartFailureReported == engine = "stopped" /\ acceptPc = "none" => ~crashed

=============================================================================
