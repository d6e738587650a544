--------------------------- MODULE PhoneServer_proofs ---------------------------
(***************************************************************************)
(* Proofs about the phone's recognition server, for any number of          *)
(* connections and segments and any capacity of the queue.                 *)
(***************************************************************************)
EXTENDS PhoneServer, SequenceFacts, WellFoundedInduction, TLAPS

(* Threads: who runs when, and who may join whom. *)

\* The acceptor has a connection in its hands, and before it has joined the
\* old client thread.
Holding == {"closeOld", "join", "joining", "install", "spawn"}

ThreadInv ==
    /\ acceptPc \in Holding <=> acceptConn # None
    /\ acceptPc \in {"install", "spawn"} => clientPc = "none"
    /\ clientPc # "none" <=> clientConn # None
    /\ clientPc \in {"mark", "push"} <=> clientSeg # None
    /\ worker = "busy" <=> job # None
    /\ worker # "none"
    /\ worker = "exited" => jobs = <<>> /\ jobsStopped
    /\ engine = "start" => acceptPc = "none" /\ ~crashed
    /\ acceptPc = "none" => ~listening /\ clientPc = "none" /\ lastConn = None
    /\ acceptPc = "none" => engine = "start" \/ (engine = "stopped" /\ crashed)
    /\ listening <=> running
    /\ running <=> engine = "serve"
    /\ acceptPc = "exited" => ~running
    /\ engine \in {"stopJobs", "joinWorker", "destroy"} => acceptPc = "exited"
    /\ jobsStopped => engine \in {"joinWorker", "destroy", "stopped"}
    /\ engine = "joinWorker" => jobsStopped
    /\ engine = "destroy" => worker = "exited"
    /\ engine = "stopped" /\ ~crashed =>
          acceptPc = "exited" /\ clientPc = "none" /\ worker = "exited" /\ current = None

\* Two threads join the client thread at once only while one connection
\* replaces another.
CrashInv == crashed => ~listening /\ (acceptPc = "none" \/ lastConn > 1)

(* Sockets: the open ones are current or still in the acceptor's hands. *)
SocketInv ==
    /\ \A c \in Conn : c > lastConn <=> sock[c] = "free"
    /\ \A c \in Conn : sock[c] = "backlog" => listening
    /\ current # None => sock[current] = "open"
    /\ acceptPc \in {"join", "joining", "install"} => current = None
    /\ acceptPc \in Holding \ {"spawn"} => sock[acceptConn] = "open" /\ acceptConn # current
    /\ acceptPc = "spawn" => current \in {acceptConn, None}
    /\ \A c \in Conn : sock[c] = "open" =>
          c = current \/ (c = acceptConn /\ acceptPc # "spawn")

(* Connections are served in the order in which they were made. *)
TurnInv ==
    /\ clientConn # None /\ acceptConn # None => clientConn < acceptConn
    /\ \A c \in Backlog : clientConn < c /\ acceptConn < c
    /\ clientConn <= lastConn /\ acceptConn <= lastConn

\* Connections whose segments may still be received.
Ahead == {c \in Conn : sock[c] \in {"free", "backlog"} \/ c \in {acceptConn, clientConn}}

(* Segments: received in the order of speech, and further on in that order. *)
InboxInv ==
    /\ \A c \in Conn : InOrder(inbox[c])
    /\ \A c \in Conn : c > lastConn => inbox[c] = <<>>
    /\ \A c, d \in Conn : c < d =>
          \A e \in Range(inbox[c]), f \in Range(inbox[d]) : e < f
    /\ \A c \in Conn : \A e \in Range(inbox[c]) : e < nextSegment
    /\ \A c \in Ahead : \A r \in received, e \in Range(inbox[c]) : r < e
    /\ clientSeg # None =>
          \A c \in Ahead : \A e \in Range(inbox[c]) : clientSeg < e
    /\ clientSeg # None => clientSeg < nextSegment

ReceivedInv ==
    /\ \A r \in received : r < nextSegment /\ r <= latest
    /\ latest # None => latest \in received
    /\ clientPc = "mark" => \A r \in received : r < clientSeg
    /\ clientPc = "push" => clientSeg = latest

\* Queue, worker and answers hold received segments in their order.
PipelineInv ==
    /\ Range(jobs) \subseteq received /\ Range(answered) \subseteq received
    /\ job # None => job \in received
    /\ InOrder(jobs)
    /\ job # None => \A j \in Range(jobs) : job < j
    /\ \A a \in Range(answered) : (job # None => a < job) /\ \A j \in Range(jobs) : a < j
    /\ clientPc = "push" =>
          /\ clientSeg \notin Range(jobs) /\ clientSeg \notin Range(answered)
          /\ clientSeg # job

ServerInv ==
    /\ TypeOK /\ ThreadInv /\ CrashInv /\ SocketInv /\ TurnInv
    /\ InboxInv /\ ReceivedInv /\ PipelineInv

-----------------------------------------------------------------------------
\* Conn has a least element in each of its subsets that has any.
LEMMA LeastExists ==
    ASSUME NEW S \in SUBSET Nat, S # {}
    PROVE  \E x \in S : \A y \in S : x <= y
<1> DEFINE Less == OpToRel(<, Nat)
<1>1. IsWellFoundedOn(Less, Nat)
  BY NatLessThanWellFounded DEF OpToRel
<1>2. \A x, y \in S : y < x => <<y, x>> \in Less
  BY DEF OpToRel
<1>3. \A x \in S : x \in Int
  OBVIOUS
<1> HIDE DEF Less
<1>4. PICK x \in S : \A y \in S : ~(<<y, x>> \in Less)
  BY <1>1, WFMin
<1>5. \A y \in S : ~(y < x)
  BY <1>2, <1>4
<1>6. \A y \in S : x <= y
  BY <1>3, <1>5
<1> QED
  BY <1>6

\* The acceptor takes the connection that has waited longest.
LEMMA OldestInBacklog ==
    ASSUME Backlog # {}
    PROVE  LET c == CHOOSE c \in Backlog : \A d \in Backlog : c <= d
           IN  c \in Backlog /\ \A d \in Backlog : c <= d
<1>1. Backlog \in SUBSET Nat
  BY ServerAssumption DEF Backlog, Conn
<1>2. \E c \in Backlog : \A d \in Backlog : c <= d
  BY <1>1, LeastExists
<1> QED
  BY <1>2

LEMMA SegmentNat == Segment \in SUBSET Nat /\ \A s \in Segment : s \in Int
BY ServerAssumption DEF Segment

LEMMA InitInv == Init => ServerInv
<1> SUFFICES ASSUME Init PROVE ServerInv
  OBVIOUS
<1> USE ServerAssumption DEF Init, None
<1>1. TypeOK
  <2>1. <<>> \in Seq(Segment) /\ Len(<<>>) <= Capacity
    OBVIOUS
  <2>2. nextSegment \in 1..(MaxSegments + 1)
    OBVIOUS
  <2> QED
    BY <2>1, <2>2 DEF TypeOK
<1>2. ThreadInv /\ CrashInv
  BY DEF ThreadInv, CrashInv, Holding
<1>3. SocketInv /\ TurnInv
  BY DEF SocketInv, TurnInv, Backlog, Conn, Holding
<1>4. InboxInv /\ ReceivedInv /\ PipelineInv
  <2>1. Range(<<>>) = {} /\ InOrder(<<>>)
    BY EmptyFacts
  <2> QED
    BY <2>1 DEF InboxInv, ReceivedInv, PipelineInv
<1> QED
  BY <1>1, <1>2, <1>3, <1>4 DEF ServerInv


-----------------------------------------------------------------------------
\* An answer is sent, or it is not.
LEMMA SendTextFacts ==
    ASSUME \E sent \in BOOLEAN : SendText(sent)
    PROVE  /\ WorkerStep("busy", "idle") /\ job' = None
           /\ UNCHANGED <<jobs, received, latest>>
           /\ \/ /\ answered' = Append(answered, job)
                 /\ \/ Settles(job) /\ waiting' = FALSE /\ pendingId' = 0
                    \/ ~Settles(job) /\ UNCHANGED waitVars
              \/ UNCHANGED answered /\ UNCHANGED waitVars
<1>1. CASE SendText(TRUE)
  BY <1>1 DEF SendText
<1>2. CASE SendText(FALSE)
  BY <1>2 DEF SendText
<1> QED
  BY <1>1, <1>2

(* The values of the variables. *)
LEMMA NextType ==
    ASSUME TypeOK, ThreadInv, [Next]_vars
    PROVE  TypeOK'
<1> USE ServerAssumption
    DEF TypeOK, None, pcVars, netVars, acceptVars, clientVars, waitVars, jobVars, workVars, history
<1>1. CASE PcConnect
  <2>1. lastConn + 1 \in Conn
    BY <1>1 DEF PcConnect, Conn
  <2> QED
    BY <1>1, <2>1 DEF PcConnect
<1>2. CASE PcSend
  <2>1. lastConn \in Conn /\ nextSegment \in Segment /\ nextSegment + 1 \in 1..(MaxSegments + 1)
    BY <1>2 DEF PcSend, Segment
  <2>2. Append(inbox[lastConn], nextSegment) \in Seq(Segment)
    BY <2>1
  <2>3. inbox' \in [Conn -> Seq(Segment)] /\ nextSegment' \in 1..(MaxSegments + 1)
    BY <1>2, <2>1, <2>2 DEF PcSend
  <2> QED
    BY <1>2, <2>3 DEF PcSend
<1>3. CASE PcClose
  BY <1>3 DEF PcClose
<1>4. CASE Accept
  <2>1. PICK c \in Backlog : acceptConn' = c /\ sock' = [sock EXCEPT ![c] = "open"]
    BY <1>4, OldestInBacklog DEF Accept
  <2>2. /\ acceptConn' \in Conn
        /\ sock' \in [Conn -> {"free", "backlog", "open", "closed"}]
    BY <2>1 DEF Backlog
  <2>3. AcceptStep("accept", "closeOld") /\ UNCHANGED <<current, clientPc, clientConn, crashed>>
    BY <1>4 DEF Accept
  <2> QED
    BY <2>1, <2>2, <2>3 DEF AcceptStep
<1>5. CASE AcceptExit
  BY <1>5 DEF AcceptExit, AcceptStep
<1>6. CASE CloseOld
  BY <1>6 DEF CloseOld, AcceptStep, ClosedCurrent
<1>7. CASE AcceptJoin
  BY <1>7 DEF AcceptJoin, AcceptStep
<1>8. CASE AcceptJoined
  BY <1>8 DEF AcceptJoined, AcceptStep
<1>9. CASE Install
  BY <1>9 DEF Install, AcceptStep
<1>10. CASE Spawn
  BY <1>10 DEF Spawn, AcceptStep
<1>11. CASE ClientLoop
  BY <1>11 DEF ClientLoop, ClientStep, ClientGoes
<1>12. CASE Recv
  <2>1. clientConn \in Conn
    BY <1>12 DEF Recv, ClientStep, ThreadInv
  <2>2. Head(inbox[clientConn]) \in Segment /\ Tail(inbox[clientConn]) \in Seq(Segment)
    BY <1>12, <2>1, TailFacts DEF Recv
  <2>3. clientSeg' \in Segment /\ inbox' \in [Conn -> Seq(Segment)]
    BY <1>12, <2>1, <2>2 DEF Recv
  <2> QED
    BY <1>12, <2>3 DEF Recv, ClientStep
<1>13. CASE Mark
  <2>1. clientSeg \in Segment
    BY <1>13 DEF Mark, ClientStep, ThreadInv
  <2>2. WireId[clientSeg] \in Nat
    BY <2>1 DEF Segment
  <2>3. waiting' \in BOOLEAN /\ pendingId' \in Nat /\ received' \in SUBSET Segment /\ latest' \in Segment
    BY <1>13, <2>1, <2>2 DEF Mark
  <2> QED
    BY <1>13, <2>3 DEF Mark, ClientStep
<1>14. CASE Push
  <2>1. clientSeg \in Segment
    BY <1>14 DEF Push, ClientStep, ThreadInv
  <2>2. jobs' = jobs \/ (jobs' = Append(jobs, clientSeg) /\ Len(jobs) < Capacity)
    BY <1>14 DEF Push, Full
  <2>3. jobs' \in Seq(Segment) /\ Len(jobs') <= Capacity
    <3>1. CASE jobs' = jobs
      BY <3>1
    <3>2. CASE jobs' = Append(jobs, clientSeg) /\ Len(jobs) < Capacity
      <4>1. jobs' \in Seq(Segment) /\ Len(jobs') = Len(jobs) + 1 /\ Len(jobs) \in Nat
        BY <2>1, <3>2
      <4> QED
        BY <3>2, <4>1
    <3> QED
      BY <2>2, <3>1, <3>2
  <2> QED
    BY <1>14, <2>3 DEF Push, ClientStep
<1>15. CASE RecvEnd
  BY <1>15 DEF RecvEnd, ClientStep, ClientGoes
<1>16. CASE EnterWait
  BY <1>16 DEF EnterWait, ClientStep, ClientGoes
<1>17. CASE Notified
  BY <1>17 DEF Notified, ClientStep, ClientGoes
<1>18. CASE WaitTimeout
  BY <1>18 DEF WaitTimeout, ClientStep, ClientGoes
<1>19. CASE CloseIfCurrent
  <2>1. sock' \in [Conn -> {"free", "backlog", "open", "closed"}] /\ current' \in Conn \cup {None}
    BY <1>19 DEF CloseIfCurrent
  <2>2. ClientStep("close", "finished") /\ UNCHANGED <<inbox, clientSeg, waitVars, jobVars, history>>
    BY <1>19 DEF CloseIfCurrent
  <2> QED
    BY <2>1, <2>2 DEF ClientStep
<1>20. CASE WaitPop
  <2>1. job' \in Segment /\ jobs' \in Seq(Segment) /\ Len(jobs') <= Capacity
    BY <1>20, TailFacts DEF WaitPop, Popped
  <2> QED
    BY <1>20, <2>1 DEF WaitPop, WorkerStep
<1>21. CASE WorkerExit
  BY <1>21 DEF WorkerExit, WorkerStep
<1>22. CASE NoAnswer
  BY <1>22 DEF NoAnswer, WorkerStep
<1>23. CASE \E sent \in BOOLEAN : SendText(sent)
  <2>1. /\ WorkerStep("busy", "idle") /\ job' = None
        /\ UNCHANGED <<jobs, received, latest>>
        /\ answered' = answered \/ answered' = Append(answered, job)
        /\ UNCHANGED waitVars \/ (waiting' = FALSE /\ pendingId' = 0)
    BY <1>23, SendTextFacts
  <2>2. job \in Segment
    BY <2>1 DEF WorkerStep, ThreadInv
  <2>3. answered' \in Seq(Segment)
    <3>1. CASE answered' = answered
      BY <3>1
    <3>2. CASE answered' = Append(answered, job)
      BY <2>2, <3>2
    <3> QED
      BY <2>1, <3>1, <3>2
  <2>4. waiting' \in BOOLEAN /\ pendingId' \in Nat
    <3>1. CASE UNCHANGED waitVars
      BY <3>1
    <3>2. CASE waiting' = FALSE /\ pendingId' = 0
      BY <3>2
    <3> QED
      BY <2>1, <3>1, <3>2
  <2> QED
    BY <2>1, <2>3, <2>4 DEF WorkerStep
<1>24. CASE ServerStart
  BY <1>24 DEF ServerStart, EngineStep, EngineGoes
<1>25. CASE ServerStartFails
  BY <1>25 DEF ServerStartFails, EngineStep, EngineGoes
<1>26. CASE StopServer
  <2>1. sock' \in [Conn -> {"free", "backlog", "open", "closed"}]
    BY <1>26 DEF StopServer
  <2>2. running' \in BOOLEAN /\ listening' \in BOOLEAN
    BY <1>26 DEF StopServer
  <2>3. /\ EngineStep("serve", "take")
        /\ UNCHANGED <<current, acceptPc, clientPc, clientConn, jobsStopped, crashed>>
    BY <1>26 DEF StopServer
  <2> QED
    BY <2>1, <2>2, <2>3 DEF EngineStep
<1>27. CASE TakeClient
  BY <1>27 DEF TakeClient, EngineStep, ClosedCurrent
<1>28. CASE JoinClient
  BY <1>28 DEF JoinClient, EngineStep, EngineGoes
<1>29. CASE JoinedClient
  BY <1>29 DEF JoinedClient, EngineStep, EngineGoes
<1>30. CASE JoinAccept
  BY <1>30 DEF JoinAccept, EngineStep, EngineGoes
<1>31. CASE StopJobs
  BY <1>31 DEF StopJobs, EngineStep, EngineGoes
<1>32. CASE JoinWorker
  BY <1>32 DEF JoinWorker, EngineStep, EngineGoes
<1>33. CASE Destroy
  BY <1>33 DEF Destroy, EngineStep, ClosedCurrent
<1>34. CASE UNCHANGED vars
  BY <1>34 DEF vars
<1> QED
  BY <1>1, <1>2, <1>3, <1>4, <1>5, <1>6, <1>7, <1>8, <1>9, <1>10, <1>11, <1>12, <1>13, <1>14, <1>15, <1>16, <1>17, <1>18, <1>19, <1>20, <1>21, <1>22, <1>23, <1>24, <1>25, <1>26, <1>27, <1>28, <1>29, <1>30, <1>31, <1>32, <1>33, <1>34
     DEF Next, Pc, AcceptThread, ClientThread, Worker, Starting, Stopping, Ended


\* Who runs when.
LEMMA NextThread ==
    ASSUME TypeOK, ThreadInv, CrashInv, TurnInv, [Next]_vars
    PROVE  ThreadInv' /\ CrashInv'
<1> USE ServerAssumption
    DEF TypeOK, ThreadInv, CrashInv, Holding, None, pcVars, netVars, acceptVars, clientVars, waitVars, jobVars, workVars, history
<1>1. CASE PcConnect
  BY <1>1 DEF PcConnect
<1>2. CASE PcSend
  BY <1>2 DEF PcSend
<1>3. CASE PcClose
  BY <1>3 DEF PcClose
<1>4. CASE Accept
  <2>1. acceptConn' # None
    <3>1. acceptConn' \in Backlog
      BY <1>4, OldestInBacklog DEF Accept
    <3> QED
      BY <3>1 DEF Backlog, Conn
  <2>2. AcceptStep("accept", "closeOld") /\ UNCHANGED <<current, clientPc, clientConn, crashed>>
    BY <1>4 DEF Accept
  <2> QED
    BY <2>1, <2>2 DEF AcceptStep
<1>5. CASE AcceptExit
  BY <1>5 DEF AcceptExit, AcceptStep
<1>6. CASE CloseOld
  BY <1>6 DEF CloseOld, AcceptStep, ClosedCurrent
<1>7. CASE AcceptJoin
  <2>1. /\ acceptPc = "join" /\ acceptPc' \in {"install", "joining"} /\ ~crashed
        /\ acceptPc' = "install" => clientPc = "none"
        /\ crashed' <=> clientPc # "none" /\ engine = "joiningClient"
        /\ UNCHANGED <<listening, running, acceptConn, clientPc, clientConn, clientSeg,
                       worker, job, jobs, jobsStopped, lastConn, current, engine>>
    BY <1>7 DEF AcceptJoin, AcceptStep
  <2>2. clientPc # "none" => lastConn > 1
    BY <2>1 DEF TurnInv, Conn
  <2> QED
    BY <2>1, <2>2
<1>8. CASE AcceptJoined
  BY <1>8 DEF AcceptJoined, AcceptStep
<1>9. CASE Install
  BY <1>9 DEF Install, AcceptStep
<1>10. CASE Spawn
  BY <1>10 DEF Spawn, AcceptStep
<1>11. CASE ClientLoop
  BY <1>11 DEF ClientLoop, ClientStep, ClientGoes
<1>12. CASE Recv
  <2>1. clientConn \in Conn
    BY <1>12 DEF Recv, ClientStep
  <2>2. clientSeg' # None
    BY <1>12, <2>1, TailFacts DEF Recv, Segment
  <2> QED
    BY <1>12, <2>2 DEF Recv, ClientStep
<1>13. CASE Mark
  BY <1>13 DEF Mark, ClientStep, ClientGoes
<1>14. CASE Push
  BY <1>14 DEF Push, ClientStep, Full
<1>15. CASE RecvEnd
  BY <1>15 DEF RecvEnd, ClientStep, ClientGoes
<1>16. CASE EnterWait
  BY <1>16 DEF EnterWait, ClientStep, ClientGoes
<1>17. CASE Notified
  BY <1>17 DEF Notified, ClientStep, ClientGoes
<1>18. CASE WaitTimeout
  BY <1>18 DEF WaitTimeout, ClientStep, ClientGoes
<1>19. CASE CloseIfCurrent
  BY <1>19 DEF CloseIfCurrent, ClientStep, ClientGoes
<1>20. CASE WaitPop
  <2>1. job' # None
    BY <1>20, TailFacts DEF WaitPop, Segment
  <2> QED
    BY <1>20, <2>1 DEF WaitPop, WorkerStep
<1>21. CASE WorkerExit
  BY <1>21 DEF WorkerExit, WorkerStep
<1>22. CASE NoAnswer
  BY <1>22 DEF NoAnswer, WorkerStep
<1>23. CASE \E sent \in BOOLEAN : SendText(sent)
  <2>1. WorkerStep("busy", "idle") /\ job' = None /\ UNCHANGED <<jobs, received, latest>>
    BY <1>23, SendTextFacts
  <2> QED
    BY <2>1 DEF WorkerStep
<1>24. CASE ServerStart
  BY <1>24 DEF ServerStart, EngineStep, EngineGoes
<1>25. CASE ServerStartFails
  BY <1>25 DEF ServerStartFails, EngineStep, EngineGoes
<1>26. CASE StopServer
  BY <1>26 DEF StopServer, EngineStep, EngineGoes
<1>27. CASE TakeClient
  BY <1>27 DEF TakeClient, EngineStep, EngineGoes, ClosedCurrent
<1>28. CASE JoinClient
  <2>1. /\ engine = "joinClient" /\ engine' \in {"joinAccept", "joiningClient"} /\ ~crashed
        /\ crashed' <=> clientPc # "none" /\ acceptPc = "joining"
        /\ UNCHANGED <<listening, running, acceptPc, acceptConn, clientPc, clientConn, clientSeg,
                       worker, job, jobs, jobsStopped, lastConn, current>>
    BY <1>28 DEF JoinClient, EngineStep
  <2>2. clientPc # "none" /\ acceptPc = "joining" => lastConn > 1
    BY DEF TurnInv, Conn
  <2> QED
    BY <2>1, <2>2
<1>29. CASE JoinedClient
  BY <1>29 DEF JoinedClient, EngineStep, EngineGoes
<1>30. CASE JoinAccept
  BY <1>30 DEF JoinAccept, EngineStep, EngineGoes
<1>31. CASE StopJobs
  BY <1>31 DEF StopJobs, EngineStep, EngineGoes
<1>32. CASE JoinWorker
  BY <1>32 DEF JoinWorker, EngineStep, EngineGoes
<1>33. CASE Destroy
  BY <1>33 DEF Destroy, EngineStep, EngineGoes, ClosedCurrent
<1>34. CASE UNCHANGED vars
  BY <1>34 DEF vars
<1> QED
  BY <1>1, <1>2, <1>3, <1>4, <1>5, <1>6, <1>7, <1>8, <1>9, <1>10, <1>11, <1>12, <1>13, <1>14, <1>15, <1>16, <1>17, <1>18, <1>19, <1>20, <1>21, <1>22, <1>23, <1>24, <1>25, <1>26, <1>27, <1>28, <1>29, <1>30, <1>31, <1>32, <1>33, <1>34
     DEF Next, Pc, AcceptThread, ClientThread, Worker, Starting, Stopping, Ended


\* Which sockets are open.
LEMMA NextSocket ==
    ASSUME TypeOK, ThreadInv, SocketInv, TurnInv, [Next]_vars
    PROVE  SocketInv' /\ TurnInv'
<1> USE ServerAssumption
    DEF TypeOK, ThreadInv, SocketInv, TurnInv, Holding, None, Conn, Backlog, pcVars, netVars, acceptVars, clientVars, waitVars, jobVars, workVars, history
<1>1. CASE PcConnect
  BY <1>1 DEF PcConnect
<1>2. CASE PcSend
  BY <1>2 DEF PcSend
<1>3. CASE PcClose
  BY <1>3 DEF PcClose
<1>4. CASE Accept
  <2> HIDE DEF Backlog
  <2>1. PICK c \in Backlog : /\ acceptConn' = c /\ sock' = [sock EXCEPT ![c] = "open"]
                             /\ \A d \in Backlog : c <= d
    BY <1>4, OldestInBacklog DEF Accept
  <2>2. AcceptStep("accept", "closeOld") /\ UNCHANGED <<current, clientPc, clientConn, crashed>>
    BY <1>4 DEF Accept
  <2>3. c \in Conn /\ sock[c] = "backlog"
    BY DEF Backlog
  <2>4. SocketInv'
    BY <2>1, <2>2, <2>3 DEF AcceptStep
  <2>5. \A d \in Backlog' : d \in Backlog /\ d # c
    BY <2>1, <2>3 DEF Backlog
  <2>6. clientConn < c /\ c <= lastConn
    BY <2>3
  <2>7. \A d \in Backlog' : clientConn < d /\ c < d
    BY <2>1, <2>5 DEF Backlog
  <2> QED
    BY <2>1, <2>2, <2>4, <2>6, <2>7 DEF AcceptStep
<1>5. CASE AcceptExit
  BY <1>5 DEF AcceptExit, AcceptStep
<1>6. CASE CloseOld
  BY <1>6 DEF CloseOld, AcceptStep, ClosedCurrent
<1>7. CASE AcceptJoin
  BY <1>7 DEF AcceptJoin, AcceptStep
<1>8. CASE AcceptJoined
  BY <1>8 DEF AcceptJoined, AcceptStep
<1>9. CASE Install
  BY <1>9 DEF Install, AcceptStep
<1>10. CASE Spawn
  BY <1>10 DEF Spawn, AcceptStep
<1>11. CASE ClientLoop
  BY <1>11 DEF ClientLoop, ClientStep, ClientGoes
<1>12. CASE Recv
  BY <1>12 DEF Recv, ClientStep, ClientGoes
<1>13. CASE Mark
  BY <1>13 DEF Mark, ClientStep, ClientGoes
<1>14. CASE Push
  BY <1>14 DEF Push, ClientStep, ClientGoes
<1>15. CASE RecvEnd
  BY <1>15 DEF RecvEnd, ClientStep, ClientGoes
<1>16. CASE EnterWait
  BY <1>16 DEF EnterWait, ClientStep, ClientGoes
<1>17. CASE Notified
  BY <1>17 DEF Notified, ClientStep, ClientGoes
<1>18. CASE WaitTimeout
  BY <1>18 DEF WaitTimeout, ClientStep, ClientGoes
<1>19. CASE CloseIfCurrent
  BY <1>19 DEF CloseIfCurrent, ClientStep, ClientGoes
<1>20. CASE WaitPop
  BY <1>20 DEF WaitPop, WorkerStep
<1>21. CASE WorkerExit
  BY <1>21 DEF WorkerExit, WorkerStep
<1>22. CASE NoAnswer
  BY <1>22 DEF NoAnswer, WorkerStep
<1>23. CASE \E sent \in BOOLEAN : SendText(sent)
  BY <1>23, SendTextFacts DEF WorkerStep
<1>24. CASE ServerStart
  BY <1>24 DEF ServerStart, EngineStep, EngineGoes
<1>25. CASE ServerStartFails
  BY <1>25 DEF ServerStartFails, EngineStep, EngineGoes
<1>26. CASE StopServer
  BY <1>26 DEF StopServer, EngineStep, EngineGoes
<1>27. CASE TakeClient
  BY <1>27 DEF TakeClient, EngineStep, EngineGoes, ClosedCurrent
<1>28. CASE JoinClient
  BY <1>28 DEF JoinClient, EngineStep, EngineGoes
<1>29. CASE JoinedClient
  BY <1>29 DEF JoinedClient, EngineStep, EngineGoes
<1>30. CASE JoinAccept
  BY <1>30 DEF JoinAccept, EngineStep, EngineGoes
<1>31. CASE StopJobs
  BY <1>31 DEF StopJobs, EngineStep, EngineGoes
<1>32. CASE JoinWorker
  BY <1>32 DEF JoinWorker, EngineStep, EngineGoes
<1>33. CASE Destroy
  BY <1>33 DEF Destroy, EngineStep, EngineGoes, ClosedCurrent
<1>34. CASE UNCHANGED vars
  BY <1>34 DEF vars
<1> QED
  BY <1>1, <1>2, <1>3, <1>4, <1>5, <1>6, <1>7, <1>8, <1>9, <1>10, <1>11, <1>12, <1>13, <1>14, <1>15, <1>16, <1>17, <1>18, <1>19, <1>20, <1>21, <1>22, <1>23, <1>24, <1>25, <1>26, <1>27, <1>28, <1>29, <1>30, <1>31, <1>32, <1>33, <1>34
     DEF Next, Pc, AcceptThread, ClientThread, Worker, Starting, Stopping, Ended


\* A connection that is served later or not at all disturbs no order.
LEMMA InboxFrame ==
    ASSUME InboxInv, Ahead' \subseteq Ahead, UNCHANGED <<inbox, received, nextSegment>>,
           clientSeg' = None \/ clientSeg' = clientSeg,
           \A c \in Conn : c > lastConn' => c > lastConn
    PROVE  InboxInv'
BY DEF InboxInv

\* Segments are received in their order.
LEMMA NextInbox ==
    ASSUME TypeOK, ThreadInv, SocketInv, TurnInv, InboxInv, ReceivedInv, [Next]_vars
    PROVE  InboxInv'
<1> USE ServerAssumption
    DEF TypeOK, ThreadInv, InboxInv, Ahead, None, Conn, pcVars, netVars, acceptVars, clientVars, waitVars, jobVars, workVars, history
<1>1. CASE PcConnect
  <2>1. lastConn + 1 \in Conn /\ sock[lastConn + 1] = "free"
    BY <1>1 DEF PcConnect, SocketInv
  <2>2. Ahead' \subseteq Ahead
    BY <1>1, <2>1 DEF PcConnect
  <2>3. /\ UNCHANGED <<inbox, received, clientSeg, nextSegment>>
        /\ \A c \in Conn : c > lastConn' => c > lastConn
    BY <1>1 DEF PcConnect
  <2> QED
    BY <2>2, <2>3, InboxFrame
<1>2. CASE PcSend
  <2>1. /\ lastConn \in Conn /\ nextSegment \in Segment
        /\ inbox' = [inbox EXCEPT ![lastConn] = Append(@, nextSegment)]
        /\ nextSegment' = nextSegment + 1
        /\ UNCHANGED <<lastConn, received, clientSeg, sock, acceptConn, clientConn>>
    BY <1>2 DEF PcSend, Segment
  <2>2. Ahead' = Ahead
    BY <2>1
  <2> HIDE DEF Ahead
  <2>3. /\ Range(inbox'[lastConn]) = Range(inbox[lastConn]) \cup {nextSegment}
        /\ InOrder(inbox'[lastConn])
    <3>1. inbox'[lastConn] = Append(inbox[lastConn], nextSegment) /\ inbox[lastConn] \in Seq(Segment)
      BY <2>1
    <3>2. InOrder(inbox[lastConn]) /\ \A r \in Range(inbox[lastConn]) : r < nextSegment
      BY <2>1
    <3>3. Range(inbox'[lastConn]) = Range(inbox[lastConn]) \cup {nextSegment}
      BY <2>1, <3>1, AppendFacts
    <3>4. InOrder(inbox'[lastConn])
      BY <2>1, <3>1, <3>2, SegmentNat, AppendInOrder
    <3> QED
      BY <3>3, <3>4
  <2>4. \A c \in Conn \ {lastConn} : inbox'[c] = inbox[c]
    BY <2>1
  <2>5. \A c \in Conn : c > lastConn => Range(inbox[c]) = {}
    BY EmptyFacts
  <2>6. \A c \in Conn : \A e \in Range(inbox[c]) : e < nextSegment
    OBVIOUS
  <2>7. \A c \in Conn : InOrder(inbox'[c])
    BY <2>3, <2>4
  <2>8. \A c \in Conn : \A e \in Range(inbox[c]) : e \in Segment
    BY RangeFacts
  <2>9. \A c \in Conn : \A e \in Range(inbox'[c]) : e \in Range(inbox[c]) \/ (c = lastConn /\ e = nextSegment)
    BY <2>3, <2>4
  <2>10. \A c, d \in Conn : c < d =>
            \A e \in Range(inbox'[c]), g \in Range(inbox'[d]) : e < g
    BY <2>1, <2>5, <2>6, <2>9
  <2>11. \A c \in Conn : \A e \in Range(inbox'[c]) : e < nextSegment'
    <3> SUFFICES ASSUME NEW c \in Conn, NEW e \in Range(inbox'[c]) PROVE e < nextSegment'
      OBVIOUS
    <3>1. CASE e \in Range(inbox[c])
      <4>1. e < nextSegment /\ e \in Int
        BY <2>6, <2>8, <3>1, SegmentNat
      <4> QED
        BY <2>1, <4>1
    <3>2. CASE e = nextSegment
      BY <2>1, <3>2
    <3> QED
      BY <2>9, <3>1, <3>2
  <2>12. \A c \in Ahead : \A r \in received, e \in Range(inbox'[c]) : r < e
    <3>1. Ahead \subseteq Conn /\ \A r \in received : r < nextSegment
      BY DEF Ahead, ReceivedInv
    <3> QED
      BY <2>9, <3>1
  <2>13. clientSeg # None => \A c \in Ahead : \A e \in Range(inbox'[c]) : clientSeg < e
    BY <2>1, <2>9 DEF Ahead
  <2>14. clientSeg # None => clientSeg < nextSegment'
    BY <2>1 DEF Segment
  <2>15. \A c \in Conn : c > lastConn' => inbox'[c] = <<>>
    <3>1. \A c \in Conn : c > lastConn' => c \in Conn \ {lastConn} /\ c > lastConn
      BY <2>1
    <3> QED
      BY <2>4, <3>1
  <2> QED
    BY <2>1, <2>2, <2>7, <2>10, <2>11, <2>12, <2>13, <2>14, <2>15
<1>3. CASE PcClose
  BY <1>3 DEF PcClose
<1>4. CASE Accept
  <2>1. PICK c \in Backlog : acceptConn' = c /\ sock' = [sock EXCEPT ![c] = "open"]
    BY <1>4, OldestInBacklog DEF Accept
  <2>2. UNCHANGED <<inbox, received, clientSeg, nextSegment, lastConn, clientConn>>
    BY <1>4 DEF Accept, AcceptStep
  <2>3. Ahead' \subseteq Ahead
    BY <2>1, <2>2 DEF Backlog
  <2> QED
    BY <2>2, <2>3, InboxFrame
<1>5. CASE AcceptExit
  BY <1>5 DEF AcceptExit, AcceptStep
<1>6. CASE CloseOld
  BY <1>6 DEF CloseOld, AcceptStep, ClosedCurrent
<1>7. CASE AcceptJoin
  BY <1>7 DEF AcceptJoin, AcceptStep
<1>8. CASE AcceptJoined
  BY <1>8 DEF AcceptJoined, AcceptStep
<1>9. CASE Install
  BY <1>9 DEF Install, AcceptStep
<1>10. CASE Spawn
  BY <1>10 DEF Spawn, AcceptStep
<1>11. CASE ClientLoop
  BY <1>11 DEF ClientLoop, ClientStep, ClientGoes
<1>12. CASE Recv
  <2> DEFINE h == Head(inbox[clientConn])
  <2>1. /\ clientConn \in Conn /\ inbox[clientConn] # <<>> /\ inbox[clientConn] \in Seq(Segment)
        /\ clientSeg' = h /\ inbox' = [inbox EXCEPT ![clientConn] = Tail(@)]
        /\ UNCHANGED <<lastConn, received, nextSegment, sock, acceptConn, clientConn>>
    BY <1>12 DEF Recv, ClientStep
  <2>2. Ahead' = Ahead /\ clientConn \in Ahead
    BY <2>1
  <2>3. \A c \in Ahead : c = clientConn \/ clientConn < c
    <3> SUFFICES ASSUME NEW c \in Ahead PROVE c = clientConn \/ clientConn < c
      OBVIOUS
    <3>1. CASE sock[c] = "free"
      <4>1. c > lastConn /\ clientConn <= lastConn
        BY <3>1 DEF SocketInv, TurnInv
      <4> QED
        BY <2>1, <4>1
    <3>2. CASE sock[c] = "backlog"
      BY <3>2 DEF TurnInv, Backlog
    <3>3. CASE c \in {acceptConn, clientConn}
      BY <2>1, <3>3 DEF TurnInv
    <3> QED
      BY <3>1, <3>2, <3>3
  <2> HIDE DEF Ahead
  <2>4. /\ InOrder(Tail(inbox[clientConn]))
        /\ Range(Tail(inbox[clientConn])) \subseteq Range(inbox[clientConn])
        /\ h \in Range(inbox[clientConn]) /\ h \in Segment
        /\ \A e \in Range(Tail(inbox[clientConn])) : h < e
    <3> DEFINE s == inbox[clientConn]
    <3>1. s \in Seq(Segment) /\ s # <<>> /\ InOrder(s)
      BY <2>1
    <3> HIDE DEF s
    <3>2. /\ Range(Tail(s)) \subseteq Range(s)
          /\ Head(s) \in Range(s) /\ Head(s) \in Segment
      BY <3>1, TailFacts
    <3>3. InOrder(Tail(s)) /\ \A e \in Range(Tail(s)) : Head(s) < e
      BY <3>1, SegmentNat, TailInOrder
    <3> QED
      BY <3>2, <3>3 DEF s
  <2>5. inbox'[clientConn] = Tail(inbox[clientConn]) /\ \A c \in Conn \ {clientConn} : inbox'[c] = inbox[c]
    BY <2>1
  <2> HIDE DEF h
  <2>6. \A c \in Conn : InOrder(inbox'[c]) /\ Range(inbox'[c]) \subseteq Range(inbox[c])
    BY <2>4, <2>5
  <2>7. Ahead \subseteq Conn
    BY DEF Ahead
  <2>8. \A c \in Ahead : \A e \in Range(inbox'[c]) : h < e
    BY <2>1, <2>3, <2>4, <2>5, <2>7
  <2>9. h < nextSegment
    BY <2>1, <2>4
  <2>10. \A c \in Conn : c > lastConn => inbox'[c] = <<>>
    BY <2>1, <2>5
  <2> QED
    BY <2>1, <2>2, <2>6, <2>7, <2>8, <2>9, <2>10
<1>13. CASE Mark
  BY <1>13 DEF Mark, ClientStep, ClientGoes
<1>14. CASE Push
  BY <1>14 DEF Push, ClientStep, ClientGoes
<1>15. CASE RecvEnd
  BY <1>15 DEF RecvEnd, ClientStep, ClientGoes
<1>16. CASE EnterWait
  BY <1>16 DEF EnterWait, ClientStep, ClientGoes
<1>17. CASE Notified
  BY <1>17 DEF Notified, ClientStep, ClientGoes
<1>18. CASE WaitTimeout
  BY <1>18 DEF WaitTimeout, ClientStep, ClientGoes
<1>19. CASE CloseIfCurrent
  BY <1>19 DEF CloseIfCurrent, ClientStep, ClientGoes
<1>20. CASE WaitPop
  BY <1>20 DEF WaitPop, WorkerStep
<1>21. CASE WorkerExit
  BY <1>21 DEF WorkerExit, WorkerStep
<1>22. CASE NoAnswer
  BY <1>22 DEF NoAnswer, WorkerStep
<1>23. CASE \E sent \in BOOLEAN : SendText(sent)
  <2>1. WorkerStep("busy", "idle") /\ UNCHANGED <<jobs, received, latest>>
    BY <1>23, SendTextFacts
  <2> QED
    BY <2>1 DEF WorkerStep
<1>24. CASE ServerStart
  BY <1>24 DEF ServerStart, EngineStep, EngineGoes
<1>25. CASE ServerStartFails
  BY <1>25 DEF ServerStartFails, EngineStep, EngineGoes
<1>26. CASE StopServer
  BY <1>26 DEF StopServer, EngineStep, EngineGoes
<1>27. CASE TakeClient
  BY <1>27 DEF TakeClient, EngineStep, EngineGoes, ClosedCurrent
<1>28. CASE JoinClient
  BY <1>28 DEF JoinClient, EngineStep, EngineGoes
<1>29. CASE JoinedClient
  BY <1>29 DEF JoinedClient, EngineStep, EngineGoes
<1>30. CASE JoinAccept
  BY <1>30 DEF JoinAccept, EngineStep, EngineGoes
<1>31. CASE StopJobs
  BY <1>31 DEF StopJobs, EngineStep, EngineGoes
<1>32. CASE JoinWorker
  BY <1>32 DEF JoinWorker, EngineStep, EngineGoes
<1>33. CASE Destroy
  BY <1>33 DEF Destroy, EngineStep, EngineGoes, ClosedCurrent
<1>34. CASE UNCHANGED vars
  BY <1>34 DEF vars
<1> QED
  BY <1>1, <1>2, <1>3, <1>4, <1>5, <1>6, <1>7, <1>8, <1>9, <1>10, <1>11, <1>12, <1>13, <1>14, <1>15, <1>16, <1>17, <1>18, <1>19, <1>20, <1>21, <1>22, <1>23, <1>24, <1>25, <1>26, <1>27, <1>28, <1>29, <1>30, <1>31, <1>32, <1>33, <1>34
     DEF Next, Pc, AcceptThread, ClientThread, Worker, Starting, Stopping, Ended

\* The last segment received is the latest.
LEMMA NextReceived ==
    ASSUME TypeOK, ThreadInv, SocketInv, TurnInv, InboxInv, ReceivedInv, [Next]_vars
    PROVE  ReceivedInv'
<1> USE ServerAssumption
    DEF TypeOK, ThreadInv, ReceivedInv, None, Conn, pcVars, netVars, acceptVars, clientVars, waitVars, jobVars, workVars, history
<1>1. CASE PcConnect
  BY <1>1 DEF PcConnect
<1>2. CASE PcSend
  <2>1. /\ nextSegment' = nextSegment + 1
        /\ UNCHANGED <<received, latest, clientPc, clientSeg>>
    BY <1>2 DEF PcSend
  <2>2. \A r \in received : r \in Int
    BY DEF Segment
  <2> QED
    BY <2>1, <2>2
<1>3. CASE PcClose
  BY <1>3 DEF PcClose
<1>4. CASE Accept
  BY <1>4 DEF Accept, AcceptStep
<1>5. CASE AcceptExit
  BY <1>5 DEF AcceptExit, AcceptStep
<1>6. CASE CloseOld
  BY <1>6 DEF CloseOld, AcceptStep, ClosedCurrent
<1>7. CASE AcceptJoin
  BY <1>7 DEF AcceptJoin, AcceptStep
<1>8. CASE AcceptJoined
  BY <1>8 DEF AcceptJoined, AcceptStep
<1>9. CASE Install
  BY <1>9 DEF Install, AcceptStep
<1>10. CASE Spawn
  BY <1>10 DEF Spawn, AcceptStep
<1>11. CASE ClientLoop
  BY <1>11 DEF ClientLoop, ClientStep, ClientGoes
<1>12. CASE Recv
  <2>1. /\ clientConn \in Conn /\ inbox[clientConn] # <<>> /\ inbox[clientConn] \in Seq(Segment)
        /\ clientSeg' = Head(inbox[clientConn]) /\ clientPc' = "mark"
        /\ UNCHANGED <<received, latest, nextSegment>>
    BY <1>12 DEF Recv, ClientStep
  <2>2. clientSeg' \in Range(inbox[clientConn])
    BY <2>1, TailFacts
  <2>3. \A r \in received : r < clientSeg'
    BY <2>1, <2>2 DEF InboxInv, Ahead
  <2> QED
    BY <2>1, <2>3
<1>13. CASE Mark
  <2>1. /\ clientPc = "mark" /\ clientPc' = "push"
        /\ received' = received \cup {clientSeg} /\ latest' = clientSeg
        /\ UNCHANGED <<nextSegment, clientSeg>>
    BY <1>13 DEF Mark, ClientStep
  <2>2. clientSeg \in Segment /\ clientSeg < nextSegment
    BY <2>1 DEF InboxInv
  <2>3. \A r \in received : r < clientSeg /\ r \in Int
    BY <2>1 DEF Segment
  <2> QED
    BY <2>1, <2>2, <2>3 DEF Segment
<1>14. CASE Push
  BY <1>14 DEF Push, ClientStep, ClientGoes
<1>15. CASE RecvEnd
  BY <1>15 DEF RecvEnd, ClientStep, ClientGoes
<1>16. CASE EnterWait
  BY <1>16 DEF EnterWait, ClientStep, ClientGoes
<1>17. CASE Notified
  BY <1>17 DEF Notified, ClientStep, ClientGoes
<1>18. CASE WaitTimeout
  BY <1>18 DEF WaitTimeout, ClientStep, ClientGoes
<1>19. CASE CloseIfCurrent
  BY <1>19 DEF CloseIfCurrent, ClientStep, ClientGoes
<1>20. CASE WaitPop
  BY <1>20 DEF WaitPop, WorkerStep
<1>21. CASE WorkerExit
  BY <1>21 DEF WorkerExit, WorkerStep
<1>22. CASE NoAnswer
  BY <1>22 DEF NoAnswer, WorkerStep
<1>23. CASE \E sent \in BOOLEAN : SendText(sent)
  BY <1>23, SendTextFacts DEF WorkerStep
<1>24. CASE ServerStart
  BY <1>24 DEF ServerStart, EngineStep, EngineGoes
<1>25. CASE ServerStartFails
  BY <1>25 DEF ServerStartFails, EngineStep, EngineGoes
<1>26. CASE StopServer
  BY <1>26 DEF StopServer, EngineStep, EngineGoes
<1>27. CASE TakeClient
  BY <1>27 DEF TakeClient, EngineStep, EngineGoes, ClosedCurrent
<1>28. CASE JoinClient
  BY <1>28 DEF JoinClient, EngineStep, EngineGoes
<1>29. CASE JoinedClient
  BY <1>29 DEF JoinedClient, EngineStep, EngineGoes
<1>30. CASE JoinAccept
  BY <1>30 DEF JoinAccept, EngineStep, EngineGoes
<1>31. CASE StopJobs
  BY <1>31 DEF StopJobs, EngineStep, EngineGoes
<1>32. CASE JoinWorker
  BY <1>32 DEF JoinWorker, EngineStep, EngineGoes
<1>33. CASE Destroy
  BY <1>33 DEF Destroy, EngineStep, EngineGoes, ClosedCurrent
<1>34. CASE UNCHANGED vars
  BY <1>34 DEF vars
<1> QED
  BY <1>1, <1>2, <1>3, <1>4, <1>5, <1>6, <1>7, <1>8, <1>9, <1>10, <1>11, <1>12, <1>13, <1>14, <1>15, <1>16, <1>17, <1>18, <1>19, <1>20, <1>21, <1>22, <1>23, <1>24, <1>25, <1>26, <1>27, <1>28, <1>29, <1>30, <1>31, <1>32, <1>33, <1>34
     DEF Next, Pc, AcceptThread, ClientThread, Worker, Starting, Stopping, Ended

\* Queue and worker keep the order of the segments.
LEMMA NextPipeline ==
    ASSUME TypeOK, ThreadInv, InboxInv, ReceivedInv, PipelineInv, [Next]_vars
    PROVE  PipelineInv'
<1> USE ServerAssumption
    DEF TypeOK, ThreadInv, PipelineInv, None, pcVars, netVars, acceptVars, clientVars, waitVars, jobVars, workVars, history
<1>1. CASE PcConnect
  BY <1>1 DEF PcConnect
<1>2. CASE PcSend
  BY <1>2 DEF PcSend
<1>3. CASE PcClose
  BY <1>3 DEF PcClose
<1>4. CASE Accept
  BY <1>4 DEF Accept, AcceptStep
<1>5. CASE AcceptExit
  BY <1>5 DEF AcceptExit, AcceptStep
<1>6. CASE CloseOld
  BY <1>6 DEF CloseOld, AcceptStep, ClosedCurrent
<1>7. CASE AcceptJoin
  BY <1>7 DEF AcceptJoin, AcceptStep
<1>8. CASE AcceptJoined
  BY <1>8 DEF AcceptJoined, AcceptStep
<1>9. CASE Install
  BY <1>9 DEF Install, AcceptStep
<1>10. CASE Spawn
  BY <1>10 DEF Spawn, AcceptStep
<1>11. CASE ClientLoop
  BY <1>11 DEF ClientLoop, ClientStep, ClientGoes
<1>12. CASE Recv
  BY <1>12 DEF Recv, ClientStep, ClientGoes
<1>13. CASE Mark
  <2>1. /\ clientPc = "mark" /\ received' = received \cup {clientSeg}
        /\ UNCHANGED <<clientSeg, jobs, job, answered>>
    BY <1>13 DEF Mark, ClientStep
  <2>2. clientSeg \notin received /\ clientSeg # None
    BY <2>1 DEF ReceivedInv, Segment
  <2> QED
    BY <2>1, <2>2
<1>14. CASE Push
  <2>1. /\ clientPc = "push" /\ clientPc' = "loop" /\ UNCHANGED <<job, answered, received>>
        /\ jobs' = jobs \/ jobs' = Append(jobs, clientSeg)
    BY <1>14 DEF Push, ClientStep
  <2>2. CASE jobs' = jobs
    BY <2>1, <2>2
  <2>3. CASE jobs' = Append(jobs, clientSeg)
    <3>1. clientSeg \in Segment /\ clientSeg \in received /\ \A r \in received : r <= clientSeg
      BY <2>1 DEF ReceivedInv
    <3>2. \A r \in received : r \in Int
      BY SegmentNat
    <3>3. \A r \in received \ {clientSeg} : r < clientSeg
      BY <3>1, <3>2
    <3>4. Range(jobs') = Range(jobs) \cup {clientSeg}
      BY <2>3, <3>1, AppendFacts
    <3>5. \A r \in Range(jobs) : r < clientSeg
      BY <2>1, <3>3
    <3>6. InOrder(jobs')
      BY <2>3, <3>1, <3>5, SegmentNat, AppendInOrder
    <3> QED
      BY <2>1, <3>1, <3>3, <3>4, <3>6
  <2> QED
    BY <2>1, <2>2, <2>3
<1>15. CASE RecvEnd
  BY <1>15 DEF RecvEnd, ClientStep, ClientGoes
<1>16. CASE EnterWait
  BY <1>16 DEF EnterWait, ClientStep, ClientGoes
<1>17. CASE Notified
  BY <1>17 DEF Notified, ClientStep, ClientGoes
<1>18. CASE WaitTimeout
  BY <1>18 DEF WaitTimeout, ClientStep, ClientGoes
<1>19. CASE CloseIfCurrent
  BY <1>19 DEF CloseIfCurrent, ClientStep, ClientGoes
<1>20. CASE WaitPop
  <2>1. /\ jobs # <<>> /\ job = None /\ job' = Head(jobs) /\ jobs' = Tail(jobs)
        /\ UNCHANGED <<clientPc, clientSeg, answered, received>>
    BY <1>20 DEF WaitPop, WorkerStep, Popped
  <2>2. Head(jobs) \in Range(jobs) /\ Range(Tail(jobs)) \subseteq Range(jobs)
    BY <2>1, TailFacts
  <2>3. InOrder(Tail(jobs)) /\ \A r \in Range(Tail(jobs)) : Head(jobs) < r
    BY <2>1, SegmentNat, TailInOrder
  <2> QED
    BY <2>1, <2>2, <2>3
<1>21. CASE WorkerExit
  BY <1>21 DEF WorkerExit, WorkerStep
<1>22. CASE NoAnswer
  BY <1>22 DEF NoAnswer, WorkerStep
<1>23. CASE \E sent \in BOOLEAN : SendText(sent)
  <2>1. /\ WorkerStep("busy", "idle") /\ job' = None /\ UNCHANGED <<jobs, received>>
        /\ answered' = answered \/ answered' = Append(answered, job)
    BY <1>23, SendTextFacts
  <2>2. job # None /\ job \in Segment /\ UNCHANGED <<clientPc, clientSeg>>
    BY <2>1 DEF WorkerStep
  <2>3. Range(answered') \subseteq Range(answered) \cup {job}
    <3>1. Range(Append(answered, job)) = Range(answered) \cup {job}
      BY <2>2, AppendFacts
    <3> QED
      BY <2>1, <3>1
  <2> QED
    BY <2>1, <2>2, <2>3
<1>24. CASE ServerStart
  BY <1>24 DEF ServerStart, EngineStep, EngineGoes
<1>25. CASE ServerStartFails
  BY <1>25 DEF ServerStartFails, EngineStep, EngineGoes
<1>26. CASE StopServer
  BY <1>26 DEF StopServer, EngineStep, EngineGoes
<1>27. CASE TakeClient
  BY <1>27 DEF TakeClient, EngineStep, EngineGoes, ClosedCurrent
<1>28. CASE JoinClient
  BY <1>28 DEF JoinClient, EngineStep, EngineGoes
<1>29. CASE JoinedClient
  BY <1>29 DEF JoinedClient, EngineStep, EngineGoes
<1>30. CASE JoinAccept
  BY <1>30 DEF JoinAccept, EngineStep, EngineGoes
<1>31. CASE StopJobs
  BY <1>31 DEF StopJobs, EngineStep, EngineGoes
<1>32. CASE JoinWorker
  BY <1>32 DEF JoinWorker, EngineStep, EngineGoes
<1>33. CASE Destroy
  BY <1>33 DEF Destroy, EngineStep, EngineGoes, ClosedCurrent
<1>34. CASE UNCHANGED vars
  BY <1>34 DEF vars
<1> QED
  BY <1>1, <1>2, <1>3, <1>4, <1>5, <1>6, <1>7, <1>8, <1>9, <1>10, <1>11, <1>12, <1>13, <1>14, <1>15, <1>16, <1>17, <1>18, <1>19, <1>20, <1>21, <1>22, <1>23, <1>24, <1>25, <1>26, <1>27, <1>28, <1>29, <1>30, <1>31, <1>32, <1>33, <1>34
     DEF Next, Pc, AcceptThread, ClientThread, Worker, Starting, Stopping, Ended


\* What is received and answered, and who is waited for, changes in two steps.
LEMMA OtherSteps ==
    ASSUME [Next]_vars
    PROVE  \/ Mark
           \/ \E sent \in BOOLEAN : SendText(sent)
           \/ UNCHANGED <<received, answered>> /\ UNCHANGED <<answered, latest, waitVars>>
<1> USE DEF history, waitVars
<1>1. CASE Pc
  BY <1>1 DEF Pc, PcConnect, PcSend, PcClose
<1>2. CASE AcceptThread
  BY <1>2 DEF AcceptThread, Accept, AcceptExit, CloseOld, AcceptJoin, AcceptJoined, Install,
              Spawn, AcceptStep
<1>3. CASE ClientThread
  BY <1>3 DEF ClientThread, ClientLoop, Recv, Push, RecvEnd, EnterWait, Notified, WaitTimeout,
              CloseIfCurrent, ClientGoes
<1>4. CASE Worker
  BY <1>4 DEF Worker, WaitPop, WorkerExit, NoAnswer
<1>5. CASE Starting \/ StopServer \/ Stopping
  BY <1>5 DEF Starting, ServerStart, ServerStartFails, StopServer, Stopping, TakeClient,
              JoinClient, JoinedClient, JoinAccept, StopJobs, JoinWorker, Destroy,
              EngineStep, EngineGoes
<1>6. CASE UNCHANGED vars
  BY <1>6 DEF vars
<1> QED
  BY <1>1, <1>2, <1>3, <1>4, <1>5, <1>6 DEF Next, Ended


-----------------------------------------------------------------------------
LEMMA NextInv == ServerInv /\ [Next]_vars => ServerInv'
BY NextType, NextThread, NextSocket, NextInbox, NextReceived, NextPipeline DEF ServerInv

\* The server's invariant: the threads of network.cpp and jni_bridge.cpp join
\* and start each other soundly, the open sockets are current or in the
\* acceptor's hands, and segments are handed on in the order of speech.
THEOREM ServerInvariance == Spec => []ServerInv
BY InitInv, NextInv, PTL DEF Spec

\* The variables have values of their types; the job queue keeps its capacity.
THEOREM ServerTypeCorrect == Spec => []TypeOK
<1>1. ServerInv => TypeOK
  BY DEF ServerInv
<1> QED
  BY <1>1, ServerInvariance, PTL

\* m_clientSocket never names a closed descriptor, and after NetworkServer::stop
\* and the engine thread's end no socket, thread or job is left.
THEOREM ServerSocketsSound == Spec => []SocketsSound
<1>1. ServerInv => SocketsSound
  <2> SUFFICES ASSUME ServerInv PROVE SocketsSound
    OBVIOUS
  <2>1. TypeOK /\ ThreadInv /\ SocketInv
    BY DEF ServerInv
  <2>2. CurrentIsOpen
    BY <2>1 DEF SocketInv, CurrentIsOpen
  <2>3. ASSUME engine = "stopped", ~crashed
        PROVE  /\ \A c \in Conn : sock[c] \in {"free", "closed"}
               /\ clientPc = "none" /\ acceptPc = "exited" /\ worker = "exited"
               /\ jobs = <<>>
    <3>1. /\ clientPc = "none" /\ acceptPc = "exited" /\ worker = "exited"
          /\ jobs = <<>> /\ current = None /\ acceptConn = None /\ ~listening
      BY <2>1, <2>3 DEF ThreadInv, Holding
    <3>2. \A c \in Conn : sock[c] # "open" /\ sock[c] # "backlog"
      BY <2>1, <3>1 DEF SocketInv, Conn, None
    <3> QED
      BY <2>1, <3>1, <3>2 DEF TypeOK
  <2> QED
    BY <2>2, <2>3 DEF SocketsSound, StopLeavesNothing
<1> QED
  BY <1>1, ServerInvariance, PTL

\* m_clientThread is joined by two threads at once only when the server is
\* stopped while a connection replaces another one.
THEOREM ServerCrashNeedsReplacement == Spec => []CrashNeedsReplacement
<1>1. ServerInv => CrashNeedsReplacement
  BY DEF ServerInv, TypeOK, CrashInv, CrashNeedsReplacement
<1> QED
  BY <1>1, ServerInvariance, PTL

(* Refinement: Mark receives, SendText answers, nothing else does. *)
LEMMA NextContract ==
    ASSUME ServerInv, [Next]_vars
    PROVE  [Contract!RNext]_(Contract!rvars)
<1>0. TypeOK /\ ThreadInv /\ ReceivedInv /\ PipelineInv
  BY DEF ServerInv
<1>1. CASE Mark
  <2>1. /\ clientPc = "mark" /\ received' = received \cup {clientSeg} /\ UNCHANGED answered
    BY <1>1 DEF Mark, ClientStep
  <2>2. clientSeg \in Segment /\ \A r \in received : r < clientSeg
    BY <1>0, <2>1 DEF TypeOK, ThreadInv, ReceivedInv
  <2>3. Contract!Receive(clientSeg)
    BY <2>1, <2>2 DEF Contract!Receive
  <2> QED
    BY <2>2, <2>3 DEF Contract!RNext
<1>2. CASE \E sent \in BOOLEAN : SendText(sent)
  <2>1. /\ worker = "busy" /\ UNCHANGED received
        /\ answered' = answered \/ answered' = Append(answered, job)
    BY <1>2, SendTextFacts DEF WorkerStep
  <2>2. job \in Segment /\ job \in received /\ \A a \in Range(answered) : a < job
    BY <1>0, <2>1 DEF TypeOK, ThreadInv, PipelineInv
  <2>3. CASE answered' = answered
    BY <2>1, <2>3 DEF Contract!rvars
  <2>4. CASE answered' = Append(answered, job)
    <3>1. Contract!Answer(job)
      BY <2>1, <2>2, <2>4 DEF Contract!Answer, Contract!Range, Range
    <3> QED
      BY <2>2, <3>1 DEF Contract!RNext
  <2> QED
    BY <2>1, <2>3, <2>4
<1>3. CASE UNCHANGED <<received, answered>>
  BY <1>3 DEF Contract!rvars
<1> QED
  BY <1>1, <1>2, <1>3, OtherSteps

\* The segments are answered in the order of speech, each at most once and
\* only after it was received (RecognitionContract), whatever connections are
\* replaced and whenever the server is stopped.
THEOREM ServerRefinesContract == Spec => RefinesContract
<1>1. Init => Contract!RInit
  BY DEF Init, Contract!RInit
<1>2. ServerInv /\ [Next]_vars => [Contract!RNext]_(Contract!rvars)
  BY NextContract
<1> QED
  BY <1>1, <1>2, ServerInvariance, PTL DEF Spec, RefinesContract, Contract!RSpec

\* The segments of one run of the PC program carry different ids.
UniqueIds == \A s, t \in Segment : WireId[s] = WireId[t] => s = t

LEMMA NextWaiting ==
    ASSUME UniqueIds, ServerInv, WaitingIffUnanswered, [Next]_vars
    PROVE  WaitingIffUnanswered'
<1>0. TypeOK /\ ThreadInv /\ ReceivedInv /\ PipelineInv
  BY DEF ServerInv
<1>1. CASE Mark
  <2>1. /\ clientPc = "mark" /\ waiting' /\ pendingId' = WireId[clientSeg]
        /\ latest' = clientSeg /\ UNCHANGED answered
    BY <1>1 DEF Mark, ClientStep
  <2>2. clientSeg \in Segment /\ clientSeg # None /\ clientSeg \notin received
    BY <1>0, <2>1, SegmentNat DEF TypeOK, ThreadInv, ReceivedInv
  <2> QED
    BY <1>0, <2>1, <2>2 DEF WaitingIffUnanswered, PipelineInv
<1>2. CASE \E sent \in BOOLEAN : SendText(sent)
  <2>1. /\ worker = "busy" /\ UNCHANGED latest
        /\ \/ /\ answered' = Append(answered, job)
              /\ \/ Settles(job) /\ ~waiting'
                 \/ ~Settles(job) /\ UNCHANGED waitVars
           \/ UNCHANGED answered /\ UNCHANGED waitVars
    BY <1>2, SendTextFacts DEF WorkerStep
  <2>2. /\ job \in Segment /\ answered \in Seq(Segment)
        /\ job \notin Range(answered)
    BY <1>0, <2>1, SegmentNat DEF TypeOK, ThreadInv, PipelineInv
  <2>3. Range(Append(answered, job)) = Range(answered) \cup {job}
    BY <2>2, AppendFacts
  <2>4. latest # None => latest \in Segment
    BY <1>0 DEF TypeOK
  <2>5. CASE UNCHANGED answered /\ UNCHANGED waitVars
    BY <2>1, <2>5 DEF WaitingIffUnanswered, waitVars
  <2>6. CASE answered' = Append(answered, job) /\ Settles(job) /\ ~waiting'
    <3>1. latest = job
      BY <2>2, <2>4, <2>6 DEF WaitingIffUnanswered, Settles, UniqueIds
    <3> QED
      BY <2>1, <2>3, <2>6, <3>1 DEF WaitingIffUnanswered
  <2>7. CASE answered' = Append(answered, job) /\ ~Settles(job) /\ UNCHANGED waitVars
    <3>1. waiting => latest # job
      BY <2>7 DEF WaitingIffUnanswered, Settles
    <3> QED
      BY <2>1, <2>3, <2>7, <3>1 DEF WaitingIffUnanswered, waitVars
  <2> QED
    BY <2>1, <2>5, <2>6, <2>7
<1>3. CASE UNCHANGED <<answered, latest, waitVars>>
  BY <1>3 DEF WaitingIffUnanswered, waitVars
<1> QED
  BY <1>1, <1>2, <1>3, OtherSteps

\* markPendingFinalSegment and notifySegmentSent: the client thread waits for
\* an answer exactly while the segment received last has none, as long as the
\* PC does not use an id again.
THEOREM ServerWaitsForLatest ==
    ASSUME UniqueIds
    PROVE  Spec => []WaitingIffUnanswered
<1>1. Init => WaitingIffUnanswered
  BY DEF Init, WaitingIffUnanswered, None
<1>2. ServerInv /\ WaitingIffUnanswered /\ [Next]_vars => WaitingIffUnanswered'
  BY NextWaiting
<1> QED
  BY <1>1, <1>2, ServerInvariance, PTL DEF Spec


=============================================================================
