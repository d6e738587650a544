-------------------------------- MODULE ChatBox --------------------------------
(***************************************************************************)
(* The ChatBox side of the PC program: who uses the ChatBox queue, and     *)
(* what reaches VRChat.                                                    *)
(*                                                                         *)
(*   receive thread   onTextReceived -> sendChatBoxText: the formatter     *)
(*                    drops chunks it saw lately, the rest is enqueued     *)
(*   queue thread     chatBoxQueueLoop: ticks the queue every 50 ms        *)
(*   HTTP tasks       handleControlRequest: clear, pause and resume the    *)
(*                    queue, blank the ChatBox past the queue              *)
(*   main             the shutdown: joins the queue thread, deletes the    *)
(*                    queue, stops the server, disconnects, blanks         *)
(*                                                                         *)
(* Three of them call OscSender::sendChatBox, which refuses a packet less  *)
(* than Throttle after the last one, reading its own clock, without a      *)
(* lock.  A call is two steps: OscCheck reads the clock and compares,      *)
(* OscSend sends and stamps m_lastSendTime with the time read before.      *)
(* A chunk stands for the message formatted from it (prefix, emoji).       *)
(***************************************************************************)
EXTENDS ChatBoxQueue, FiniteSets

CONSTANTS Throttle,        \* OscSender's 1.5 s
          FormatterLimit,  \* how many chunks the formatter remembers
          MaxClears        \* bound of the model: ChatBox clear commands

ASSUME ChatBoxAssumption ==
    /\ Throttle \in Nat \ {0}
    /\ FormatterLimit \in Nat \ {0}
    /\ MaxClears \in Nat
    /\ Batches \subseteq Seq(Text)    \* splitText makes no empty chunk

VARIABLES alive,       \* g_chatboxQueue is not null
          looping,     \* g_chatboxThreadRunning
          queueThread, \* where chatBoxQueueLoop is
          fmtRecent,   \* ChatBoxFormatter::m_recent
          chunks,      \* chunks the receive thread has still to filter
          finalTexts,  \* those it will enqueue
          oscAge,      \* the age of m_lastSendTime, at most Throttle
          oscNow,      \* the age of the time a sendChatBox call read
          http,        \* the /control/chatbox/clear handler
          clears,      \* how many such commands were given
          main,        \* where the shutdown is
          display,     \* what VRChat's ChatBox shows (external)
          owed         \* history: texts the formatter let pass that were
                       \* neither shown nor given up nor repetitions

cbvars == <<alive, looping, queueThread, fmtRecent, chunks, finalTexts,
            oscAge, oscNow, http, clears, main, display, owed>>
vars == <<qvars, cbvars>>

Callers == {"queue", "http", "main"}
NotReading == -1

TypeOK ==
    /\ QueueTypeOK
    /\ alive \in BOOLEAN /\ looping \in BOOLEAN
    /\ queueThread \in {"check", "tick", "exited"}
    /\ fmtRecent \in Seq(Text) /\ Len(fmtRecent) <= FormatterLimit
    /\ chunks \in Seq(Text) /\ finalTexts \in Seq(Text)
    /\ oscAge \in 0..Throttle
    /\ oscNow \in [Callers -> {NotReading} \cup 0..Throttle]
    /\ http \in {"idle", "clearing"}
    /\ clears \in 0..MaxClears
    /\ main \in {"running", "joining", "stopping", "clearing", "done"}
    /\ display \in Text \cup {Blank}
    /\ owed \subseteq Text

Init ==
    /\ QueueInit
    /\ alive = TRUE /\ looping = TRUE /\ queueThread = "check"
    /\ fmtRecent = <<>> /\ chunks = <<>> /\ finalTexts = <<>>
    /\ oscAge = Throttle
    /\ oscNow = [p \in Callers |-> NotReading]
    /\ http = "idle" /\ clears = 0
    /\ main = "running"
    /\ display = Blank
    /\ owed = {}

-----------------------------------------------------------------------------
(* OscSender::sendChatBox *)

OscRefusesStill == oscAge <= Throttle    \* mutant: off by one
OscRefuses == oscAge < Throttle

\* The clock is read and the throttle lets the call pass.
OscCheck(p) ==
    /\ oscNow[p] = NotReading
    /\ ~OscRefuses
    /\ oscNow' = [oscNow EXCEPT ![p] = 0]
    /\ UNCHANGED <<oscAge, display>>

\* sendto, and on success the stamp.
OscSend(p, text, ok) ==
    /\ oscNow[p] # NotReading
    /\ oscNow' = [oscNow EXCEPT ![p] = NotReading]
    /\ IF ok THEN oscAge' = oscNow[p] /\ display' = text
             ELSE UNCHANGED <<oscAge, display>>

-----------------------------------------------------------------------------
(* The receive thread: onTextReceived, sendChatBoxText *)

ReceiveIdle == chunks = <<>> /\ finalTexts = <<>> /\ batch = <<>>

Receive(text) ==
    /\ main \notin {"clearing", "done"}
    /\ ReceiveIdle
    /\ chunks' = text
    /\ UNCHANGED <<qvars, alive, looping, queueThread, fmtRecent, finalTexts,
                   oscAge, oscNow, http, clears, main, display,
                   owed>>

\* The formatter's memory with one more chunk.
Noted(c) ==
    IF Len(fmtRecent) < FormatterLimit THEN Append(fmtRecent, c)
                                       ELSE Tail(Append(fmtRecent, c))

\* shouldSend(chunk): remembers the chunk as it lets it pass.
Filter ==
    /\ chunks # <<>>
    /\ chunks' = Tail(chunks)
    /\ LET c == Head(chunks) IN
       \/ /\ c \in Range(fmtRecent)
          /\ UNCHANGED <<fmtRecent, finalTexts, owed>>
       \/ /\ c \notin Range(fmtRecent)
          /\ fmtRecent' = Noted(c)
          /\ finalTexts' = Append(finalTexts, c)
          /\ owed' = owed \cup {c}
    /\ UNCHANGED <<qvars, alive, looping, queueThread, oscAge, oscNow, http,
                   clears, main, display>>

\* The mutex is taken and the texts go to the queue, if there still is one.
HandOver ==
    /\ chunks = <<>> /\ finalTexts # <<>>
    /\ finalTexts' = <<>>
    /\ \/ alive /\ Enqueue(finalTexts) /\ UNCHANGED owed
       \/ ~alive /\ owed' = owed \ Range(finalTexts) /\ UNCHANGED qvars
    /\ UNCHANGED <<alive, looping, queueThread, fmtRecent, chunks, oscAge,
                   oscNow, http, clears, main, display>>

\* One text of the enqueue; one that was sent lately is owed no more.
Examine ==
    /\ EnqueueOne
    /\ owed' = IF Head(batch) \in Range(recent) THEN owed \ {Head(batch)}
                                                ELSE owed
    /\ UNCHANGED <<alive, looping, queueThread, fmtRecent, chunks, finalTexts,
                   oscAge, oscNow, http, clears, main, display>>

-----------------------------------------------------------------------------
(* The queue thread: chatBoxQueueLoop *)

QueueThreadOnly == UNCHANGED <<alive, looping, fmtRecent, chunks, finalTexts,
                               http, clears, main>>

LoopCheck ==
    /\ queueThread = "check"
    /\ queueThread' = IF looping THEN "tick" ELSE "exited"
    /\ UNCHANGED <<qvars, oscAge, oscNow, display, owed>>
    /\ QueueThreadOnly

\* A tick with nothing to send.
LoopIdle ==
    /\ queueThread = "tick"
    /\ Free
    /\ paused \/ Due = NoCall
    /\ queueThread' = "check"
    /\ UNCHANGED <<qvars, oscAge, oscNow, display, owed>>
    /\ QueueThreadOnly

LoopTick ==
    /\ queueThread = "tick"
    /\ TickStart
    /\ UNCHANGED <<queueThread, oscAge, oscNow, display, owed>>
    /\ QueueThreadOnly

\* The send function the queue was given: sendChatBox(text, true).
LoopOscCheck ==
    /\ call # NoCall
    /\ OscCheck("queue")
    /\ UNCHANGED <<qvars, queueThread, owed>>
    /\ QueueThreadOnly

\* Mutant: a refused text counts as sent.
LoopRefusalIgnored ==
    /\ call # NoCall /\ oscNow["queue"] = NotReading
    /\ OscRefuses
    /\ TickEnd(TRUE)
    /\ queueThread' = "check"
    /\ UNCHANGED <<oscAge, oscNow, display, owed>>
    /\ QueueThreadOnly

LoopOscRefused ==
    /\ call # NoCall /\ oscNow["queue"] = NotReading
    /\ OscRefuses
    /\ TickEnd(FALSE)
    /\ queueThread' = "check"
    /\ UNCHANGED <<oscAge, oscNow, display, owed>>
    /\ QueueThreadOnly

\* Mutant: a text that was sent counts as refused.
LoopResultLost(ok) ==
    /\ OscSend("queue", call, ok)
    /\ TickEnd(FALSE)
    /\ queueThread' = "check"
    /\ UNCHANGED owed
    /\ QueueThreadOnly

LoopOscSend(ok) ==
    /\ OscSend("queue", call, ok)
    /\ TickEnd(ok)
    /\ owed' = IF ok THEN owed \ {call} ELSE owed
    /\ queueThread' = "check"
    /\ QueueThreadOnly

-----------------------------------------------------------------------------
(* The HTTP tasks: handleControlRequest *)

Serving == main \in {"running", "joining", "stopping"}
HttpFrame == UNCHANGED <<looping, alive, queueThread, fmtRecent, chunks,
                         finalTexts, main>>

QueueClear ==
    /\ Serving /\ alive
    /\ Clear
    /\ owed' = owed \ Range(pending)
    /\ UNCHANGED <<oscAge, oscNow, http, clears, display>>
    /\ HttpFrame

QueuePause(p) ==
    /\ Serving /\ alive
    /\ SetPaused(p)
    /\ UNCHANGED <<oscAge, oscNow, http, clears, display, owed>>
    /\ HttpFrame

ChatBoxClear ==
    /\ Serving /\ http = "idle"
    /\ clears < MaxClears
    /\ http' = "clearing" /\ clears' = clears + 1
    /\ UNCHANGED <<qvars, oscAge, oscNow, display, owed>>
    /\ HttpFrame

ClearOscCheck ==
    /\ http = "clearing"
    /\ OscCheck("http")
    /\ UNCHANGED <<qvars, http, clears, owed>>
    /\ HttpFrame

\* clearChatBox ignores the result of sendChatBox, and the handler answers
\* "chatbox cleared" in any case.
ClearOscRefused ==
    /\ http = "clearing" /\ oscNow["http"] = NotReading
    /\ OscRefuses
    /\ http' = "idle"
    /\ UNCHANGED <<qvars, oscAge, oscNow, clears, display, owed>>
    /\ HttpFrame

ClearOscSend(ok) ==
    /\ OscSend("http", Blank, ok)
    /\ http' = "idle"
    /\ UNCHANGED <<qvars, clears, owed>>
    /\ HttpFrame

-----------------------------------------------------------------------------
(* main: the shutdown *)

MainFrame == UNCHANGED <<fmtRecent, chunks, finalTexts, http, clears,
                         queueThread>>

\* Mutant: g_chatboxThreadRunning stays set.
StopLoopUntold ==
    /\ main = "running"
    /\ main' = "joining"
    /\ UNCHANGED <<qvars, alive, looping, oscAge, oscNow, display, owed>>
    /\ MainFrame

\* stopChatBoxQueue: the loop is told to end ...
StopLoop ==
    /\ main = "running"
    /\ main' = "joining" /\ looping' = FALSE
    /\ UNCHANGED <<qvars, alive, oscAge, oscNow, display, owed>>
    /\ MainFrame

\* Mutant: the queue thread is not joined.
DeleteUnjoined ==
    /\ main = "joining"
    /\ Free
    /\ main' = "stopping" /\ alive' = FALSE
    /\ owed' = owed \ Range(pending)
    /\ UNCHANGED <<qvars, looping, oscAge, oscNow, display>>
    /\ MainFrame

\* ... and once it did, the queue is deleted with what it holds.
DeleteQueue ==
    /\ main = "joining" /\ queueThread = "exited"
    /\ Free
    /\ main' = "stopping" /\ alive' = FALSE
    /\ owed' = owed \ Range(pending)
    /\ UNCHANGED <<qvars, looping, oscAge, oscNow, display>>
    /\ MainFrame

\* stopStatusServer waits for the tasks, disconnect joins the receive thread.
StopOthers ==
    /\ main = "stopping"
    /\ http = "idle" /\ ReceiveIdle
    /\ main' = "clearing"
    /\ UNCHANGED <<qvars, alive, looping, oscAge, oscNow, display, owed>>
    /\ MainFrame

\* The last clearChatBox.
MainOscCheck ==
    /\ main = "clearing"
    /\ OscCheck("main")
    /\ UNCHANGED <<qvars, alive, looping, main, owed>>
    /\ MainFrame

MainOscRefused ==
    /\ main = "clearing" /\ oscNow["main"] = NotReading
    /\ OscRefuses
    /\ main' = "done"
    /\ UNCHANGED <<qvars, alive, looping, oscAge, oscNow, display, owed>>
    /\ MainFrame

MainOscSend(ok) ==
    /\ OscSend("main", Blank, ok)
    /\ main' = "done"
    /\ UNCHANGED <<qvars, alive, looping, owed>>
    /\ MainFrame

-----------------------------------------------------------------------------
Time ==
    /\ Elapse
    /\ oscAge' = Older(oscAge, Throttle)
    /\ oscNow' = [p \in Callers |-> IF oscNow[p] = NotReading THEN NotReading
                                    ELSE Older(oscNow[p], Throttle)]
    /\ UNCHANGED <<alive, looping, queueThread, fmtRecent, chunks, finalTexts,
                   http, clears, main, display, owed>>

QueueThread ==
    \/ LoopCheck \/ LoopIdle \/ LoopTick \/ LoopOscCheck \/ LoopOscRefused
    \/ \E ok \in BOOLEAN : LoopOscSend(ok)
ReceiveThread == Filter \/ HandOver \/ Examine
HttpClear ==
    \/ ClearOscCheck \/ ClearOscRefused
    \/ \E ok \in BOOLEAN : ClearOscSend(ok)
MainThread ==
    \/ DeleteQueue \/ StopOthers \/ MainOscCheck \/ MainOscRefused
    \/ \E ok \in BOOLEAN : MainOscSend(ok)

Next ==
    \/ \E text \in Batches : Receive(text)
    \/ ReceiveThread
    \/ QueueThread
    \/ QueueClear
    \/ \E p \in BOOLEAN : QueuePause(p)
    \/ ChatBoxClear
    \/ HttpClear
    \/ StopLoop
    \/ MainThread
    \/ Time

\* Every thread that can run does, the mutex is not denied to one for ever, a
\* packet that is sent again and again gets out, and the clock goes on.
Fairness ==
    /\ SF_vars(ReceiveThread)
    /\ SF_vars(QueueThread)
    /\ SF_vars(LoopTick)
    /\ SF_vars(LoopOscCheck)
    /\ SF_vars(LoopOscSend(TRUE))
    /\ WF_vars(HttpClear)
    /\ SF_vars(MainThread)
    /\ WF_vars(Time)

Spec == Init /\ [][Next]_vars /\ Fairness

-----------------------------------------------------------------------------
(* Properties *)

\* A text the formatter let pass is on its way to the queue or in it, until it
\* is shown, given up by a command or the shutdown, or skipped as one that was
\* shown lately: failed sends and refusals lose none.  A deleted queue holds
\* nothing.
NothingVanishes ==
    owed \subseteq Range(finalTexts)
                  \cup IF alive THEN Range(batch) \cup Range(pending) ELSE {}

\* Between two sends the ChatBox shows what the status page reports as sent
\* last, or nothing.
DisplayMatchesReport == call = NoCall => display \in {lastSent, Blank}

\* Nobody is inside the queue when main has deleted it, and what VRChat shows
\* is not changed by a text any more.
NoUseAfterDelete == ~alive => Free /\ queueThread = "exited"

\* Every text that passed the formatter is shown, unless the user paused the
\* queue, or gave the text up.
EveryTextShown ==
    \A t \in Text : t \in owed ~> (t \notin owed \/ paused)

\* The shutdown ends, whatever the other threads do at that moment.
ShutdownEnds == (main = "joining") ~> (main = "done")

=============================================================================
