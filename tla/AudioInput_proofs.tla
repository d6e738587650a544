--------------------------- MODULE AudioInput_proofs ---------------------------
(***************************************************************************)
(* Proofs about the PC's audio input, for any devices and HTTP tasks.      *)
(***************************************************************************)
EXTENDS AudioInput, TLAPS

\* The capture thread exists while main runs its loop, and speech is in its
\* hands only while it runs.
CaptureInv ==
    /\ capture = "none" <=>
          main \in {"begin", "read", "show", "pick", "start", "flush", "typing",
                    "others", "ended"}
    /\ \A c \in Callers : call[c].to =>
          \/ c = "capture" /\ capture = "run"
          \/ c = "main" /\ main = "typing"
    /\ \A c \in Callers : call[c].at = "test" => call[c].to

(* The indicator: a thread past the test of setTyping is alone unless two  *)
(* equal calls overlapped, and it changes the flag.                        *)
Past(c) == call[c].at \in {"send", "note"}

TypingInv ==
    ~overlapped =>
        /\ \A c, d \in Callers : Past(c) /\ Past(d) => c = d
        /\ \A c \in Callers : Past(c) => (typing <=> ~call[c].to)
        /\ \A c \in Callers : call[c].at = "send" => (vrchat <=> typing)
        /\ \A c \in Callers : call[c].at = "note" => (vrchat <=> ~typing)
        /\ (\A c \in Callers : ~Past(c)) => (vrchat <=> typing)

\* After main has taken the indicator off nobody puts it on again.
OffInv ==
    main \in {"others", "ended"} /\ ~unsent => ~typing \/ \E c \in Callers : Past(c)

(* The input: a selection that is not yet what is captured and shown has a  *)
(* restart to come, from its task or from main.                             *)
Pending == restart \/ \E t \in Tasks : task[t].at \in {"read", "show", "request"}

InputInv ==
    ~Pending =>
        /\ main \in {"show", "start"} => seen = selected
        /\ main \in {"look", "sleep", "error"} =>
              captured = IF loopback THEN Default ELSE selected
        /\ main \in {"pick", "start", "look", "sleep", "error"} =>
              shown = [mode |-> Mode, id |-> selected]

AudioInv == TypeOK /\ CaptureInv /\ TypingInv /\ OffInv /\ InputInv

-----------------------------------------------------------------------------
\* Types, variable by variable.
LEMMA Types ==
    TypeOK <=>
        /\ running \in BOOLEAN /\ loopback \in BOOLEAN /\ loopbackMode \in BOOLEAN
        /\ restart \in BOOLEAN /\ listening \in BOOLEAN /\ requested \in BOOLEAN
        /\ mRunning \in BOOLEAN /\ lastError \in BOOLEAN /\ typing \in BOOLEAN
        /\ vrchat \in BOOLEAN /\ overlapped \in BOOLEAN /\ unsent \in BOOLEAN
        /\ selected \in Ids /\ seen \in Ids /\ captured \in Ids
        /\ shown \in [mode : {"none", "capture", "loopback"}, id : Ids]
        /\ main \in {"begin", "read", "show", "pick", "start", "look", "sleep", "error",
                     "stop", "join", "abort", "give up", "flush", "typing", "others", "ended"}
        /\ capture \in {"none", "open", "run", "closing", "ended"}
        /\ task \in [Tasks -> [at : {"idle", "set", "read", "show", "request", "pause"},
                               id : Ids]]
        /\ call \in [Callers -> [at : {"idle", "test", "send", "note"}, to : BOOLEAN]]
BY DEF TypeOK

LEMMA CallersIn ==
    "main" \in Callers /\ "capture" \in Callers /\ "receive" \in Callers /\ Tasks \subseteq Callers
BY DEF Callers

\* setTyping, entered by a thread that is not past the test.
LEMMA EnterType ==
    ASSUME TypeOK, NEW c \in Callers, NEW to \in BOOLEAN, Enter(c, to)
    PROVE  /\ call' \in [Callers -> [at : {"idle", "test", "send", "note"}, to : BOOLEAN]]
           /\ overlapped' \in BOOLEAN
<1>1. CASE typing = to
  <2>1. overlapped' \in BOOLEAN
    BY <1>1 DEF Enter, TypeOK
  <2>2. call' = [call EXCEPT ![c] = NoCall]
    BY <1>1 DEF Enter
  <2> QED
    BY <2>1, <2>2 DEF TypeOK, NoCall
<1>2. CASE typing # to
  <2>1. overlapped' \in BOOLEAN
    BY <1>2 DEF Enter
  <2>2. call' = [call EXCEPT ![c] = [at |-> "send", to |-> to]]
    BY <1>2 DEF Enter
  <2> QED
    BY <2>1, <2>2 DEF TypeOK
<1> QED
  BY <1>1, <1>2

\* Every step keeps the types.
LEMMA NextType ==
    ASSUME TypeOK, [Next]_vars
    PROVE  TypeOK'
<1> USE AudioAssumption DEF TypeOK, Ids, vars, inputVars, mainVars, captureVars, typingVars, boundVars
<1>1. CASE Begin
  BY <1>1 DEF Begin, MainRest, Silent, Started, Mode
<1>2. CASE MainReads
  BY <1>2 DEF MainReads, MainRest, Silent, Started, Mode
<1>3. CASE MainShows
  BY <1>3 DEF MainShows, MainRest, Silent, Started, Mode
<1>4. CASE Pick
  BY <1>4 DEF Pick, MainRest, Silent, Started, Mode
<1>5. CASE Start
  BY <1>5 DEF Start, MainRest, Silent, Started, Mode
<1>6. CASE Look
  BY <1>6 DEF Look, MainRest, Silent, Started, Mode
<1>7. CASE Exchange
  BY <1>7 DEF Exchange, MainRest, Silent, Started, Mode
<1>8. CASE LookForError
  BY <1>8 DEF LookForError, MainRest, Silent, Started, Mode
<1>9. CASE Stop
  BY <1>9 DEF Stop, MainRest, Silent, Started, Mode
<1>10. CASE Join
  BY <1>10 DEF Join, MainRest, Silent, Started, Mode
<1>11. CASE Flush
  <2>1. /\ call' \in [Callers -> [at : {"idle", "test", "send", "note"}, to : BOOLEAN]]
        /\ overlapped' \in BOOLEAN
    BY <1>11, EnterType, CallersIn DEF Flush, Silent
  <2> QED
    BY <1>11, <2>1 DEF Flush, MainRest
<1>12. CASE TypingOff
  <2>1. /\ call' \in [Callers -> [at : {"idle", "test", "send", "note"}, to : BOOLEAN]]
        /\ overlapped' \in BOOLEAN
    BY <1>12, EnterType, CallersIn DEF TypingOff
  <2> QED
    BY <1>12, <2>1 DEF TypingOff, MainRest
<1>13. CASE StopOthers
  BY <1>13 DEF StopOthers, MainRest, Silent, Started, Mode
<1>14. CASE Open
  BY <1>14 DEF Open, CaptureRest
<1>15. CASE Leave
  BY <1>15 DEF Leave, CaptureRest
<1>16. CASE Close
  BY <1>16 DEF Close, CaptureRest
<1>17. CASE Speech
  <2>1. /\ call' \in [Callers -> [at : {"idle", "test", "send", "note"}, to : BOOLEAN]]
        /\ overlapped' \in BOOLEAN
    BY <1>17, EnterType, CallersIn DEF Speech
  <2> QED
    BY <1>17, <2>1 DEF Speech, TypingRest
<1>18. CASE Speak
  BY <1>18 DEF Speak, CaptureRest
<1>19. CASE Text
  <2>1. /\ call' \in [Callers -> [at : {"idle", "test", "send", "note"}, to : BOOLEAN]]
        /\ overlapped' \in BOOLEAN
    BY <1>19, EnterType, CallersIn DEF Text
  <2> QED
    BY <1>19, <2>1 DEF Text
<1>20. CASE Quit
  BY <1>20 DEF Quit
<1>21. ASSUME NEW c \in Callers, Send(c) PROVE TypeOK'
  <2>1. call' \in [Callers -> [at : {"idle", "test", "send", "note"}, to : BOOLEAN]]
    <3>1. \/ call' = [call EXCEPT ![c].at = "note"]
          \/ call' = [call EXCEPT ![c] = NoCall]
      BY <1>21 DEF Send
    <3>2. CASE call' = [call EXCEPT ![c].at = "note"]
      BY <3>2
    <3>3. CASE call' = [call EXCEPT ![c] = NoCall]
      BY <3>3 DEF NoCall
    <3> QED
      BY <3>1, <3>2, <3>3
  <2>2. vrchat' \in BOOLEAN
    BY <1>21 DEF Send
  <2>3. unsent' \in BOOLEAN
    BY <1>21 DEF Send
  <2> QED
    BY <1>21, <2>1, <2>2, <2>3 DEF Send, TypingRest
<1>22. ASSUME NEW c \in Callers, Note(c) PROVE TypeOK'
  <2>1. call' \in [Callers -> [at : {"idle", "test", "send", "note"}, to : BOOLEAN]]
    BY <1>22 DEF Note, NoCall
  <2>2. typing' \in BOOLEAN
    BY <1>22 DEF Note
  <2> QED
    BY <1>22, <2>1, <2>2 DEF Note, TypingRest
<1>23. ASSUME NEW t \in Tasks, SetSelected(t) PROVE TypeOK'
  <2>1. task[t].id \in Ids
    OBVIOUS
  <2>2. task' \in [Tasks -> [at : {"idle", "set", "read", "show", "request", "pause"}, id : Ids]]
    BY <1>23 DEF SetSelected, At
  <2> QED
    BY <1>23, <2>1, <2>2 DEF SetSelected, Silent, TaskRest
<1>24. ASSUME NEW t \in Tasks, TaskReads(t) PROVE TypeOK'
  BY <1>24 DEF TaskReads, At, Silent, TaskRest, Idle
<1>25. ASSUME NEW t \in Tasks, TaskShows(t) PROVE TypeOK'
  BY <1>25 DEF TaskShows, At, Silent, TaskRest, Idle
<1>26. ASSUME NEW t \in Tasks, Request(t) PROVE TypeOK'
  BY <1>26 DEF Request, At, Silent, TaskRest, Idle
<1>27. ASSUME NEW t \in Tasks, Paused(t) PROVE TypeOK'
  BY <1>27 DEF Paused, At, Silent, TaskRest, Idle
<1>28. ASSUME NEW t \in Tasks, NEW id \in Ids, Select(t, id) PROVE TypeOK'
  <2>1. task' \in [Tasks -> [at : {"idle", "set", "read", "show", "request", "pause"}, id : Ids]]
    <3>1. task' = [task EXCEPT ![t] = [at |-> "set", id |-> id]] \/ task' = task
      BY <1>28 DEF Select
    <3>2. CASE task' = task
      BY <3>2
    <3>3. CASE task' = [task EXCEPT ![t] = [at |-> "set", id |-> id]]
      BY <3>3, <1>28
    <3> QED
      BY <3>1, <3>2, <3>3
  <2> QED
    BY <1>28, <2>1 DEF Select, Ask, Silent, TaskRest
<1>29. ASSUME NEW t \in Tasks, StartListening(t) PROVE TypeOK'
  BY <1>29 DEF StartListening, Ask, At, Silent, TaskRest
<1>30. ASSUME NEW t \in Tasks, StopListening(t) PROVE TypeOK'
  <2>1. /\ call' \in [Callers -> [at : {"idle", "test", "send", "note"}, to : BOOLEAN]]
        /\ overlapped' \in BOOLEAN
    BY <1>30, EnterType, CallersIn DEF StopListening
  <2> QED
    BY <1>30, <2>1 DEF StopListening, Ask, At, TaskRest
<1>31. CASE UNCHANGED vars
  BY <1>31 DEF vars
<1> QED
  BY <1>1, <1>2, <1>3, <1>4, <1>5, <1>6, <1>7, <1>8, <1>9, <1>10, <1>11, <1>12, <1>13, <1>14, <1>15, <1>16, <1>17, <1>18, <1>19, <1>20, <1>21, <1>22, <1>23, <1>24, <1>25, <1>26, <1>27, <1>28, <1>29, <1>30, <1>31
     DEF Next, MainStep, CaptureStep, TypingStep, TaskStep, User


LEMMA Fields ==
    /\ \A a, b : [at |-> a, to |-> b].at = a /\ [at |-> a, to |-> b].to = b
    /\ \A a, b : [at |-> a, id |-> b].at = a
    /\ \A r, a : [r EXCEPT !.at = a].to = r.to
OBVIOUS

\* setTyping changes its caller's call only: it ends, or it is past the test.
LEMMA EnterEffect ==
    ASSUME TypeOK, NEW c \in Callers, NEW to \in BOOLEAN, Enter(c, to)
    PROVE  /\ ~Past(c)
           /\ \A d \in Callers : d # c => call'[d] = call[d]
           /\ (typing <=> to) =>
                 /\ call'[c].at = "idle" /\ ~call'[c].to
                 /\ overlapped' <=> overlapped
           /\ ~(typing <=> to) =>
                 /\ call'[c].at = "send" /\ (call'[c].to <=> to)
                 /\ ~overlapped' =>
                       /\ ~overlapped
                       /\ \A d \in Callers : d # c /\ Past(d) => ~(call[d].to <=> to)
<1>1. ~Past(c)
  BY DEF Enter, Past
<1>2. CASE typing = to
  <2>1. call' = [call EXCEPT ![c] = NoCall] /\ UNCHANGED overlapped
    BY <1>2 DEF Enter
  <2>2. call'[c] = [at |-> "idle", to |-> FALSE]
    BY <2>1 DEF NoCall, TypeOK
  <2>3. call'[c].at = "idle"
    BY <2>2, Fields
  <2>4. ~call'[c].to
    BY <2>2, Fields
  <2>5. \A d \in Callers : d # c => call'[d] = call[d]
    BY <2>1 DEF TypeOK
  <2>6. typing <=> to
    BY <1>2
  <2> QED
    BY <1>1, <2>1, <2>3, <2>4, <2>5, <2>6
<1>3. CASE typing # to
  <2>1. call' = [call EXCEPT ![c] = [at |-> "send", to |-> to]]
    BY <1>3 DEF Enter
  <2>2. call'[c] = [at |-> "send", to |-> to]
    BY <2>1 DEF TypeOK
  <2>3. call'[c].at = "send" /\ call'[c].to = to
    BY <2>2, Fields
  <2>4. \A d \in Callers : d # c => call'[d] = call[d]
    BY <2>1 DEF TypeOK
  <2>5. ~(typing <=> to)
    BY <1>3 DEF TypeOK
  <2>6. ASSUME ~overlapped'
        PROVE  ~overlapped /\ \A d \in Callers : d # c /\ Past(d) => ~(call[d].to <=> to)
    <3>1. ~(overlapped \/ \E d \in Callers \ {c} :
                call[d].at \in {"send", "note"} /\ call[d].to = to)
      BY <1>3, <2>6 DEF Enter
    <3>2. \A d \in Callers : call[d].to \in BOOLEAN
      BY DEF TypeOK
    <3> QED
      BY <3>1, <3>2 DEF Past
  <2> QED
    BY <1>1, <2>3, <2>4, <2>5, <2>6
<1> QED
  BY <1>2, <1>3

\* The packet is sent, or it is not.
LEMMA SendEffect ==
    ASSUME TypeOK, NEW c \in Callers, Send(c)
    PROVE  /\ call[c].at = "send"
           /\ \A d \in Callers : d # c => call'[d] = call[d]
           /\ \/ /\ vrchat' <=> call[c].to
                 /\ call'[c].at = "note" /\ (call'[c].to <=> call[c].to)
                 /\ unsent' <=> unsent
              \/ /\ vrchat' <=> vrchat
                 /\ call'[c].at = "idle" /\ ~call'[c].to
                 /\ unsent'
<1>1. CASE vrchat' = call[c].to /\ call' = [call EXCEPT ![c].at = "note"] /\ UNCHANGED unsent
  <2>1. call'[c] = [call[c] EXCEPT !.at = "note"]
    BY <1>1 DEF TypeOK
  <2>2. call'[c].at = "note" /\ call'[c].to = call[c].to
    BY <2>1, Fields
  <2> QED
    BY <1>1, <2>2 DEF Send, TypeOK
<1>2. CASE call' = [call EXCEPT ![c] = NoCall] /\ unsent' = TRUE /\ UNCHANGED vrchat
  <2>1. call'[c] = [at |-> "idle", to |-> FALSE]
    BY <1>2 DEF NoCall, TypeOK
  <2>2. call'[c].at = "idle" /\ call'[c].to = FALSE
    BY <2>1, Fields
  <2> QED
    BY <1>2, <2>2 DEF Send, TypeOK
<1> QED
  BY <1>1, <1>2 DEF Send

\* A packet that was sent is noted.
LEMMA NoteEffect ==
    ASSUME TypeOK, NEW c \in Callers, Note(c)
    PROVE  /\ call[c].at = "note"
           /\ \A d \in Callers : d # c => call'[d] = call[d]
           /\ typing' <=> call[c].to
           /\ call'[c].at = "idle" /\ ~call'[c].to
<1>1. call' = [call EXCEPT ![c] = NoCall] /\ typing' = call[c].to /\ call[c].at = "note"
  BY DEF Note
<1>2. call'[c] = [at |-> "idle", to |-> FALSE]
  BY <1>1 DEF NoCall, TypeOK
<1>3. call'[c].at = "idle" /\ call'[c].to = FALSE
  BY <1>2, Fields
<1> QED
  BY <1>1, <1>3 DEF TypeOK


\* setTyping keeps what is known of the flag and the indicator.
LEMMA EnterTyping ==
    ASSUME TypeOK, TypingInv, NEW c \in Callers, NEW to \in BOOLEAN, Enter(c, to),
           UNCHANGED <<typing, vrchat>>
    PROVE  TypingInv'
<1> SUFFICES ASSUME ~overlapped'
             PROVE  /\ \A d, e \in Callers : Past(d)' /\ Past(e)' => d = e
                    /\ \A d \in Callers : Past(d)' => (typing' <=> ~call'[d].to)
                    /\ \A d \in Callers : call'[d].at = "send" => (vrchat' <=> typing')
                    /\ \A d \in Callers : call'[d].at = "note" => (vrchat' <=> ~typing')
                    /\ (\A d \in Callers : ~Past(d)') => (vrchat' <=> typing')
  BY DEF TypingInv, Past
<1>1. /\ ~Past(c)
      /\ \A d \in Callers : d # c => call'[d] = call[d]
      /\ (typing' <=> typing) /\ (vrchat' <=> vrchat)
  BY EnterEffect
<1>2. CASE typing <=> to
  <2>1. call'[c].at = "idle" /\ ~overlapped
    BY <1>2, EnterEffect
  <2> QED
    BY <1>1, <2>1 DEF TypingInv, Past
<1>3. CASE ~(typing <=> to)
  <2>1. /\ call'[c].at = "send" /\ (call'[c].to <=> to)
        /\ ~overlapped
        /\ \A d \in Callers : d # c /\ Past(d) => ~(call[d].to <=> to)
    BY <1>3, EnterEffect
  <2>2. \A d \in Callers : ~Past(d)
    BY <1>1, <1>3, <2>1 DEF TypingInv
  <2>3. vrchat <=> typing
    BY <2>1, <2>2 DEF TypingInv
  <2>4. \A d \in Callers : Past(d)' <=> d = c
    BY <1>1, <2>1, <2>2 DEF Past
  <2> QED
    BY <1>1, <1>3, <2>1, <2>3, <2>4 DEF Past
<1> QED
  BY <1>2, <1>3

\* A thread that is past the test stays so while another calls setTyping.
LEMMA EnterPast ==
    ASSUME TypeOK, NEW c \in Callers, NEW to \in BOOLEAN, Enter(c, to)
    PROVE  (\E d \in Callers : Past(d)) => \E d \in Callers : Past(d)'
<1>1. ~Past(c) /\ \A d \in Callers : d # c => call'[d] = call[d]
  BY EnterEffect
<1> QED
  BY <1>1 DEF Past

\* The capture thread and what it is told.
LEMMA NextCapture ==
    ASSUME TypeOK, CaptureInv, [Next]_vars
    PROVE  CaptureInv'
<1> USE AudioAssumption DEF CaptureInv, vars, inputVars, mainVars, captureVars, typingVars, boundVars
<1>1. CASE Begin
  BY <1>1 DEF Begin, MainRest, Silent, Started, Mode
<1>2. CASE MainReads
  BY <1>2 DEF MainReads, MainRest, Silent, Started, Mode
<1>3. CASE MainShows
  BY <1>3 DEF MainShows, MainRest, Silent, Started, Mode
<1>4. CASE Pick
  BY <1>4 DEF Pick, MainRest, Silent, Started, Mode
<1>5. CASE Start
  BY <1>5 DEF Start, MainRest, Silent, Started, Mode
<1>6. CASE Look
  BY <1>6 DEF Look, MainRest, Silent, Started, Mode
<1>7. CASE Exchange
  BY <1>7 DEF Exchange, MainRest, Silent, Started, Mode
<1>8. CASE LookForError
  BY <1>8 DEF LookForError, MainRest, Silent, Started, Mode
<1>9. CASE Stop
  BY <1>9 DEF Stop, MainRest, Silent, Started, Mode
<1>10. CASE Join
  BY <1>10 DEF Join, MainRest, Silent, Started, Mode
<1>11. CASE Flush
  <2>1. CASE UNCHANGED call
    BY <1>11, <2>1 DEF Flush
  <2>2. CASE Enter("main", TRUE)
    <3>1. /\ \A d \in Callers : d # "main" => call'[d] = call[d]
          /\ call'["main"].at # "test"
      BY <2>2, EnterEffect, CallersIn
    <3> QED
      BY <1>11, <3>1 DEF Flush, MainRest
  <2> QED
    BY <1>11, <2>1, <2>2 DEF Flush, Silent
<1>12. CASE TypingOff
  <2>1. /\ \A d \in Callers : d # "main" => call'[d] = call[d]
        /\ ~call'["main"].to /\ call'["main"].at # "test"
    BY <1>12, EnterEffect, CallersIn DEF TypingOff
  <2> QED
    BY <1>12, <2>1, CallersIn DEF TypingOff, MainRest
<1>13. CASE StopOthers
  BY <1>13 DEF StopOthers, MainRest, Silent, Started, Mode
<1>14. CASE Open
  BY <1>14 DEF Open, CaptureRest
<1>15. CASE Leave
  <2>1. ~call["capture"].to
    BY <1>15 DEF Leave, NoCall
  <2> QED
    BY <1>15, <2>1 DEF Leave, CaptureRest
<1>16. CASE Close
  BY <1>16 DEF Close, CaptureRest
<1>17. CASE Speech
  <2>1. /\ \A d \in Callers : d # "capture" => call'[d] = call[d]
        /\ call'["capture"].at # "test"
    BY <1>17, EnterEffect, CallersIn DEF Speech
  <2>2. capture = "run"
    BY <1>17, CallersIn DEF Speech
  <2> QED
    BY <1>17, <2>1, <2>2 DEF Speech, TypingRest
<1>18. CASE Speak
  <2>1. call' = [call EXCEPT !["capture"] = [at |-> "test", to |-> TRUE]]
    BY <1>18 DEF Speak
  <2>2. /\ \A d \in Callers : d # "capture" => call'[d] = call[d]
        /\ call'["capture"] = [at |-> "test", to |-> TRUE]
    BY <2>1, CallersIn DEF TypeOK
  <2>3. call'["capture"].to
    BY <2>2, Fields
  <2> QED
    BY <1>18, <2>2, <2>3 DEF Speak, CaptureRest
<1>19. CASE Text
  <2>1. CASE UNCHANGED call
    BY <1>19, <2>1 DEF Text
  <2>2. CASE Enter("receive", FALSE)
    <3>1. /\ \A d \in Callers : d # "receive" => call'[d] = call[d]
          /\ ~call'["receive"].to /\ call'["receive"].at # "test"
      BY <2>2, EnterEffect, CallersIn
    <3> QED
      BY <1>19, <3>1 DEF Text
  <2> QED
    BY <1>19, <2>1, <2>2 DEF Text
<1>20. CASE Quit
  BY <1>20 DEF Quit
<1>21. ASSUME NEW c \in Callers, Send(c) PROVE CaptureInv'
  <2>1. /\ \A d \in Callers : d # c => call'[d] = call[d]
        /\ call'[c].to => call[c].to
        /\ call'[c].at # "test"
    BY <1>21, SendEffect
  <2> QED
    BY <1>21, <2>1 DEF Send, TypingRest
<1>22. ASSUME NEW c \in Callers, Note(c) PROVE CaptureInv'
  <2>1. /\ \A d \in Callers : d # c => call'[d] = call[d]
        /\ ~call'[c].to
        /\ call'[c].at # "test"
    BY <1>22, NoteEffect
  <2> QED
    BY <1>22, <2>1 DEF Note, TypingRest
<1>23. ASSUME NEW t \in Tasks, SetSelected(t) PROVE CaptureInv'
  BY <1>23 DEF SetSelected, At, Silent, TaskRest, Idle
<1>24. ASSUME NEW t \in Tasks, TaskReads(t) PROVE CaptureInv'
  BY <1>24 DEF TaskReads, At, Silent, TaskRest, Idle
<1>25. ASSUME NEW t \in Tasks, TaskShows(t) PROVE CaptureInv'
  BY <1>25 DEF TaskShows, At, Silent, TaskRest, Idle
<1>26. ASSUME NEW t \in Tasks, Request(t) PROVE CaptureInv'
  BY <1>26 DEF Request, At, Silent, TaskRest, Idle
<1>27. ASSUME NEW t \in Tasks, Paused(t) PROVE CaptureInv'
  BY <1>27 DEF Paused, At, Silent, TaskRest, Idle
<1>28. ASSUME NEW t \in Tasks, NEW id \in Ids, Select(t, id) PROVE CaptureInv'
  BY <1>28 DEF Select, Ask, Silent, TaskRest
<1>29. ASSUME NEW t \in Tasks, StartListening(t) PROVE CaptureInv'
  BY <1>29 DEF StartListening, Ask, At, Silent, TaskRest
<1>30. ASSUME NEW t \in Tasks, StopListening(t) PROVE CaptureInv'
  <2>1. /\ \A d \in Callers : d # t => call'[d] = call[d]
        /\ ~call'[t].to
        /\ call'[t].at # "test"
    BY <1>30, EnterEffect, CallersIn DEF StopListening
  <2> QED
    BY <1>30, <2>1 DEF StopListening, Ask, TaskRest
<1>31. CASE UNCHANGED vars
  BY <1>31 DEF vars
<1> QED
  BY <1>1, <1>2, <1>3, <1>4, <1>5, <1>6, <1>7, <1>8, <1>9, <1>10, <1>11, <1>12, <1>13, <1>14, <1>15, <1>16, <1>17, <1>18, <1>19, <1>20, <1>21, <1>22, <1>23, <1>24, <1>25, <1>26, <1>27, <1>28, <1>29, <1>30, <1>31
     DEF Next, MainStep, CaptureStep, TypingStep, TaskStep, User

\* The indicator and its flag.
LEMMA NextTyping ==
    ASSUME TypeOK, CaptureInv, TypingInv, [Next]_vars
    PROVE  TypingInv'
<1> USE AudioAssumption DEF TypingInv, Past, vars, inputVars, mainVars, captureVars, typingVars, boundVars
<1>1. CASE Begin
  BY <1>1 DEF Begin, MainRest, Silent, Started, Mode
<1>2. CASE MainReads
  BY <1>2 DEF MainReads, MainRest, Silent, Started, Mode
<1>3. CASE MainShows
  BY <1>3 DEF MainShows, MainRest, Silent, Started, Mode
<1>4. CASE Pick
  BY <1>4 DEF Pick, MainRest, Silent, Started, Mode
<1>5. CASE Start
  BY <1>5 DEF Start, MainRest, Silent, Started, Mode
<1>6. CASE Look
  BY <1>6 DEF Look, MainRest, Silent, Started, Mode
<1>7. CASE Exchange
  BY <1>7 DEF Exchange, MainRest, Silent, Started, Mode
<1>8. CASE LookForError
  BY <1>8 DEF LookForError, MainRest, Silent, Started, Mode
<1>9. CASE Stop
  BY <1>9 DEF Stop, MainRest, Silent, Started, Mode
<1>10. CASE Join
  BY <1>10 DEF Join, MainRest, Silent, Started, Mode
<1>11. CASE Flush
  <2>1. CASE Enter("main", TRUE)
    BY <1>11, <2>1, EnterTyping, CallersIn DEF Flush, MainRest
  <2>2. CASE UNCHANGED <<call, overlapped>>
    BY <1>11, <2>2 DEF Flush, MainRest
  <2> QED
    BY <1>11, <2>1, <2>2 DEF Flush, Silent
<1>12. CASE TypingOff
  <2>1. Enter("main", FALSE)
    BY <1>12 DEF TypingOff
  <2>2. UNCHANGED <<typing, vrchat>>
    BY <1>12 DEF TypingOff, MainRest
  <2> QED
    BY <2>1, <2>2, EnterTyping, CallersIn
<1>13. CASE StopOthers
  BY <1>13 DEF StopOthers, MainRest, Silent, Started, Mode
<1>14. CASE Open
  BY <1>14 DEF Open, CaptureRest
<1>15. CASE Leave
  BY <1>15 DEF Leave, CaptureRest
<1>16. CASE Close
  BY <1>16 DEF Close, CaptureRest
<1>17. CASE Speech
  <2>1. Enter("capture", TRUE)
    BY <1>17 DEF Speech
  <2>2. UNCHANGED <<typing, vrchat>>
    BY <1>17 DEF Speech
  <2> QED
    BY <2>1, <2>2, EnterTyping, CallersIn
<1>18. CASE Speak
  <2>1. /\ call["capture"].at = "idle"
        /\ call' = [call EXCEPT !["capture"] = [at |-> "test", to |-> TRUE]]
    BY <1>18 DEF Speak, NoCall
  <2>2. /\ \A d \in Callers : d # "capture" => call'[d] = call[d]
        /\ call'["capture"].at = "test"
    BY <2>1, CallersIn DEF TypeOK
  <2> QED
    BY <1>18, <2>1, <2>2 DEF Speak, CaptureRest
<1>19. CASE Text
  <2>1. CASE Enter("receive", FALSE)
    BY <1>19, <2>1, EnterTyping, CallersIn DEF Text
  <2>2. CASE UNCHANGED <<call, overlapped>>
    BY <1>19, <2>2 DEF Text
  <2> QED
    BY <1>19, <2>1, <2>2 DEF Text
<1>20. CASE Quit
  BY <1>20 DEF Quit
<1>21. ASSUME NEW c \in Callers, Send(c) PROVE TypingInv'
  <2>1. /\ call[c].at = "send"
        /\ \A d \in Callers : d # c => call'[d] = call[d]
        /\ (typing' <=> typing) /\ (overlapped' <=> overlapped)
    BY <1>21, SendEffect DEF Send
  <2>2. CASE /\ vrchat' <=> call[c].to
             /\ call'[c].at = "note" /\ (call'[c].to <=> call[c].to)
    BY <2>1, <2>2
  <2>3. CASE (vrchat' <=> vrchat) /\ call'[c].at = "idle"
    BY <2>1, <2>3
  <2> QED
    BY <1>21, <2>2, <2>3, SendEffect
<1>22. ASSUME NEW c \in Callers, Note(c) PROVE TypingInv'
  <2>1. /\ call[c].at = "note"
        /\ \A d \in Callers : d # c => call'[d] = call[d]
        /\ typing' <=> call[c].to
        /\ call'[c].at = "idle"
    BY <1>22, NoteEffect
  <2>2. (vrchat' <=> vrchat) /\ (overlapped' <=> overlapped)
    BY <1>22 DEF Note
  <2> QED
    BY <2>1, <2>2
<1>23. ASSUME NEW t \in Tasks, SetSelected(t) PROVE TypingInv'
  BY <1>23 DEF SetSelected, At, Silent, TaskRest, Idle
<1>24. ASSUME NEW t \in Tasks, TaskReads(t) PROVE TypingInv'
  BY <1>24 DEF TaskReads, At, Silent, TaskRest, Idle
<1>25. ASSUME NEW t \in Tasks, TaskShows(t) PROVE TypingInv'
  BY <1>25 DEF TaskShows, At, Silent, TaskRest, Idle
<1>26. ASSUME NEW t \in Tasks, Request(t) PROVE TypingInv'
  BY <1>26 DEF Request, At, Silent, TaskRest, Idle
<1>27. ASSUME NEW t \in Tasks, Paused(t) PROVE TypingInv'
  BY <1>27 DEF Paused, At, Silent, TaskRest, Idle
<1>28. ASSUME NEW t \in Tasks, NEW id \in Ids, Select(t, id) PROVE TypingInv'
  BY <1>28 DEF Select, Ask, Silent, TaskRest
<1>29. ASSUME NEW t \in Tasks, StartListening(t) PROVE TypingInv'
  BY <1>29 DEF StartListening, Ask, At, Silent, TaskRest
<1>30. ASSUME NEW t \in Tasks, StopListening(t) PROVE TypingInv'
  <2>1. Enter(t, FALSE)
    BY <1>30 DEF StopListening
  <2>2. UNCHANGED <<typing, vrchat>>
    BY <1>30 DEF StopListening, TaskRest
  <2> QED
    BY <2>1, <2>2, EnterTyping, CallersIn
<1>31. CASE UNCHANGED vars
  BY <1>31 DEF vars
<1> QED
  BY <1>1, <1>2, <1>3, <1>4, <1>5, <1>6, <1>7, <1>8, <1>9, <1>10, <1>11, <1>12, <1>13, <1>14, <1>15, <1>16, <1>17, <1>18, <1>19, <1>20, <1>21, <1>22, <1>23, <1>24, <1>25, <1>26, <1>27, <1>28, <1>29, <1>30, <1>31
     DEF Next, MainStep, CaptureStep, TypingStep, TaskStep, User

\* The indicator after the shutdown.
LEMMA NextOff ==
    ASSUME TypeOK, CaptureInv, OffInv, [Next]_vars
    PROVE  OffInv'
<1> USE AudioAssumption DEF OffInv, vars, inputVars, mainVars, captureVars, typingVars, boundVars
<1>1. CASE Begin
  BY <1>1 DEF Past, Begin, MainRest, Silent, Started, Mode
<1>2. CASE MainReads
  BY <1>2 DEF Past, MainReads, MainRest, Silent, Started, Mode
<1>3. CASE MainShows
  BY <1>3 DEF Past, MainShows, MainRest, Silent, Started, Mode
<1>4. CASE Pick
  BY <1>4 DEF Past, Pick, MainRest, Silent, Started, Mode
<1>5. CASE Start
  BY <1>5 DEF Past, Start, MainRest, Silent, Started, Mode
<1>6. CASE Look
  BY <1>6 DEF Past, Look, MainRest, Silent, Started, Mode
<1>7. CASE Exchange
  BY <1>7 DEF Past, Exchange, MainRest, Silent, Started, Mode
<1>8. CASE LookForError
  BY <1>8 DEF Past, LookForError, MainRest, Silent, Started, Mode
<1>9. CASE Stop
  BY <1>9 DEF Past, Stop, MainRest, Silent, Started, Mode
<1>10. CASE Join
  BY <1>10 DEF Past, Join, MainRest, Silent, Started, Mode
<1>11. CASE Flush
  BY <1>11 DEF Past, Flush, MainRest, Silent, Started, Mode
<1>12. CASE TypingOff
  <2>1. CASE typing
    <3>1. Past("main")'
      BY <1>12, <2>1, EnterEffect, CallersIn DEF TypingOff, Past
    <3> QED
      BY <3>1, CallersIn
  <2>2. CASE ~typing
    BY <1>12, <2>2 DEF TypingOff, MainRest
  <2> QED
    BY <2>1, <2>2
<1>13. CASE StopOthers
  BY <1>13 DEF Past, StopOthers, MainRest, Silent, Started, Mode
<1>14. CASE Open
  BY <1>14 DEF Past, Open, CaptureRest
<1>15. CASE Leave
  BY <1>15 DEF Past, Leave, CaptureRest
<1>16. CASE Close
  BY <1>16 DEF Past, Close, CaptureRest
<1>17. CASE Speech
  <2>1. (\E d \in Callers : Past(d)) => \E d \in Callers : Past(d)'
    BY <1>17, EnterPast, CallersIn DEF Speech
  <2> QED
    BY <1>17, <2>1 DEF Speech, TypingRest
<1>18. CASE Speak
  <2>1. capture # "none"
    BY <1>18 DEF Speak
  <2> QED
    BY <1>18, <2>1 DEF Speak, CaptureRest, CaptureInv
<1>19. CASE Text
  <2>1. (\E d \in Callers : Past(d)) => \E d \in Callers : Past(d)'
    <3>1. CASE Enter("receive", FALSE)
      BY <3>1, EnterPast, CallersIn
    <3>2. CASE UNCHANGED <<call, overlapped>>
      BY <3>2 DEF Past
    <3> QED
      BY <1>19, <3>1, <3>2 DEF Text
  <2> QED
    BY <1>19, <2>1 DEF Text
<1>20. CASE Quit
  BY <1>20 DEF Past, Quit
<1>21. ASSUME NEW c \in Callers, Send(c) PROVE OffInv'
  <2>1. CASE unsent'
    BY <2>1
  <2>2. CASE ~unsent'
    <3>1. call'[c].at = "note" /\ (unsent' <=> unsent) /\ main' = main
      BY <1>21, <2>2, SendEffect DEF Send, TypingRest
    <3> QED
      BY <3>1 DEF Past
  <2> QED
    BY <2>1, <2>2
<1>22. ASSUME NEW c \in Callers, Note(c) PROVE OffInv'
  <2>1. main \in {"others", "ended"} => ~call[c].to
    BY DEF CaptureInv
  <2>2. typing' <=> call[c].to
    BY <1>22, NoteEffect
  <2> QED
    BY <1>22, <2>1, <2>2 DEF Note, TypingRest
<1>23. ASSUME NEW t \in Tasks, SetSelected(t) PROVE OffInv'
  BY <1>23 DEF Past, SetSelected, At, Silent, TaskRest, Idle
<1>24. ASSUME NEW t \in Tasks, TaskReads(t) PROVE OffInv'
  BY <1>24 DEF Past, TaskReads, At, Silent, TaskRest, Idle
<1>25. ASSUME NEW t \in Tasks, TaskShows(t) PROVE OffInv'
  BY <1>25 DEF Past, TaskShows, At, Silent, TaskRest, Idle
<1>26. ASSUME NEW t \in Tasks, Request(t) PROVE OffInv'
  BY <1>26 DEF Past, Request, At, Silent, TaskRest, Idle
<1>27. ASSUME NEW t \in Tasks, Paused(t) PROVE OffInv'
  BY <1>27 DEF Past, Paused, At, Silent, TaskRest, Idle
<1>28. ASSUME NEW t \in Tasks, NEW id \in Ids, Select(t, id) PROVE OffInv'
  BY <1>28 DEF Past, Select, Ask, Silent, TaskRest
<1>29. ASSUME NEW t \in Tasks, StartListening(t) PROVE OffInv'
  BY <1>29 DEF Past, StartListening, Ask, At, Silent, TaskRest
<1>30. ASSUME NEW t \in Tasks, StopListening(t) PROVE OffInv'
  <2>1. (\E d \in Callers : Past(d)) => \E d \in Callers : Past(d)'
    BY <1>30, EnterPast, CallersIn DEF StopListening
  <2> QED
    BY <1>30, <2>1 DEF StopListening, TaskRest
<1>31. CASE UNCHANGED vars
  BY <1>31 DEF Past, vars
<1> QED
  BY <1>1, <1>2, <1>3, <1>4, <1>5, <1>6, <1>7, <1>8, <1>9, <1>10, <1>11, <1>12, <1>13, <1>14, <1>15, <1>16, <1>17, <1>18, <1>19, <1>20, <1>21, <1>22, <1>23, <1>24, <1>25, <1>26, <1>27, <1>28, <1>29, <1>30, <1>31
     DEF Next, MainStep, CaptureStep, TypingStep, TaskStep, User

\* The selection, what is captured and what is shown.
LEMMA NextInput ==
    ASSUME TypeOK, InputInv, [Next]_vars
    PROVE  InputInv'
<1> USE AudioAssumption DEF InputInv, Pending, Mode, vars, inputVars, mainVars, captureVars, typingVars, boundVars
<1>1. CASE Begin
  BY <1>1 DEF Begin, MainRest, Silent, Started
<1>2. CASE MainReads
  BY <1>2 DEF MainReads, MainRest, Silent, Started
<1>3. CASE MainShows
  BY <1>3 DEF MainShows, MainRest, Silent, Started
<1>4. CASE Pick
  BY <1>4 DEF Pick, MainRest, Silent, Started
<1>5. CASE Start
  BY <1>5 DEF Start, MainRest, Silent, Started
<1>6. CASE Look
  BY <1>6 DEF Look, MainRest, Silent, Started
<1>7. CASE Exchange
  BY <1>7 DEF Exchange, MainRest, Silent, Started
<1>8. CASE LookForError
  BY <1>8 DEF LookForError, MainRest, Silent, Started
<1>9. CASE Stop
  BY <1>9 DEF Stop, MainRest, Silent, Started
<1>10. CASE Join
  BY <1>10 DEF Join, MainRest, Silent, Started
<1>11. CASE Flush
  BY <1>11 DEF Flush, MainRest, Silent, Started
<1>12. CASE TypingOff
  BY <1>12 DEF TypingOff, MainRest, Silent, Started
<1>13. CASE StopOthers
  BY <1>13 DEF StopOthers, MainRest, Silent, Started
<1>14. CASE Open
  BY <1>14 DEF Open, CaptureRest
<1>15. CASE Leave
  BY <1>15 DEF Leave, CaptureRest
<1>16. CASE Close
  BY <1>16 DEF Close, CaptureRest
<1>17. CASE Speech
  BY <1>17 DEF Speech, TypingRest
<1>18. CASE Speak
  BY <1>18 DEF Speak, CaptureRest
<1>19. CASE Text
  BY <1>19 DEF Text
<1>20. CASE Quit
  BY <1>20 DEF Quit
<1>21. ASSUME NEW c \in Callers, Send(c) PROVE InputInv'
  BY <1>21 DEF Send, TypingRest
<1>22. ASSUME NEW c \in Callers, Note(c) PROVE InputInv'
  BY <1>22 DEF Note, TypingRest
<1>23. ASSUME NEW t \in Tasks, SetSelected(t) PROVE InputInv'
  BY <1>23 DEF TypeOK, SetSelected, At, Silent, TaskRest, Idle
<1>24. ASSUME NEW t \in Tasks, TaskReads(t) PROVE InputInv'
  BY <1>24 DEF TypeOK, TaskReads, At, Silent, TaskRest, Idle
<1>25. ASSUME NEW t \in Tasks, TaskShows(t) PROVE InputInv'
  BY <1>25 DEF TypeOK, TaskShows, At, Silent, TaskRest, Idle
<1>26. ASSUME NEW t \in Tasks, Request(t) PROVE InputInv'
  BY <1>26 DEF TypeOK, Request, At, Silent, TaskRest, Idle
<1>27. ASSUME NEW t \in Tasks, Paused(t) PROVE InputInv'
  BY <1>27 DEF TypeOK, Paused, At, Silent, TaskRest, Idle
<1>28. ASSUME NEW t \in Tasks, NEW id \in Ids, Select(t, id) PROVE InputInv'
  <2>1. Pending' <=> Pending
    <3>1. CASE UNCHANGED task
      BY <1>28, <3>1 DEF Select
    <3>2. CASE /\ task[t] = Idle
               /\ task' = [task EXCEPT ![t] = [at |-> "set", id |-> id]]
      <4>1. task[t].at = "idle" /\ task'[t].at = "set"
        <5>1. task[t] = [at |-> "idle", id |-> Default]
          BY <3>2 DEF Idle
        <5>2. task'[t] = [at |-> "set", id |-> id]
          BY <3>2 DEF TypeOK
        <5> QED
          BY <5>1, <5>2, Fields
      <4>2. \A u \in Tasks : u # t => task'[u] = task[u]
        BY <3>2 DEF TypeOK
      <4> QED
        BY <1>28, <4>1, <4>2 DEF Select
    <3> QED
      BY <1>28, <3>1, <3>2 DEF Select, Ask
  <2> QED
    BY <1>28, <2>1 DEF Select, Ask, TaskRest
<1>29. ASSUME NEW t \in Tasks, StartListening(t) PROVE InputInv'
  BY <1>29 DEF StartListening, Ask, At, Silent, TaskRest
<1>30. ASSUME NEW t \in Tasks, StopListening(t) PROVE InputInv'
  <2>1. Pending' <=> Pending
    <3>1. task[t] = Idle /\ task' = [task EXCEPT ![t].at = "pause"]
      BY <1>30 DEF StopListening, Ask, At
    <3>2. task[t].at = "idle" /\ task'[t].at = "pause"
      <4>1. task[t] = [at |-> "idle", id |-> Default]
        BY <3>1 DEF Idle
      <4>2. task'[t] = [task[t] EXCEPT !.at = "pause"]
        BY <3>1 DEF TypeOK
      <4>3. task'[t].at = "pause"
        BY <4>1, <4>2
      <4> QED
        BY <4>1, <4>3, Fields
    <3>3. \A u \in Tasks : u # t => task'[u] = task[u]
      BY <3>1 DEF TypeOK
    <3>4. restart' <=> restart
      BY <1>30 DEF StopListening
    <3> QED
      BY <3>2, <3>3, <3>4
  <2> QED
    BY <1>30, <2>1 DEF StopListening, Ask, TaskRest
<1>31. CASE UNCHANGED vars
  BY <1>31 DEF vars
<1> QED
  BY <1>1, <1>2, <1>3, <1>4, <1>5, <1>6, <1>7, <1>8, <1>9, <1>10, <1>11, <1>12, <1>13, <1>14, <1>15, <1>16, <1>17, <1>18, <1>19, <1>20, <1>21, <1>22, <1>23, <1>24, <1>25, <1>26, <1>27, <1>28, <1>29, <1>30, <1>31
     DEF Next, MainStep, CaptureStep, TypingStep, TaskStep, User

-----------------------------------------------------------------------------
LEMMA InitAudio == Init => AudioInv
<1> SUFFICES ASSUME Init PROVE AudioInv
  OBVIOUS
<1> USE DEF Init
<1>1. TypeOK
  BY DEF TypeOK, Ids, Idle, NoCall
<1>2. /\ \A c \in Callers : call[c] = [at |-> "idle", to |-> FALSE]
      /\ \A t \in Tasks : task[t] = [at |-> "idle", id |-> Default]
  BY DEF NoCall, Idle
<1>3. \A c \in Callers : call[c].at = "idle" /\ ~call[c].to
  BY <1>2, Fields
<1>4. CaptureInv
  BY <1>3 DEF CaptureInv
<1>5. TypingInv
  BY <1>3 DEF TypingInv, Past
<1>6. OffInv /\ InputInv
  BY DEF OffInv, InputInv
<1> QED
  BY <1>1, <1>4, <1>5, <1>6 DEF AudioInv

\* The input of the PC stays in the states described by AudioInv.
THEOREM AudioInvariance == Spec => []AudioInv
<1>1. AudioInv /\ [Next]_vars => AudioInv'
  BY NextType, NextCapture, NextTyping, NextOff, NextInput DEF AudioInv
<1> QED
  BY <1>1, InitAudio, PTL DEF Spec

\* Every variable of the audio input keeps its type.
THEOREM AudioTypeCorrect == Spec => []TypeOK
<1>1. AudioInv => TypeOK
  BY DEF AudioInv
<1> QED
  BY <1>1, AudioInvariance, PTL

\* When nothing is under way, the selected device is the one that is
\* captured and the one the page shows: the flag that asks for a restart is
\* set after everything else (main.cpp:364-414) and taken before anything is
\* read again (main.cpp:1016-1055).
THEOREM AudioInputAgrees == Spec => []InputAgrees
<1>1. AudioInv => InputAgrees
  <2> SUFFICES ASSUME AudioInv, AtWork PROVE Agrees
    BY DEF InputAgrees
  <2>1. \A t \in Tasks : task[t].at = "idle"
    BY Fields DEF AtWork, Idle
  <2>2. ~Pending
    BY <2>1 DEF AtWork, Pending
  <2> QED
    BY <2>2 DEF AudioInv, InputInv, AtWork, Agrees
<1> QED
  BY <1>1, AudioInvariance, PTL

\* The flag of the indicator and VRChat agree whenever nobody is inside
\* setTyping, and after the shutdown the indicator is off: the missing lock
\* (main.cpp:595-602) does harm only when two equal calls overlap.
THEOREM AudioTypingAgrees == Spec => []TypingAgrees
<1>1. AudioInv => TypingAgrees
  <2> SUFFICES ASSUME AudioInv, \A c \in Callers : call[c] = NoCall, ~overlapped
               PROVE  /\ typing = vrchat
                      /\ main = "ended" /\ ~unsent => ~vrchat
    BY DEF TypingAgrees
  <2>1. \A c \in Callers : ~Past(c)
    BY Fields DEF Past, NoCall
  <2>2. vrchat <=> typing
    BY <2>1 DEF AudioInv, TypingInv
  <2>3. typing \in BOOLEAN /\ vrchat \in BOOLEAN
    BY DEF AudioInv, TypeOK
  <2>4. typing = vrchat
    BY <2>2, <2>3
  <2>5. main = "ended" /\ ~unsent => ~vrchat
    BY <2>1, <2>2 DEF AudioInv, OffInv
  <2> QED
    BY <2>4, <2>5
<1> QED
  BY <1>1, AudioInvariance, PTL

=============================================================================
