------------------------------- MODULE AudioInput -------------------------------
(***************************************************************************)
(* The PC's audio input: the thread that captures from a device            *)
(* (wasapi_capture.cpp), main, which starts it and restarts it when the    *)
(* user selects another device (main.cpp, runWasapiAudioInput), and the    *)
(* HTTP tasks that select devices and switch the listening; with them the  *)
(* typing indicator, which these threads and the receive thread set        *)
(* without a lock (setTyping).                                             *)
(*                                                                         *)
(*   main     begin -> read -> show -> pick -> start -> look -> sleep ->   *)
(*            error -> look ..., stop -> join -> read ..., and from there  *)
(*            flush -> typing -> others -> ended                           *)
(*   capture  open -> run -> closing -> ended                              *)
(*                                                                         *)
(* Segments are Segmentation's business and the wire is PcClient's.  Left  *)
(* out are the names of the devices and the page's copy of the indicator.  *)
(***************************************************************************)
EXTENDS Integers

CONSTANTS Devices,     \* the ids of the input devices
          Default,     \* the empty id
          Tasks,       \* HTTP tasks that run at a time
          MaxCalls,    \* bound of the model: what the user asks for
          MaxSpeeches  \* bound of the model: segments

ASSUME AudioAssumption ==
    /\ Default \notin Devices
    /\ MaxCalls \in Nat /\ MaxSpeeches \in Nat

Ids == Devices \cup {Default}
Callers == {"main", "capture", "receive"} \cup Tasks

VARIABLES running,      \* g_running
          loopback,     \* --audio-loopback
          loopbackMode, \* g_audioLoopbackMode
          selected,     \* g_selectedAudioDeviceId
          restart,      \* g_restartWasapiCapture
          shown,        \* the snapshot of the page: mode and id
          listening,    \* listening_active
          main, seen, requested, \* main: where, the id it has read, restartRequested
          capture, captured, mRunning, lastError, \* WasapiCapture
          task,         \* per HTTP task: where, with an id
          call,         \* per thread: its call of setTyping
          typing,       \* g_typingActive
          vrchat,       \* the indicator in VRChat
          answers,      \* texts the phone still owes
          calls, speeches, \* counters of the bounds
          overlapped,   \* history: two equal calls were both past the test
          unsent        \* history: a send of the indicator failed

inputVars   == <<running, loopback, loopbackMode, selected, restart, shown, listening>>
mainVars    == <<main, seen, requested>>
captureVars == <<capture, captured, mRunning, lastError>>
typingVars  == <<call, typing, vrchat, overlapped, unsent>>
boundVars   == <<answers, calls, speeches>>
vars == <<inputVars, mainVars, captureVars, task, typingVars, boundVars>>

Idle == [at |-> "idle", id |-> Default]
NoCall == [at |-> "idle", to |-> FALSE]
Mode == IF loopback THEN "loopback" ELSE "capture"

TypeOK ==
    /\ {running, loopback, loopbackMode, restart, listening, requested, mRunning,
        lastError, typing, vrchat, overlapped, unsent} \subseteq BOOLEAN
    /\ {selected, seen, captured} \subseteq Ids
    /\ shown \in [mode : {"none", "capture", "loopback"}, id : Ids]
    /\ main \in {"begin", "read", "show", "pick", "start", "look", "sleep", "error",
                 "stop", "join", "abort", "give up", "flush", "typing", "others", "ended"}
    /\ capture \in {"none", "open", "run", "closing", "ended"}
    /\ task \in [Tasks -> [at : {"idle", "set", "read", "show", "request", "pause"}, id : Ids]]
    /\ call \in [Callers -> [at : {"idle", "test", "send", "note"}, to : BOOLEAN]]

Init ==
    /\ running = TRUE /\ loopback \in BOOLEAN /\ loopbackMode = FALSE
    /\ selected = Default /\ restart = FALSE /\ listening = TRUE
    /\ shown = [mode |-> "none", id |-> Default]
    /\ main = "begin" /\ seen = Default /\ requested = TRUE
    /\ capture = "none" /\ captured = Default /\ mRunning = FALSE /\ lastError = FALSE
    /\ task = [t \in Tasks |-> Idle]
    /\ call = [c \in Callers |-> NoCall]
    /\ typing = FALSE /\ vrchat = FALSE
    /\ answers = 0 /\ calls = 0 /\ speeches = 0
    /\ overlapped = FALSE /\ unsent = FALSE

-----------------------------------------------------------------------------
(* setTyping, by any thread *)

(* The flag has the value already, or the packet is to be sent. *)
Enter(c, to) ==
    /\ call[c].at \in {"idle", "test"}
    /\ IF typing = to
       THEN call' = [call EXCEPT ![c] = NoCall] /\ UNCHANGED overlapped
       ELSE /\ call' = [call EXCEPT ![c] = [at |-> "send", to |-> to]]
            /\ overlapped' = (overlapped \/ \E d \in Callers \ {c} :
                                 call[d].at \in {"send", "note"} /\ call[d].to = to)

TypingRest == UNCHANGED <<inputVars, mainVars, captureVars, task, boundVars>>

(* Mutant: a packet that was not sent is noted, too. *)
SendNotedAnyway(c) ==
    /\ call[c].at = "send"
    /\ vrchat' \in {vrchat, call[c].to} /\ unsent' = (unsent \/ vrchat' # call[c].to)
    /\ call' = [call EXCEPT ![c].at = "note"]
    /\ UNCHANGED <<typing, overlapped>> /\ TypingRest

(* sendTyping *)
Send(c) ==
    /\ call[c].at = "send"
    /\ \/ /\ vrchat' = call[c].to
          /\ call' = [call EXCEPT ![c].at = "note"]
          /\ UNCHANGED unsent
       \/ call' = [call EXCEPT ![c] = NoCall] /\ unsent' = TRUE /\ UNCHANGED vrchat
    /\ UNCHANGED <<typing, overlapped>> /\ TypingRest

Note(c) ==
    /\ call[c].at = "note"
    /\ typing' = call[c].to
    /\ call' = [call EXCEPT ![c] = NoCall]
    /\ UNCHANGED <<vrchat, overlapped, unsent>> /\ TypingRest

(* onTextReceived: the phone answers; nothing else happens to an empty text. *)
Text ==
    /\ answers > 0 /\ main # "ended" /\ call["receive"] = NoCall
    /\ answers' = answers - 1
    /\ Enter("receive", FALSE) \/ UNCHANGED <<call, overlapped>>
    /\ UNCHANGED <<inputVars, mainVars, captureVars, task, typing, vrchat, unsent, calls,
                   speeches>>

-----------------------------------------------------------------------------
(* The capture thread *)

CaptureRest == UNCHANGED <<inputVars, mainVars, captured, task, typing, vrchat,
                           overlapped, unsent, calls>>

(* run: the device is opened; it may be gone. *)
Open ==
    /\ capture = "open"
    /\ \/ capture' = "run" /\ UNCHANGED lastError
       \/ capture' = "closing" /\ lastError' = TRUE
    /\ UNCHANGED <<mRunning, call, answers, speeches>> /\ CaptureRest

(* A packet in which a segment ends: processLiveSamples looks whether       *)
(* anybody listens ...                                                      *)
Speak ==
    /\ capture = "run" /\ listening /\ speeches < MaxSpeeches
    /\ speeches' = speeches + 1 /\ answers' = answers + 1
    /\ call["capture"] = NoCall
    /\ call' = [call EXCEPT !["capture"] = [at |-> "test", to |-> TRUE]]
    /\ UNCHANGED <<capture, mRunning, lastError>> /\ CaptureRest

(* ... and onSpeechSegment calls setTyping. *)
Speech ==
    /\ call["capture"].at = "test" /\ Enter("capture", TRUE)
    /\ UNCHANGED <<typing, vrchat, unsent>> /\ TypingRest

(* m_running is cleared, or the device fails. *)
Leave ==
    /\ capture = "run" /\ call["capture"] = NoCall
    /\ capture' = "closing"
    /\ \/ ~mRunning /\ UNCHANGED lastError
       \/ lastError' = TRUE
    /\ UNCHANGED <<mRunning, call, answers, speeches>> /\ CaptureRest

Close ==
    /\ capture = "closing"
    /\ capture' = "ended" /\ mRunning' = FALSE
    /\ UNCHANGED <<lastError, call, answers, speeches>> /\ CaptureRest

-----------------------------------------------------------------------------
(* HTTP tasks *)

TaskRest == UNCHANGED <<running, loopback, loopbackMode, mainVars, captureVars, typing,
                        vrchat, unsent, answers, speeches>>
Silent == UNCHANGED <<call, overlapped>>

Ask(t) ==
    /\ task[t] = Idle /\ main # "ended" /\ calls < MaxCalls
    /\ calls' = calls + 1

At(t, at) == task' = [task EXCEPT ![t].at = at]

(* setSelectedAudioDevice: refused in the loopback mode, and when the       *)
(* device is not there.                                                     *)
Select(t, id) ==
    /\ Ask(t)
    /\ \/ ~loopbackMode /\ task' = [task EXCEPT ![t] = [at |-> "set", id |-> id]]
       \/ UNCHANGED task
    /\ UNCHANGED <<selected, restart, shown, listening>> /\ Silent /\ TaskRest

SetSelected(t) ==
    /\ task[t].at = "set" /\ At(t, "read")
    /\ selected' = task[t].id
    /\ UNCHANGED <<restart, shown, listening, calls>> /\ Silent /\ TaskRest

(* refreshAudioInputSnapshot, which lists the devices, reads the id ... *)
TaskReads(t) ==
    /\ task[t].at = "read"
    /\ task' = [task EXCEPT ![t] = [at |-> "show", id |-> selected]]
    /\ UNCHANGED <<selected, restart, shown, listening, calls>> /\ Silent /\ TaskRest

(* ... and sets the snapshot. *)
TaskShows(t) ==
    /\ task[t].at = "show" /\ At(t, "request")
    /\ shown' = [mode |-> "capture", id |-> task[t].id]
    /\ UNCHANGED <<selected, restart, listening, calls>> /\ Silent /\ TaskRest

Request(t) ==
    /\ task[t].at = "request"
    /\ task' = [task EXCEPT ![t] = Idle]
    /\ restart' = TRUE
    /\ UNCHANGED <<selected, shown, listening, calls>> /\ Silent /\ TaskRest

StartListening(t) ==
    /\ Ask(t) /\ ~listening /\ listening' = TRUE
    /\ UNCHANGED <<selected, restart, shown, task>> /\ Silent /\ TaskRest

(* listen/stop: the indicator first, then the flag. *)
StopListening(t) ==
    /\ Ask(t) /\ call[t] = NoCall /\ Enter(t, FALSE) /\ At(t, "pause")
    /\ UNCHANGED <<selected, restart, shown, listening>> /\ TaskRest

Paused(t) ==
    /\ task[t].at = "pause" /\ call[t] = NoCall
    /\ listening' = FALSE
    /\ task' = [task EXCEPT ![t] = Idle]
    /\ UNCHANGED <<selected, restart, shown, calls>> /\ Silent /\ TaskRest

-----------------------------------------------------------------------------
(* main *)

MainRest == UNCHANGED <<running, loopback, selected, listening, task, typing, vrchat,
                        unsent, boundVars>>

Begin ==
    /\ main = "begin" /\ main' = "read"
    /\ loopbackMode' = loopback
    /\ UNCHANGED <<restart, shown, seen, requested, captureVars>> /\ Silent /\ MainRest

(* refreshAudioInputSnapshot, before the loop and after each run. *)
MainReads ==
    /\ main = "read" /\ main' = "show"
    /\ seen' = selected
    /\ UNCHANGED <<loopbackMode, restart, shown, requested, captureVars>> /\ Silent /\ MainRest

MainShows ==
    /\ main = "show"
    /\ shown' = [mode |-> Mode, id |-> seen]
    /\ main' = IF running /\ requested THEN "pick" ELSE "flush"
    /\ UNCHANGED <<loopbackMode, restart, seen, requested, captureVars>> /\ Silent /\ MainRest

Pick ==
    /\ main = "pick" /\ main' = "start"
    /\ seen' = selected /\ requested' = FALSE
    /\ UNCHANGED <<loopbackMode, restart, shown, captureVars>> /\ Silent /\ MainRest

Started ==
    /\ capture = "none" /\ capture' = "open"
    /\ captured' = IF loopback THEN Default ELSE seen
    /\ mRunning' = TRUE /\ lastError' = FALSE

(* Mutant: what was requested before is taken to be done. *)
StartForgetful ==
    /\ main = "start" /\ main' = "look"
    /\ Started /\ restart' = FALSE
    /\ UNCHANGED <<loopbackMode, shown, seen, requested>> /\ Silent /\ MainRest

(* WasapiCapture::start *)
Start ==
    /\ main = "start" /\ main' = "look"
    /\ Started
    /\ UNCHANGED <<loopbackMode, restart, shown, seen, requested>> /\ Silent /\ MainRest

Look ==
    /\ main = "look"
    /\ main' = IF running /\ mRunning THEN "sleep" ELSE "stop"
    /\ UNCHANGED <<loopbackMode, restart, shown, seen, requested, captureVars>> /\ Silent /\ MainRest

(* 100 ms later: a request, whatever else has happened, ... *)
Exchange ==
    /\ main = "sleep"
    /\ restart' = FALSE /\ requested' = restart
    /\ main' = IF restart THEN "stop" ELSE "error"
    /\ UNCHANGED <<loopbackMode, shown, seen, captureVars>> /\ Silent /\ MainRest

(* ... or an error. *)
LookForError ==
    /\ main = "error"
    /\ main' = IF lastError THEN "abort" ELSE "look"
    /\ UNCHANGED <<loopbackMode, restart, shown, seen, requested, captureVars>> /\ Silent /\ MainRest

(* Mutant: the thread is not told. *)
StopUntold ==
    /\ main \in {"stop", "abort"}
    /\ main' = IF main = "stop" THEN "join" ELSE "give up"
    /\ UNCHANGED <<loopbackMode, restart, shown, seen, requested, captureVars>> /\ Silent /\ MainRest

(* WasapiCapture::stop *)
Stop ==
    /\ main \in {"stop", "abort"}
    /\ main' = IF main = "stop" THEN "join" ELSE "give up"
    /\ mRunning' = FALSE
    /\ UNCHANGED <<loopbackMode, restart, shown, seen, requested, capture, captured,
                   lastError>> /\ Silent /\ MainRest

Join ==
    /\ main \in {"join", "give up"} /\ capture = "ended"
    /\ capture' = "none"
    /\ main' = IF main = "join" THEN "read" ELSE "flush"
    /\ UNCHANGED <<loopbackMode, restart, shown, seen, requested, captured, mRunning,
                   lastError>> /\ Silent /\ MainRest

(* The shutdown: the VAD may give a last segment, ... *)
Flush ==
    /\ main = "flush" /\ main' = "typing"
    /\ Enter("main", TRUE) \/ Silent
    /\ UNCHANGED <<loopbackMode, restart, shown, seen, requested, captureVars>> /\ MainRest

(* ... the indicator is taken off ... *)
TypingOff ==
    /\ main = "typing" /\ main' = "others"
    /\ call["main"] = NoCall /\ Enter("main", FALSE)
    /\ UNCHANGED <<loopbackMode, restart, shown, seen, requested, captureVars>> /\ MainRest

(* ... and the tasks and the receive thread are waited for. *)
StopOthers ==
    /\ main = "others" /\ main' = "ended"
    /\ \A c \in Callers : call[c] = NoCall
    /\ \A t \in Tasks : task[t] = Idle
    /\ UNCHANGED <<loopbackMode, restart, shown, seen, requested, captureVars>> /\ Silent /\ MainRest

(* consoleHandler, the window of the page *)
Quit ==
    /\ running /\ running' = FALSE
    /\ UNCHANGED <<loopback, loopbackMode, selected, restart, shown, listening, mainVars,
                   captureVars, task, typingVars, boundVars>>

-----------------------------------------------------------------------------
MainStep ==
    \/ Begin \/ MainReads \/ MainShows \/ Pick \/ Start \/ Look \/ Exchange
    \/ LookForError \/ Stop \/ Join \/ Flush \/ TypingOff \/ StopOthers
CaptureStep == Open \/ Leave \/ Close \/ Speech
TypingStep(c) == Send(c) \/ Note(c)
TaskStep(t) == SetSelected(t) \/ TaskReads(t) \/ TaskShows(t) \/ Request(t) \/ Paused(t)
User(t) ==
    \/ \E id \in Ids : Select(t, id)
    \/ StartListening(t) \/ StopListening(t)

Next ==
    \/ MainStep \/ CaptureStep \/ Speak \/ Text \/ Quit
    \/ \E c \in Callers : TypingStep(c)
    \/ \E t \in Tasks : TaskStep(t) \/ User(t)

(* Threads run; devices need not fail, nobody needs to speak or to ask. *)
Fairness ==
    /\ WF_vars(MainStep) /\ WF_vars(Close) /\ WF_vars(Speech)
    /\ WF_vars(Open) /\ WF_vars(Leave /\ ~mRunning)
    /\ \A c \in Callers : WF_vars(TypingStep(c))
    /\ \A t \in Tasks : WF_vars(TaskStep(t))

Spec == Init /\ [][Next]_vars /\ Fairness

-----------------------------------------------------------------------------
AtWork == main \in {"look", "sleep", "error"} /\ ~restart /\ \A t \in Tasks : task[t] = Idle
Agrees ==
    /\ captured = IF loopback THEN Default ELSE selected
    /\ shown = [mode |-> Mode, id |-> selected]

(* When nothing is under way, the device that was selected last is the one  *)
(* that is captured and the one the page shows, although tasks and main     *)
(* read the selection and write the snapshot in separate steps              *)
(* (main.cpp:364-414, 1016-1055): whoever writes last what is no longer     *)
(* true has a restart to come.                                              *)
InputAgrees == AtWork => Agrees

(* In the end the program captures what is selected, or it has ended: a     *)
(* request is never lost between two restarts, and main, which joins a      *)
(* thread that may be in a callback, does not wait for ever.                *)
SelectionTakesEffect == <>[](main = "ended" \/ Agrees)

(* While nobody is in setTyping, the flag is what VRChat shows, and after   *)
(* the shutdown that is nothing; unless two equal calls overlapped, which   *)
(* the missing lock allows, or, for the latter, a packet was not sent       *)
(* (main.cpp:595-602, 1225-1230).                                           *)
TypingAgrees ==
    (\A c \in Callers : call[c] = NoCall) /\ ~overlapped =>
        /\ typing = vrchat
        /\ main = "ended" /\ ~unsent => ~vrchat
=============================================================================
