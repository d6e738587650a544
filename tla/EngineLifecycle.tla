---------------------------- MODULE EngineLifecycle ----------------------------
(***************************************************************************)
(* Who starts and stops the phone's engine: the activity with its web page *)
(* (MainActivity.java), the foreground service (SttForegroundService.java) *)
(* and the JNI entry points with the engine thread (jni_bridge.cpp).       *)
(*                                                                         *)
(* One main thread runs, a message at a time, what the page asks for, what *)
(* was posted to it and the commands Android delivers to the service; it   *)
(* blocks in nativeStop until the engine thread has ended.  Commands reach *)
(* the service in the order they were sent, but later than the call that   *)
(* sends them returns.  The activity knows only its own flags; a new       *)
(* activity (the screen is turned, the app is opened again) starts with    *)
(* them cleared, while what the old one had posted still runs.             *)
(*                                                                         *)
(*   engine thread   boot -> cache -> init -> serve -> ended, and none     *)
(*                   once it is joined                                     *)
(*                                                                         *)
(* A model pack is named by the policy that selects it.  When the process  *)
(* dies Android delivers again what was not handled, and starts a started  *)
(* service again with a null intent (START_STICKY).                        *)
(***************************************************************************)
EXTENDS RecognitionCache, SequencesExt

CONSTANTS AutoPolicy,    \* the policy of a new installation
          MaxUserOps,    \* bound of the model: starts, stops, policies
          MaxActivities, \* bound of the model: activity objects
          MaxDeaths      \* bound of the model: deaths of the process

ASSUME LifecycleAssumption ==
    /\ AutoPolicy \in Models
    /\ MaxUserOps \in Nat /\ MaxActivities \in Nat \ {0} /\ MaxDeaths \in Nat

Activity == 1..MaxActivities
Command == [cmd : {"start"}, model : Models \cup {NoModel}]
             \cup [cmd : {"stop", "destroy"}]

VARIABLES act,       \* the activity on the screen
          started, stopping, \* per activity, its flags
          stopThread, \* per activity: its stop thread has not run yet
          posted,    \* per activity: the end of its stop waits to run
          restarts,  \* per activity: delayed restarts that wait to run
          policy,    \* the preference
          intents,   \* commands on their way to the service
          alive,     \* the service object exists
          sticky,    \* its last command returned START_STICKY
          running,   \* SttForegroundService.running
          wakeLock,
          main,      \* main thread: idle, or joining in a stop or a destroy
          gRunning, gStarting, gReady, gError, \* g_running, ...
          gModel,    \* g_modelDir
          engine, bootFlag, loaded, \* engine thread
          ops, deaths,
          wish,      \* history: what the user asked for last
          excused,   \* history: the user asked for something else while
                     \* that was under way, or while the page said stopped
                     \* and the engine ran
          early      \* history: the checker looked before the service had
                     \* handled a start

uiVars      == <<act, started, stopping, stopThread, posted, restarts, policy>>
serviceVars == <<intents, alive, sticky, running, wakeLock, main>>
nativeVars  == <<gRunning, gStarting, gReady, gError, gModel, engine, bootFlag,
                 loaded>>
histVars    == <<ops, deaths, wish, excused, early>>
vars == <<cacheVars, uiVars, serviceVars, nativeVars, histVars>>

TypeOK ==
    /\ CacheTypeOK
    /\ act \in Activity
    /\ started \in [Activity -> BOOLEAN] /\ stopping \in [Activity -> BOOLEAN]
    /\ stopThread \in [Activity -> BOOLEAN]
    /\ posted \in [Activity -> BOOLEAN]
    /\ restarts \in [Activity -> 0..MaxUserOps]
    /\ policy \in Models
    /\ intents \in Seq(Command)
    /\ alive \in BOOLEAN /\ sticky \in BOOLEAN /\ running \in BOOLEAN
    /\ wakeLock \in BOOLEAN
    /\ main \in {"idle", "stop", "destroy"}
    /\ gRunning \in BOOLEAN /\ gStarting \in BOOLEAN /\ gReady \in BOOLEAN
    /\ gError \in BOOLEAN /\ gModel \in Models \cup {NoModel}
    /\ engine \in {"none", "boot", "cache", "init", "serve", "ended"}
    /\ bootFlag \in BOOLEAN /\ loaded \in Models \cup {NoModel}
    /\ ops \in 0..MaxUserOps /\ deaths \in 0..MaxDeaths
    /\ wish \in {"on", "off"}
    /\ excused \in BOOLEAN /\ early \in BOOLEAN

NoFlags == [i \in Activity |-> FALSE]

ProcessInit ==
    /\ started = NoFlags /\ stopping = NoFlags /\ posted = NoFlags
    /\ stopThread = NoFlags
    /\ restarts = [i \in Activity |-> 0]
    /\ alive = FALSE /\ sticky = FALSE /\ running = FALSE /\ wakeLock = FALSE
    /\ main = "idle"
    /\ gRunning = FALSE /\ gStarting = FALSE /\ gReady = FALSE
    /\ gError = FALSE /\ gModel = NoModel
    /\ engine = "none" /\ bootFlag = FALSE /\ loaded = NoModel

Init ==
    /\ CacheInit /\ ProcessInit
    /\ act = 1 /\ policy = AutoPolicy /\ intents = <<>>
    /\ ops = 0 /\ deaths = 0
    /\ wish = "off" /\ excused = FALSE /\ early = FALSE

-----------------------------------------------------------------------------
(* What is under way *)

StopPending ==
    \/ \E i \in Activity : stopThread[i] \/ posted[i] \/ restarts[i] > 0
    \/ \E k \in DOMAIN intents : intents[k].cmd # "start"

Starting == \E k \in DOMAIN intents : intents[k].cmd = "start"

Quiet ==
    /\ ~StopPending /\ intents = <<>> /\ main = "idle"
    /\ engine \in {"none", "serve", "ended"} /\ switch = "idle" /\ work = Idle

(* getStatusString *)
NativeStatus ==
    CASE gReady -> "running"
      [] ~gReady /\ gStarting -> "starting"
      [] ~gReady /\ ~gStarting /\ gError -> "error"
      [] OTHER -> "stopped"

(* getStatusSafe: what the page shows. *)
Shown ==
    CASE stopping[act] -> "stopping"
      [] ~stopping[act] /\ started[act] -> NativeStatus
      [] OTHER -> "stopped"

-----------------------------------------------------------------------------
(* The page and the activity, on the main thread *)

(* What the user does is remembered as a wish; a wish that comes while an   *)
(* earlier stop is under way, or that the page could not judge, is excused. *)
UserOp(w) ==
    /\ ops < MaxUserOps /\ ops' = ops + 1
    /\ wish' = w
    /\ excused' = (excused \/ StopPending \/ (~started[act] /\ (running \/ Starting)))

(* Mutant: the flag is not set. *)
StartServerSilently(i) ==
    /\ intents' = Append(intents, [cmd |-> "start", model |-> policy])
    /\ UNCHANGED started

(* startServer: the command carries the model the policy selects. *)
StartServer(i) ==
    /\ intents' = Append(intents, [cmd |-> "start", model |-> policy])
    /\ started' = [started EXCEPT ![i] = TRUE]

(* stopServer: a thread of its own sends the command. *)
StopServer(i) ==
    IF stopping[i] THEN UNCHANGED <<stopping, stopThread>>
    ELSE /\ stopping' = [stopping EXCEPT ![i] = TRUE]
         /\ stopThread' = [stopThread EXCEPT ![i] = TRUE]

(* SttBridge.start, the broadcast of StartReceiver, and autoStart. *)
UserStart ==
    /\ main = "idle"
    /\ UserOp("on") /\ StartServer(act)
    /\ UNCHANGED <<cacheVars, act, stopping, stopThread, posted, restarts, policy,
                   alive, sticky, running, wakeLock, main, nativeVars, deaths,
                   early>>

(* SttBridge.stop *)
UserStop ==
    /\ main = "idle"
    /\ UserOp("off") /\ StopServer(act)
    /\ UNCHANGED <<cacheVars, act, started, posted, restarts, policy, serviceVars,
                   nativeVars, deaths, early>>

(* Mutant: the server is not stopped first. *)
UserPolicyNoStop(p) ==
    /\ main = "idle" /\ p # policy
    /\ UserOp(wish)
    /\ policy' = p
    /\ restarts' = IF started[act] THEN [restarts EXCEPT ![act] = @ + 1]
                   ELSE restarts
    /\ UNCHANGED <<cacheVars, act, started, stopping, stopThread, posted,
                   serviceVars, nativeVars, deaths, early>>

(* SttBridge.setBackendPolicy: a started server is stopped, and started     *)
(* again 900 ms later.                                                      *)
UserPolicy(p) ==
    /\ main = "idle" /\ p # policy
    /\ UserOp(wish)
    /\ policy' = p
    /\ IF started[act]
       THEN /\ StopServer(act)
            /\ restarts' = [restarts EXCEPT ![act] = @ + 1]
       ELSE UNCHANGED <<stopping, stopThread, restarts>>
    /\ UNCHANGED <<cacheVars, act, started, posted, serviceVars, nativeVars,
                   deaths, early>>

(* The stop thread sends the command and posts the end of the stop. *)
StopThread(i) ==
    /\ stopThread[i]
    /\ stopThread' = [stopThread EXCEPT ![i] = FALSE]
    /\ posted' = [posted EXCEPT ![i] = TRUE]
    /\ intents' = Append(intents, [cmd |-> "stop"])
    /\ UNCHANGED <<cacheVars, act, started, stopping, restarts, policy, alive,
                   sticky, running, wakeLock, main, nativeVars, histVars>>

(* "Server stopped": only the activity's flags, whatever the service did. *)
StopReported(i) ==
    /\ main = "idle" /\ posted[i]
    /\ posted' = [posted EXCEPT ![i] = FALSE]
    /\ started' = [started EXCEPT ![i] = FALSE]
    /\ stopping' = [stopping EXCEPT ![i] = FALSE]
    /\ UNCHANGED <<cacheVars, act, stopThread, restarts, policy, serviceVars,
                   nativeVars, histVars>>

(* The restart of setBackendPolicy.  900 ms are longer than it takes a      *)
(* thread to start and a command to be delivered: the stop it follows has   *)
(* been handled.                                                            *)
Restart(i) ==
    /\ main = "idle" /\ restarts[i] > 0
    /\ ~stopThread[i] /\ ~posted[i]
    /\ \A k \in DOMAIN intents : intents[k].cmd # "stop"
    /\ restarts' = [restarts EXCEPT ![i] = @ - 1]
    /\ IF ~started[i] /\ ~stopping[i] THEN StartServer(i)
       ELSE UNCHANGED <<intents, started>>
    /\ UNCHANGED <<cacheVars, act, stopping, stopThread, posted, policy, alive,
                   sticky, running, wakeLock, main, nativeVars, histVars>>

(* statusChecker, every 3 s on the activity that is not destroyed. *)
StatusChecker ==
    /\ main = "idle" /\ started[act] /\ ~running
    /\ NativeStatus \in {"error", "stopped"}
    /\ started' = [started EXCEPT ![act] = running]
    /\ early' = (early \/ Starting)
    /\ UNCHANGED <<cacheVars, act, stopping, stopThread, posted, restarts, policy,
                   serviceVars, nativeVars, ops, deaths, wish, excused>>

(* A new activity object takes the place of the old one (onCreate, onDestroy). *)
Recreate ==
    /\ main = "idle" /\ act < MaxActivities
    /\ act' = act + 1
    /\ UNCHANGED <<cacheVars, started, stopping, stopThread, posted, restarts,
                   policy, serviceVars, nativeVars, histVars>>

-----------------------------------------------------------------------------
(* The service, on the main thread *)

(* nativeInit and nativeStart *)
NativeStart(model) ==
    IF gRunning \/ gStarting
    THEN UNCHANGED <<gRunning, gStarting, gReady, engine>> /\ gModel' = model
         /\ gError' = FALSE
    ELSE /\ gModel' = model /\ gError' = FALSE
         /\ gReady' = FALSE /\ gStarting' = TRUE /\ gRunning' = TRUE
         /\ engine' = "boot"

(* onStartCommand with ACTION_START, or with the null intent of a restart,  *)
(* for which the service resolves the policy itself.                        *)
OnStart ==
    /\ main = "idle" /\ intents # <<>> /\ Head(intents).cmd = "start"
    /\ intents' = Tail(intents)
    /\ alive' = TRUE /\ sticky' = TRUE /\ wakeLock' = TRUE /\ running' = TRUE
    /\ IF running THEN UNCHANGED <<gRunning, gStarting, gReady, gError, gModel,
                                   engine>>
       ELSE NativeStart(IF Head(intents).model = NoModel THEN policy
                        ELSE Head(intents).model)
    /\ UNCHANGED <<cacheVars, uiVars, main, bootFlag, loaded, histVars>>

(* stopSelf: Android destroys the object once, after what was sent to it    *)
(* before; a later command makes a new one.                                 *)
StopSelf(rest) ==
    IF \E k \in DOMAIN rest : rest[k].cmd = "destroy" THEN rest
    ELSE Append(rest, [cmd |-> "destroy"])

(* The end of the service's stopServer, and of the command it belongs to. *)
StopDone(cmd) ==
    /\ running' = FALSE /\ wakeLock' = FALSE /\ main' = "idle"
    /\ IF cmd = "stop"
       THEN /\ alive' = TRUE /\ sticky' = FALSE
            /\ intents' = StopSelf(Tail(intents))
       ELSE /\ alive' = FALSE /\ intents' = Tail(intents)
            /\ UNCHANGED sticky

(* Mutant: the engine thread is left to end by itself. *)
OnStopDetached ==
    /\ main = "idle" /\ intents # <<>> /\ Head(intents).cmd # "start"
    /\ gRunning' = FALSE
    /\ StopDone(Head(intents).cmd)
    /\ UNCHANGED <<cacheVars, uiVars, gStarting, gReady, gError, gModel, engine,
                   bootFlag, loaded, histVars>>

(* onStartCommand with ACTION_STOP, and onDestroy: when the engine runs,    *)
(* nativeStop clears g_running and the main thread waits.                   *)
OnStop ==
    /\ main = "idle" /\ intents # <<>> /\ Head(intents).cmd # "start"
    /\ IF running
       THEN /\ gRunning' = FALSE
            /\ main' = Head(intents).cmd
            /\ UNCHANGED <<intents, alive, sticky, running, wakeLock>>
       ELSE StopDone(Head(intents).cmd) /\ UNCHANGED gRunning
    /\ UNCHANGED <<cacheVars, uiVars, gStarting, gReady, gError, gModel, engine,
                   bootFlag, loaded, histVars>>

(* stopEngineThreadLocked: joined. *)
Joined ==
    /\ main # "idle" /\ engine = "ended"
    /\ engine' = "none"
    /\ gStarting' = FALSE /\ gReady' = FALSE
    /\ StopDone(main)
    /\ UNCHANGED <<cacheVars, uiVars, gRunning, gError, gModel, bootFlag, loaded,
                   histVars>>

-----------------------------------------------------------------------------
(* The engine thread (runEngine) *)

Boot ==
    /\ engine = "boot" /\ engine' = "cache"
    /\ gReady' = FALSE /\ gStarting' = TRUE
    /\ bootFlag' = flag
    /\ UNCHANGED <<cacheVars, uiVars, serviceVars, gRunning, gError, gModel,
                   loaded, histVars>>

(* The flag it read before is given to the cache. *)
BootCache ==
    /\ engine = "cache" /\ engine' = "init"
    /\ SetEnabled(bootFlag)
    /\ UNCHANGED <<flag, switch, work, requests, switches, answer, uiVars,
                   serviceVars, gRunning, gStarting, gReady, gError, gModel,
                   bootFlag, loaded, histVars>>

(* engine.init fails: the thread ends with an error for the status. *)
InitFails ==
    /\ engine = "init" /\ engine' = "ended"
    /\ gError' = TRUE /\ gRunning' = FALSE /\ gStarting' = FALSE
    /\ UNCHANGED <<cacheVars, uiVars, serviceVars, gReady, gModel, bootFlag,
                   loaded, histVars>>

(* The model is loaded and the port bound, whether or not a stop waits. *)
Serve ==
    /\ engine = "init" /\ engine' = "serve"
    /\ loaded' = gModel
    /\ gStarting' = FALSE /\ gReady' = TRUE /\ gError' = FALSE
    /\ UNCHANGED <<cacheVars, uiVars, serviceVars, gRunning, gModel, bootFlag,
                   histVars>>

(* Mutant: the worker is not joined. *)
EndDetached ==
    /\ engine = "serve" /\ ~gRunning
    /\ engine' = "ended" /\ gReady' = FALSE
    /\ UNCHANGED <<cacheVars, uiVars, serviceVars, gRunning, gStarting, gError,
                   gModel, bootFlag, loaded, histVars>>

(* The loop sees g_running cleared; the server is stopped, what is queued   *)
(* is recognised, the worker joined.                                        *)
End ==
    /\ engine = "serve" /\ ~gRunning /\ work = Idle
    /\ engine' = "ended" /\ gReady' = FALSE
    /\ UNCHANGED <<cacheVars, uiVars, serviceVars, gRunning, gStarting, gError,
                   gModel, bootFlag, loaded, histVars>>

-----------------------------------------------------------------------------
(* Worker and switch, together with the rest *)

Rest == UNCHANGED <<uiVars, serviceVars, nativeVars, histVars>>

Worker ==
    /\ \/ /\ engine = "serve"
          /\ \E a \in Audio : LookUp(a, loaded, bootFlag)
       \/ NothingRecognized
       \/ Record(loaded, bootFlag)
    /\ Rest

Switch ==
    /\ \/ \E on \in BOOLEAN : SwitchFlag(on)
       \/ SwitchCache
    /\ UNCHANGED <<uiVars, serviceVars, nativeVars, ops, deaths, wish, excused, early>>

-----------------------------------------------------------------------------
(* The process dies: it is killed, or the port cannot be bound and the      *)
(* worker's thread object ends it.  Android keeps what was not handled.     *)
Undelivered ==
    IF \E k \in DOMAIN intents : intents[k].cmd = "destroy"
    THEN RemoveAt(intents, CHOOSE k \in DOMAIN intents : intents[k].cmd = "destroy")
    ELSE intents

Die ==
    /\ deaths < MaxDeaths
    /\ deaths' = deaths + 1
    /\ started' = NoFlags /\ stopping' = NoFlags /\ posted' = NoFlags
    /\ stopThread' = NoFlags
    /\ restarts' = [i \in Activity |-> 0]
    /\ intents' = IF Undelivered # <<>> THEN Undelivered
                  ELSE IF alive /\ sticky /\ intents = <<>>
                  THEN <<[cmd |-> "start", model |-> NoModel]>> ELSE <<>>
    /\ alive' = FALSE /\ sticky' = FALSE /\ running' = FALSE /\ wakeLock' = FALSE
    /\ main' = "idle"
    /\ gRunning' = FALSE /\ gStarting' = FALSE /\ gReady' = FALSE
    /\ gError' = FALSE /\ gModel' = NoModel
    /\ engine' = "none" /\ bootFlag' = FALSE /\ loaded' = NoModel
    /\ flag' = FALSE /\ enabled' = FALSE /\ cache' = EmptyCache
    /\ switch' = "idle" /\ work' = Idle
    /\ excused' = (excused \/ StopPending)
    /\ UNCHANGED <<requests, switches, answer, act, policy, ops, wish, early>>

-----------------------------------------------------------------------------
Ui == \/ UserStart \/ UserStop \/ \E p \in Models : UserPolicy(p)
      \/ Recreate

Posted(i) == StopReported(i) \/ Restart(i)
Service == OnStart \/ OnStop \/ Joined
Engine == Boot \/ BootCache \/ InitFails \/ Serve \/ End

(* Nothing is left to do: every other state in which nothing can happen is  *)
(* a deadlock, of the main thread and the engine thread for example.        *)
Settled == Quiet /\ UNCHANGED vars

Next ==
    \/ Settled \/ Ui \/ StatusChecker \/ Service \/ Engine \/ Worker \/ Switch \/ Die
    \/ \E i \in Activity : Posted(i) \/ StopThread(i)

Spec == Init /\ [][Next]_vars

-----------------------------------------------------------------------------
(* The engine thread exists exactly while the service says it runs, except  *)
(* inside the command that changes it, and the phone is then kept awake     *)
(* (SttForegroundService.java:102-117, 177-188).  So no engine is left      *)
(* without a service that can stop it, and no second one is started.        *)
ServiceOwnsEngine ==
    /\ main = "idle" => (running <=> engine # "none")
    /\ running => alive /\ wakeLock
    /\ ~alive => ~wakeLock

(* When everything has settled the user has what he asked for last: no      *)
(* engine, or one with a model he chose, or an error that is shown; unless  *)
(* he asked while an earlier stop was under way (excused).                  *)
EngineObeysUser ==
    Quiet /\ ~excused =>
        IF wish = "off" THEN engine = "none"
        ELSE \/ engine = "serve" /\ loaded = policy
             \/ engine = "ended" /\ gError

(* The page says stopped while the engine runs only after a new activity    *)
(* was made, after the process died, when the checker looked before the     *)
(* service had handled the start, or after an excused request.              *)
PageTellsTruth ==
    Quiet /\ ~excused /\ ~early /\ act = 1 /\ deaths = 0 =>
        (Shown = "stopped" <=> engine = "none")

(* An answer of another model than the one that is loaded comes only from   *)
(* a cache that was on when the engine was started again                    *)
(* (jni_bridge.cpp:53-62, 191): no recognition of the engine before is      *)
(* recorded late.                                                           *)
StaleAnswerNeedsKeptCache == answer # "strange"

=============================================================================
