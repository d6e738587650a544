------------------------- MODULE EngineLifecycle_proofs -------------------------
(***************************************************************************)
(* Proofs about the life of the phone's engine and about its cache, for    *)
(* any audios, model packs, activities, restarts and deaths.               *)
(***************************************************************************)
EXTENDS EngineLifecycle, SequenceFacts, FiniteSetTheorems, TLAPS

(* The cache: it is as small as it must be, and an engine that started with *)
(* an empty one finds only its own texts in it.                             *)
CacheInv ==
    /\ IsFiniteSet(Cached) /\ CacheSound
    /\ work # Idle => engine = "serve" /\ work.by = loaded
    /\ engine = "init" /\ ~bootFlag => Cached = {}
    /\ engine = "serve" /\ ~bootFlag => \A a \in Cached : cache[a] = loaded
    /\ answer # "strange"

(* The service and the engine it owns. *)
EngineInv ==
    /\ main = "idle" => (running <=> engine # "none")
    /\ main # "idle" =>
          /\ running /\ engine # "none" /\ ~gRunning
          /\ intents # <<>> /\ Head(intents).cmd = main
    /\ running <=> alive /\ sticky
    /\ running <=> wakeLock
    /\ engine = "none" => ~gRunning /\ ~gStarting
    /\ engine # "none" => gModel \in Models
    /\ engine = "serve" => loaded \in Models /\ gReady

(* The flags of the activities. *)
FlagInv ==
    /\ \A i \in Activity : stopping[i] <=> stopThread[i] \/ posted[i]
    /\ \A i \in Activity : ~(stopThread[i] /\ posted[i])
    /\ \A i \in Activity : restarts[i] <= ops
    /\ \A i \in Activity : restarts[i] > 0 => i <= act

(* What is under way on behalf of a user who has waited for it. *)
Sending == \E i \in Activity : stopThread[i]
Sent == \E k \in DOMAIN intents : intents[k].cmd = "stop"
Coming == \E i \in Activity : restarts[i] > 0

\* One activity at a time stops the service, and it is the one that started it.
OneInv ==
    /\ \A i, j \in Activity :
          /\ started[i] /\ started[j] => i = j
          /\ stopping[i] /\ stopping[j] => i = j
          /\ restarts[i] > 0 /\ (restarts[j] > 0 \/ stopping[j]) => i = j
    /\ \A i \in Activity : restarts[i] <= 1

\* A stop is the last command, what destroys the service the first one.
ShapeInv ==
    /\ Sending => \A k \in DOMAIN intents : intents[k].cmd = "start"
    /\ \A k \in DOMAIN intents : intents[k].cmd = "stop" => k = Len(intents)
    /\ \A k \in DOMAIN intents : intents[k].cmd = "destroy" => k = 1 /\ ~running /\ ~Sent

\* The engine will be gone before anything else happens.
Ending ==
    /\ Sending \/ Sent \/ (~running /\ ~Starting)
    /\ \A i \in Activity : started[i] => stopping[i]

\* The engine runs, or will, with the model of the policy.
Up ==
    /\ \A i \in Activity : ~stopping[i]
    /\ ~Sent
    /\ running \/ Starting
    /\ \A k \in DOMAIN intents :
          intents[k].cmd = "start" => intents[k].model \in {policy, NoModel}
    /\ running =>
          /\ gModel = policy
          /\ engine = "serve" => loaded = policy
          /\ IF engine = "ended" THEN gError ELSE gRunning
    /\ act = 1 /\ deaths = 0 /\ ~early => started[1]

UserInv ==
    ~excused =>
        /\ OneInv /\ ShapeInv
        /\ wish = "off" => ~Coming
        /\ IF wish = "on" /\ ~Coming THEN Up ELSE Ending

LifecycleInv == TypeOK /\ CacheInv /\ EngineInv /\ FlagInv /\ UserInv

-----------------------------------------------------------------------------
LEMMA CommandFacts ==
    /\ \A m \in Models \cup {NoModel} :
          /\ [cmd |-> "start", model |-> m] \in Command
          /\ [cmd |-> "start", model |-> m].cmd = "start"
          /\ [cmd |-> "start", model |-> m].model = m
    /\ [cmd |-> "stop"] \in Command /\ [cmd |-> "stop"].cmd = "stop"
    /\ [cmd |-> "destroy"] \in Command /\ [cmd |-> "destroy"].cmd = "destroy"
    /\ \A c \in Command :
          /\ c.cmd \in {"start", "stop", "destroy"}
          /\ c.cmd = "start" => c.model \in Models \cup {NoModel}
BY DEF Command

LEMMA IntentFacts ==
    ASSUME intents \in Seq(Command), intents # <<>>
    PROVE  /\ Head(intents) \in Command /\ Head(intents) = intents[1]
           /\ Tail(intents) \in Seq(Command) /\ Len(Tail(intents)) = Len(intents) - 1
           /\ \A k \in 1..(Len(intents) - 1) : Tail(intents)[k] = intents[k + 1]
OBVIOUS

LEMMA StopSelfType ==
    ASSUME NEW q \in Seq(Command)
    PROVE  StopSelf(q) \in Seq(Command)
BY CommandFacts DEF StopSelf

\* The commands that reach the service are what was sent.
LEMMA UndeliveredType ==
    ASSUME intents \in Seq(Command)
    PROVE  Undelivered \in Seq(Command)
<1>1. CASE \E k \in DOMAIN intents : intents[k].cmd = "destroy"
  <2> DEFINE d == CHOOSE k \in DOMAIN intents : intents[k].cmd = "destroy"
  <2>1. d \in DOMAIN intents
    BY <1>1
  <2>2. d \in 1..Len(intents)
    BY <2>1
  <2> HIDE DEF d
  <2>3. RemoveAt(intents, d) \in Seq(Command)
    BY <2>2, RemoveAtType
  <2> QED
    BY <1>1, <2>3 DEF Undelivered, d
<1>2. CASE ~\E k \in DOMAIN intents : intents[k].cmd = "destroy"
  BY <1>2 DEF Undelivered
<1> QED
  BY <1>1, <1>2

LEMMA ModelFacts == NoModel \notin Models /\ AutoPolicy \in Models
BY CacheAssumption, LifecycleAssumption

\* What is on its way to the service are commands.
LEMMA NextIntents ==
    ASSUME TypeOK, EngineInv, [Next]_vars
    PROVE  intents' \in Seq(Command)
<1>0. intents \in Seq(Command)
  BY DEF TypeOK
<1> USE <1>0 DEF vars, cacheVars, uiVars, serviceVars, nativeVars, histVars
<1>1. CASE Settled
  BY <1>1 DEF Settled, vars
<1>2. CASE UserStart
  BY <1>2, CommandFacts DEF UserStart, StartServer, TypeOK
<1>3. CASE UserStop
  BY <1>3 DEF UserStop
<1>4. ASSUME NEW p \in Models, UserPolicy(p) PROVE intents' \in Seq(Command)
  BY <1>4 DEF UserPolicy
<1>5. CASE Recreate
  BY <1>5 DEF Recreate
<1>6. CASE StatusChecker
  BY <1>6 DEF StatusChecker
<1>7. CASE OnStart
  BY <1>7, IntentFacts DEF OnStart
<1>8. CASE OnStop
  <2>1. intents' \in {intents, Tail(intents), StopSelf(Tail(intents))}
    BY <1>8 DEF OnStop, StopDone
  <2>2. intents # <<>>
    BY <1>8 DEF OnStop
  <2> QED
    BY <2>1, <2>2, IntentFacts, StopSelfType
<1>9. CASE Joined
  <2>1. intents' \in {Tail(intents), StopSelf(Tail(intents))} /\ main # "idle"
    BY <1>9 DEF Joined, StopDone
  <2> QED
    BY <2>1, IntentFacts, StopSelfType DEF EngineInv
<1>10. CASE Boot
  BY <1>10 DEF Boot
<1>11. CASE BootCache
  BY <1>11 DEF BootCache, SetEnabled
<1>12. CASE InitFails
  BY <1>12 DEF InitFails
<1>13. CASE Serve
  BY <1>13 DEF Serve
<1>14. CASE End
  BY <1>14 DEF End
<1>15. ASSUME NEW a \in Audio, LookUp(a, loaded, bootFlag), engine = "serve", Rest
     PROVE intents' \in Seq(Command)
  BY <1>15 DEF LookUp, Rest
<1>16. ASSUME NothingRecognized, Rest PROVE intents' \in Seq(Command)
  BY <1>16 DEF NothingRecognized, Rest
<1>17. ASSUME Record(loaded, bootFlag), Rest PROVE intents' \in Seq(Command)
  BY <1>17 DEF Record, Rest
<1>18. ASSUME NEW on \in BOOLEAN, SwitchFlag(on), Rest PROVE intents' \in Seq(Command)
  BY <1>18 DEF SwitchFlag, Rest
<1>19. ASSUME SwitchCache, Rest PROVE intents' \in Seq(Command)
  BY <1>19 DEF SwitchCache, SetEnabled, Rest
<1>20. CASE Die
  <2>1. <<[cmd |-> "start", model |-> NoModel]>> \in Seq(Command)
    BY CommandFacts
  <2> QED
    BY <1>20, <2>1, UndeliveredType DEF Die
<1>21. ASSUME NEW i \in Activity, StopReported(i) PROVE intents' \in Seq(Command)
  BY <1>21 DEF StopReported
<1>22. ASSUME NEW i \in Activity, Restart(i) PROVE intents' \in Seq(Command)
  <2>1. \/ intents' = intents
        \/ intents' = Append(intents, [cmd |-> "start", model |-> policy])
    BY <1>22 DEF Restart, StartServer
  <2>2. [cmd |-> "start", model |-> policy] \in Command
    BY CommandFacts DEF TypeOK
  <2> QED
    BY <2>1, <2>2
<1>23. ASSUME NEW i \in Activity, StopThread(i) PROVE intents' \in Seq(Command)
  BY <1>23, CommandFacts DEF StopThread
<1>24. CASE UNCHANGED vars
  BY <1>24 DEF vars
<1> QED
  BY <1>1, <1>2, <1>3, <1>4, <1>5, <1>6, <1>7, <1>8, <1>9, <1>10, <1>11, <1>12, <1>13, <1>14, <1>15, <1>16, <1>17, <1>18, <1>19, <1>20, <1>21, <1>22, <1>23, <1>24
     DEF Next, Ui, Service, Engine, Worker, Switch, Posted, Rest, histVars


\* The types, group by group.
UiTypeOK ==
    /\ act \in Activity
    /\ started \in [Activity -> BOOLEAN] /\ stopping \in [Activity -> BOOLEAN]
    /\ stopThread \in [Activity -> BOOLEAN] /\ posted \in [Activity -> BOOLEAN]
    /\ restarts \in [Activity -> 0..MaxUserOps]
    /\ policy \in Models
ServiceTypeOK ==
    /\ alive \in BOOLEAN /\ sticky \in BOOLEAN /\ running \in BOOLEAN
    /\ wakeLock \in BOOLEAN
    /\ main \in {"idle", "stop", "destroy"}
NativeTypeOK ==
    /\ gRunning \in BOOLEAN /\ gStarting \in BOOLEAN /\ gReady \in BOOLEAN
    /\ gError \in BOOLEAN /\ gModel \in Models \cup {NoModel}
    /\ engine \in {"none", "boot", "cache", "init", "serve", "ended"}
    /\ bootFlag \in BOOLEAN /\ loaded \in Models \cup {NoModel}
HistTypeOK ==
    /\ ops \in 0..MaxUserOps /\ deaths \in 0..MaxDeaths
    /\ wish \in {"on", "off"}
    /\ excused \in BOOLEAN /\ early \in BOOLEAN

\* The types of the cache and its users.
LEMMA NextCacheType ==
    ASSUME TypeOK, EngineInv, [Next]_vars
    PROVE  CacheTypeOK'
<1> USE DEF TypeOK, CacheTypeOK, vars, cacheVars, uiVars, serviceVars, nativeVars, histVars
<1>1. CASE Settled
  BY <1>1 DEF Settled, vars
<1>2. CASE UserStart
  BY <1>2 DEF UserStart, UserOp, StartServer
<1>3. CASE UserStop
  BY <1>3 DEF UserStop, UserOp, StopServer
<1>4. ASSUME NEW p \in Models, UserPolicy(p) PROVE CacheTypeOK'
  BY <1>4 DEF UserPolicy, UserOp, StopServer
<1>5. CASE Recreate
  BY <1>5 DEF Recreate
<1>6. CASE StatusChecker
  BY <1>6 DEF StatusChecker
<1>7. CASE OnStart
  BY <1>7 DEF OnStart, NativeStart
<1>8. CASE OnStop
  BY <1>8 DEF OnStop, StopDone, StopSelf
<1>9. CASE Joined
  BY <1>9 DEF Joined, StopDone, StopSelf
<1>10. CASE Boot
  BY <1>10 DEF Boot
<1>11. CASE BootCache
  BY <1>11 DEF EmptyCache, BootCache, SetEnabled
<1>12. CASE InitFails
  BY <1>12 DEF InitFails
<1>13. CASE Serve
  BY <1>13 DEF Serve
<1>14. CASE End
  BY <1>14 DEF End
<1>15. ASSUME NEW a \in Audio, LookUp(a, loaded, bootFlag), engine = "serve", Rest
     PROVE CacheTypeOK'
  <2>1. [audio |-> a, by |-> loaded] \in [audio : Audio, by : Models]
    BY <1>15 DEF EngineInv
  <2>2. requests' \in 0..MaxRequests
    BY <1>15, CacheAssumption DEF LookUp
  <2>3. work' \in [audio : Audio, by : Models] \/ work' = work
    BY <1>15, <2>1 DEF LookUp
  <2>4. answer' \in {"none", "own", "kept", "strange"}
    BY <1>15 DEF LookUp, Kind
  <2> QED
    BY <1>15, <2>2, <2>3, <2>4 DEF LookUp, Rest
<1>16. ASSUME NothingRecognized, Rest PROVE CacheTypeOK'
  BY <1>16 DEF NothingRecognized, Rest
<1>17. ASSUME Record(loaded, bootFlag), Rest PROVE CacheTypeOK'
  <2>1. work \in [audio : Audio, by : Models]
    BY <1>17 DEF Record
  <2>2. Insert(work.audio, work.by) \in [Audio -> Models \cup {NoModel}]
    BY <2>1 DEF Insert, EmptyCache
  <2>3. Kind(work.by, loaded, bootFlag) \in {"own", "kept", "strange"}
    BY DEF Kind
  <2> QED
    BY <1>17, <2>2, <2>3 DEF Record, Rest
<1>18. ASSUME NEW on \in BOOLEAN, SwitchFlag(on), Rest PROVE CacheTypeOK'
  BY <1>18, CacheAssumption DEF SwitchFlag, Rest
<1>19. ASSUME SwitchCache, Rest PROVE CacheTypeOK'
  BY <1>19 DEF EmptyCache, SwitchCache, SetEnabled, Rest
<1>20. CASE Die
  BY <1>20 DEF EmptyCache, Die
<1>21. ASSUME NEW i \in Activity, StopReported(i) PROVE CacheTypeOK'
  BY <1>21 DEF StopReported
<1>22. ASSUME NEW i \in Activity, Restart(i) PROVE CacheTypeOK'
  BY <1>22 DEF Restart, StartServer
<1>23. ASSUME NEW i \in Activity, StopThread(i) PROVE CacheTypeOK'
  BY <1>23 DEF StopThread
<1>24. CASE UNCHANGED vars
  BY <1>24 DEF vars
<1> QED
  BY <1>1, <1>2, <1>3, <1>4, <1>5, <1>6, <1>7, <1>8, <1>9, <1>10, <1>11, <1>12, <1>13, <1>14, <1>15, <1>16, <1>17, <1>18, <1>19, <1>20, <1>21, <1>22, <1>23, <1>24
     DEF Next, Ui, Service, Engine, Worker, Switch, Posted, Rest, histVars

\* Every step keeps the types.
LEMMA NextType ==
    ASSUME TypeOK, EngineInv, FlagInv, [Next]_vars
    PROVE  TypeOK'
<1>0. CacheTypeOK' /\ intents' \in Seq(Command)
  BY NextCacheType, NextIntents
<1> USE <1>0 DEF TypeOK, Activity, vars, cacheVars, uiVars, serviceVars, nativeVars, histVars
<1>1. CASE Settled
  BY <1>1, LifecycleAssumption DEF Settled, vars
<1>2. CASE UserStart
  BY <1>2, LifecycleAssumption DEF UserStart, UserOp, StartServer
<1>3. CASE UserStop
  <2>1. UiTypeOK'
    BY <1>3, LifecycleAssumption DEF UserStop, UserOp, StopServer, UiTypeOK
  <2>2. ServiceTypeOK'
    BY <1>3, LifecycleAssumption DEF UserStop, UserOp, StopServer, ServiceTypeOK
  <2>3. NativeTypeOK'
    BY <1>3, LifecycleAssumption DEF UserStop, UserOp, StopServer, NativeTypeOK
  <2>4. HistTypeOK'
    BY <1>3, LifecycleAssumption DEF UserStop, UserOp, StopServer, HistTypeOK
  <2> QED
    BY <2>1, <2>2, <2>3, <2>4 DEF UiTypeOK, ServiceTypeOK, NativeTypeOK, HistTypeOK
<1>4. ASSUME NEW p \in Models, UserPolicy(p) PROVE TypeOK'
  <2>1. UiTypeOK'
    <3>1. restarts[act] + 1 \in 0..MaxUserOps
      BY <1>4, LifecycleAssumption DEF UserPolicy, UserOp, FlagInv
    <3> QED
      BY <1>4, <3>1 DEF UserPolicy, StopServer, UiTypeOK
  <2>2. ServiceTypeOK'
    BY <1>4, LifecycleAssumption DEF UserPolicy, UserOp, StopServer, ServiceTypeOK
  <2>3. NativeTypeOK'
    BY <1>4, LifecycleAssumption DEF UserPolicy, UserOp, StopServer, NativeTypeOK
  <2>4. HistTypeOK'
    BY <1>4, LifecycleAssumption DEF UserPolicy, UserOp, StopServer, HistTypeOK
  <2> QED
    BY <2>1, <2>2, <2>3, <2>4 DEF UiTypeOK, ServiceTypeOK, NativeTypeOK, HistTypeOK
<1>5. CASE Recreate
  BY <1>5, LifecycleAssumption DEF Recreate
<1>6. CASE StatusChecker
  BY <1>6, LifecycleAssumption DEF StatusChecker
<1>7. CASE OnStart
  <2>1. UiTypeOK'
    BY <1>7, LifecycleAssumption DEF OnStart, NativeStart, UiTypeOK
  <2>2. ServiceTypeOK'
    BY <1>7, LifecycleAssumption DEF OnStart, NativeStart, ServiceTypeOK
  <2>3. NativeTypeOK'
    <3>1. CASE running
      BY <1>7, <3>1 DEF OnStart, NativeTypeOK
    <3>2. CASE ~running
      <4>1. Head(intents).model \in Models \cup {NoModel}
        BY <1>7, IntentFacts, CommandFacts DEF OnStart
      <4>2. CASE gRunning \/ gStarting
        BY <1>7, <3>2, <4>1, <4>2 DEF OnStart, NativeStart, NativeTypeOK
      <4>3. CASE ~(gRunning \/ gStarting)
        BY <1>7, <3>2, <4>1, <4>3 DEF OnStart, NativeStart, NativeTypeOK
      <4> QED
        BY <4>2, <4>3
    <3> QED
      BY <3>1, <3>2
  <2>4. HistTypeOK'
    BY <1>7, LifecycleAssumption DEF OnStart, NativeStart, HistTypeOK
  <2> QED
    BY <2>1, <2>2, <2>3, <2>4 DEF UiTypeOK, ServiceTypeOK, NativeTypeOK, HistTypeOK
<1>8. CASE OnStop
  <2>1. UiTypeOK'
    BY <1>8, LifecycleAssumption DEF OnStop, StopDone, UiTypeOK
  <2>2. ServiceTypeOK'
    <3>1. Head(intents).cmd \in {"stop", "destroy"}
      BY <1>8, IntentFacts, CommandFacts DEF OnStop
    <3>2. CASE running
      BY <1>8, <3>1, <3>2 DEF OnStop, ServiceTypeOK
    <3>3. CASE ~running
      <4>1. CASE Head(intents).cmd = "stop"
        BY <1>8, <3>3, <4>1 DEF OnStop, StopDone, ServiceTypeOK
      <4>2. CASE Head(intents).cmd # "stop"
        BY <1>8, <3>3, <4>2 DEF OnStop, StopDone, ServiceTypeOK
      <4> QED
        BY <4>1, <4>2
    <3> QED
      BY <3>2, <3>3
  <2>3. NativeTypeOK'
    BY <1>8, LifecycleAssumption DEF OnStop, StopDone, NativeTypeOK
  <2>4. HistTypeOK'
    BY <1>8, LifecycleAssumption DEF OnStop, StopDone, HistTypeOK
  <2> QED
    BY <2>1, <2>2, <2>3, <2>4 DEF UiTypeOK, ServiceTypeOK, NativeTypeOK, HistTypeOK
<1>9. CASE Joined
  BY <1>9, LifecycleAssumption DEF Joined, StopDone, StopSelf
<1>10. CASE Boot
  <2>1. UiTypeOK'
    BY <1>10, LifecycleAssumption DEF Boot, CacheTypeOK, UiTypeOK
  <2>2. ServiceTypeOK'
    BY <1>10, LifecycleAssumption DEF Boot, CacheTypeOK, ServiceTypeOK
  <2>3. NativeTypeOK'
    BY <1>10, LifecycleAssumption DEF Boot, CacheTypeOK, NativeTypeOK
  <2>4. HistTypeOK'
    BY <1>10, LifecycleAssumption DEF Boot, CacheTypeOK, HistTypeOK
  <2> QED
    BY <2>1, <2>2, <2>3, <2>4 DEF UiTypeOK, ServiceTypeOK, NativeTypeOK, HistTypeOK
<1>11. CASE BootCache
  BY <1>11, LifecycleAssumption DEF BootCache, SetEnabled
<1>12. CASE InitFails
  <2>1. UiTypeOK'
    BY <1>12, LifecycleAssumption DEF InitFails, UiTypeOK
  <2>2. ServiceTypeOK'
    BY <1>12, LifecycleAssumption DEF InitFails, ServiceTypeOK
  <2>3. NativeTypeOK'
    BY <1>12, LifecycleAssumption DEF InitFails, NativeTypeOK
  <2>4. HistTypeOK'
    BY <1>12, LifecycleAssumption DEF InitFails, HistTypeOK
  <2> QED
    BY <2>1, <2>2, <2>3, <2>4 DEF UiTypeOK, ServiceTypeOK, NativeTypeOK, HistTypeOK
<1>13. CASE Serve
  <2>1. UiTypeOK'
    BY <1>13, LifecycleAssumption DEF Serve, UiTypeOK
  <2>2. ServiceTypeOK'
    BY <1>13, LifecycleAssumption DEF Serve, ServiceTypeOK
  <2>3. NativeTypeOK'
    BY <1>13, LifecycleAssumption DEF Serve, NativeTypeOK
  <2>4. HistTypeOK'
    BY <1>13, LifecycleAssumption DEF Serve, HistTypeOK
  <2> QED
    BY <2>1, <2>2, <2>3, <2>4 DEF UiTypeOK, ServiceTypeOK, NativeTypeOK, HistTypeOK
<1>14. CASE End
  <2>1. UiTypeOK'
    BY <1>14, LifecycleAssumption DEF End, UiTypeOK
  <2>2. ServiceTypeOK'
    BY <1>14, LifecycleAssumption DEF End, ServiceTypeOK
  <2>3. NativeTypeOK'
    BY <1>14, LifecycleAssumption DEF End, NativeTypeOK
  <2>4. HistTypeOK'
    BY <1>14, LifecycleAssumption DEF End, HistTypeOK
  <2> QED
    BY <2>1, <2>2, <2>3, <2>4 DEF UiTypeOK, ServiceTypeOK, NativeTypeOK, HistTypeOK
<1>15. ASSUME NEW a \in Audio, LookUp(a, loaded, bootFlag), engine = "serve", Rest
     PROVE TypeOK'
  BY <1>15, LifecycleAssumption DEF LookUp, Rest
<1>16. ASSUME NothingRecognized, Rest PROVE TypeOK'
  BY <1>16, LifecycleAssumption DEF NothingRecognized, Rest
<1>17. ASSUME Record(loaded, bootFlag), Rest PROVE TypeOK'
  BY <1>17, LifecycleAssumption DEF Record, Rest
<1>18. ASSUME NEW on \in BOOLEAN, SwitchFlag(on), Rest PROVE TypeOK'
  BY <1>18, LifecycleAssumption DEF SwitchFlag, Rest
<1>19. ASSUME SwitchCache, Rest PROVE TypeOK'
  BY <1>19, LifecycleAssumption DEF SwitchCache, SetEnabled, Rest
<1>20. CASE Die
  <2>1. UiTypeOK'
    BY <1>20, LifecycleAssumption DEF Die, NoFlags, UiTypeOK
  <2>2. ServiceTypeOK'
    BY <1>20, LifecycleAssumption DEF Die, NoFlags, ServiceTypeOK
  <2>3. NativeTypeOK'
    BY <1>20, LifecycleAssumption DEF Die, NoFlags, NativeTypeOK
  <2>4. HistTypeOK'
    BY <1>20, LifecycleAssumption DEF Die, NoFlags, HistTypeOK
  <2> QED
    BY <2>1, <2>2, <2>3, <2>4 DEF UiTypeOK, ServiceTypeOK, NativeTypeOK, HistTypeOK
<1>21. ASSUME NEW i \in Activity, StopReported(i) PROVE TypeOK'
  BY <1>21, LifecycleAssumption DEF StopReported
<1>22. ASSUME NEW i \in Activity, Restart(i) PROVE TypeOK'
  <2>1. UiTypeOK'
    <3>1. restarts[i] - 1 \in 0..MaxUserOps
      BY <1>22, LifecycleAssumption DEF Restart
    <3>2. restarts' \in [Activity -> 0..MaxUserOps]
      BY <1>22, <3>1 DEF Restart
    <3>3. started' \in [Activity -> BOOLEAN]
      BY <1>22 DEF Restart, StartServer
    <3> QED
      BY <1>22, <3>2, <3>3 DEF Restart, UiTypeOK
  <2>2. ServiceTypeOK'
    BY <1>22, LifecycleAssumption DEF Restart, StartServer, ServiceTypeOK
  <2>3. NativeTypeOK'
    BY <1>22, LifecycleAssumption DEF Restart, StartServer, NativeTypeOK
  <2>4. HistTypeOK'
    BY <1>22, LifecycleAssumption DEF Restart, StartServer, HistTypeOK
  <2> QED
    BY <2>1, <2>2, <2>3, <2>4 DEF UiTypeOK, ServiceTypeOK, NativeTypeOK, HistTypeOK
<1>23. ASSUME NEW i \in Activity, StopThread(i) PROVE TypeOK'
  BY <1>23, LifecycleAssumption DEF StopThread
<1>24. CASE UNCHANGED vars
  BY <1>24, LifecycleAssumption DEF vars
<1> QED
  BY <1>1, <1>2, <1>3, <1>4, <1>5, <1>6, <1>7, <1>8, <1>9, <1>10, <1>11, <1>12, <1>13, <1>14, <1>15, <1>16, <1>17, <1>18, <1>19, <1>20, <1>21, <1>22, <1>23, <1>24
     DEF Next, Ui, Service, Engine, Worker, Switch, Posted, Rest, histVars

LEMMA StopServerFlags ==
    ASSUME TypeOK, StopServer(act), ~stopping[act]
    PROVE  /\ stopping'[act] /\ stopThread'[act]
           /\ \A i \in Activity : i # act =>
                 (stopping'[i] <=> stopping[i]) /\ (stopThread'[i] <=> stopThread[i])
<1>1. /\ stopping' = [stopping EXCEPT ![act] = TRUE]
      /\ stopThread' = [stopThread EXCEPT ![act] = TRUE]
  BY DEF StopServer
<1>2. stopping'[act] /\ stopThread'[act]
  BY <1>1 DEF TypeOK
<1>3. \A i \in Activity : i # act => stopping'[i] = stopping[i] /\ stopThread'[i] = stopThread[i]
  BY <1>1 DEF TypeOK
<1> QED
  BY <1>2, <1>3

\* The flags of the activities.
LEMMA NextFlags ==
    ASSUME TypeOK, FlagInv, [Next]_vars
    PROVE  FlagInv'
<1> USE DEF TypeOK, FlagInv, Activity, vars, cacheVars, uiVars, serviceVars, nativeVars, histVars
<1>1. CASE Settled
  BY <1>1, LifecycleAssumption DEF Settled, vars
<1>2. CASE UserStart
  BY <1>2, LifecycleAssumption DEF UserStart, UserOp, StartServer
<1>3. CASE UserStop
  <2>1. CASE stopping[act]
    BY <1>3, <2>1 DEF UserStop, UserOp, StopServer
  <2>2. CASE ~stopping[act]
    <3>1. StopServer(act) /\ ops' = ops + 1 /\ UNCHANGED <<posted, restarts, act>>
      BY <1>3 DEF UserStop, UserOp
    <3> QED
      BY <2>2, <3>1, StopServerFlags, LifecycleAssumption
  <2> QED
    BY <2>1, <2>2
<1>4. ASSUME NEW p \in Models, UserPolicy(p) PROVE FlagInv'
  <2>1. ops' = ops + 1
    BY <1>4 DEF UserPolicy, UserOp
  <2>2. CASE ~started[act]
    BY <1>4, <2>1, <2>2, LifecycleAssumption DEF UserPolicy
  <2>3. CASE started[act]
    <3>1. /\ restarts' = [restarts EXCEPT ![act] = @ + 1]
          /\ StopServer(act) /\ UNCHANGED <<act, posted>>
      BY <1>4, <2>3 DEF UserPolicy
    <3>2. CASE stopping[act]
      BY <2>1, <3>1, <3>2, LifecycleAssumption DEF StopServer
    <3>3. CASE ~stopping[act]
      <4>1. \A i \in Activity : restarts'[i] = IF i = act THEN restarts[i] + 1 ELSE restarts[i]
        BY <3>1
      <4>2. \A i \in Activity : restarts'[i] <= ops'
        BY <2>1, <4>1, LifecycleAssumption
      <4>3. \A i \in Activity : restarts'[i] > 0 => i <= act'
        BY <3>1, <4>1, LifecycleAssumption
      <4> QED
        BY <3>1, <3>3, <4>2, <4>3, StopServerFlags
    <3> QED
      BY <3>2, <3>3
  <2> QED
    BY <2>2, <2>3
<1>5. CASE Recreate
  BY <1>5, LifecycleAssumption DEF Recreate
<1>6. CASE StatusChecker
  BY <1>6, LifecycleAssumption DEF StatusChecker
<1>7. CASE OnStart
  BY <1>7, LifecycleAssumption DEF OnStart, NativeStart
<1>8. CASE OnStop
  BY <1>8, LifecycleAssumption DEF OnStop, StopDone, StopSelf
<1>9. CASE Joined
  BY <1>9, LifecycleAssumption DEF Joined, StopDone, StopSelf
<1>10. CASE Boot
  BY <1>10, LifecycleAssumption DEF Boot
<1>11. CASE BootCache
  BY <1>11, LifecycleAssumption DEF BootCache, SetEnabled
<1>12. CASE InitFails
  BY <1>12, LifecycleAssumption DEF InitFails
<1>13. CASE Serve
  BY <1>13, LifecycleAssumption DEF Serve
<1>14. CASE End
  BY <1>14, LifecycleAssumption DEF End
<1>15. ASSUME NEW a \in Audio, LookUp(a, loaded, bootFlag), engine = "serve", Rest
     PROVE FlagInv'
  BY <1>15, LifecycleAssumption DEF LookUp, Rest
<1>16. ASSUME NothingRecognized, Rest PROVE FlagInv'
  BY <1>16, LifecycleAssumption DEF NothingRecognized, Rest
<1>17. ASSUME Record(loaded, bootFlag), Rest PROVE FlagInv'
  BY <1>17, LifecycleAssumption DEF Record, Rest
<1>18. ASSUME NEW on \in BOOLEAN, SwitchFlag(on), Rest PROVE FlagInv'
  BY <1>18, LifecycleAssumption DEF SwitchFlag, Rest
<1>19. ASSUME SwitchCache, Rest PROVE FlagInv'
  BY <1>19, LifecycleAssumption DEF SwitchCache, SetEnabled, Rest
<1>20. CASE Die
  <2>1. /\ restarts' = [i \in Activity |-> 0] /\ UNCHANGED <<act, ops>>
        /\ started' = NoFlags /\ stopping' = NoFlags /\ posted' = NoFlags
        /\ stopThread' = NoFlags
    BY <1>20 DEF Die
  <2> QED
    BY <2>1, LifecycleAssumption DEF NoFlags
<1>21. ASSUME NEW i \in Activity, StopReported(i) PROVE FlagInv'
  BY <1>21, LifecycleAssumption DEF StopReported
<1>22. ASSUME NEW i \in Activity, Restart(i) PROVE FlagInv'
  BY <1>22, LifecycleAssumption DEF Restart, StartServer
<1>23. ASSUME NEW i \in Activity, StopThread(i) PROVE FlagInv'
  BY <1>23, LifecycleAssumption DEF StopThread
<1>24. CASE UNCHANGED vars
  BY <1>24, LifecycleAssumption DEF vars
<1> QED
  BY <1>1, <1>2, <1>3, <1>4, <1>5, <1>6, <1>7, <1>8, <1>9, <1>10, <1>11, <1>12, <1>13, <1>14, <1>15, <1>16, <1>17, <1>18, <1>19, <1>20, <1>21, <1>22, <1>23, <1>24
     DEF Next, Ui, Service, Engine, Worker, Switch, Posted, Rest, histVars

\* The service and its engine.
LEMMA NextEngine ==
    ASSUME TypeOK, EngineInv, [Next]_vars
    PROVE  EngineInv'
<1> USE DEF TypeOK, EngineInv, vars, cacheVars, uiVars, serviceVars, nativeVars, histVars
<1>1. CASE Settled
  BY <1>1 DEF Settled, vars
<1>2. CASE UserStart
  BY <1>2 DEF UserStart, UserOp, StartServer
<1>3. CASE UserStop
  BY <1>3 DEF UserStop, UserOp, StopServer
<1>4. ASSUME NEW p \in Models, UserPolicy(p) PROVE EngineInv'
  BY <1>4 DEF UserPolicy, UserOp, StopServer
<1>5. CASE Recreate
  BY <1>5 DEF Recreate
<1>6. CASE StatusChecker
  BY <1>6 DEF StatusChecker
<1>7. CASE OnStart
  <2>1. main = "idle" /\ main' = main /\ alive' /\ sticky' /\ wakeLock' /\ running'
    BY <1>7 DEF OnStart
  <2>2. CASE running
    <3>1. engine' = engine /\ gModel' = gModel /\ loaded' = loaded /\ gReady' = gReady
      BY <1>7, <2>2 DEF OnStart
    <3> QED
      BY <2>1, <2>2, <3>1
  <2>3. CASE ~running
    <3>1. ~gRunning /\ ~gStarting
      BY <2>1, <2>3
    <3>2. engine' = "boot"
      BY <1>7, <2>3, <3>1 DEF OnStart, NativeStart
    <3>3. gModel' = IF Head(intents).model = NoModel THEN policy ELSE Head(intents).model
      BY <1>7, <2>3, <3>1 DEF OnStart, NativeStart
    <3>4. gModel' \in Models
      BY <1>7, <3>3, IntentFacts, CommandFacts DEF OnStart
    <3> QED
      BY <2>1, <3>2, <3>4
  <2> QED
    BY <2>2, <2>3
<1>8. CASE OnStop
  BY <1>8 DEF OnStop, StopDone, StopSelf
<1>9. CASE Joined
  BY <1>9 DEF Joined, StopDone, StopSelf
<1>10. CASE Boot
  BY <1>10 DEF Boot
<1>11. CASE BootCache
  BY <1>11 DEF BootCache, SetEnabled
<1>12. CASE InitFails
  BY <1>12 DEF InitFails
<1>13. CASE Serve
  BY <1>13 DEF Serve
<1>14. CASE End
  BY <1>14 DEF End
<1>15. ASSUME NEW a \in Audio, LookUp(a, loaded, bootFlag), engine = "serve", Rest
     PROVE EngineInv'
  BY <1>15 DEF LookUp, Rest
<1>16. ASSUME NothingRecognized, Rest PROVE EngineInv'
  BY <1>16 DEF NothingRecognized, Rest
<1>17. ASSUME Record(loaded, bootFlag), Rest PROVE EngineInv'
  BY <1>17 DEF Record, Rest
<1>18. ASSUME NEW on \in BOOLEAN, SwitchFlag(on), Rest PROVE EngineInv'
  BY <1>18 DEF SwitchFlag, Rest
<1>19. ASSUME SwitchCache, Rest PROVE EngineInv'
  BY <1>19 DEF SwitchCache, SetEnabled, Rest
<1>20. CASE Die
  BY <1>20 DEF Die
<1>21. ASSUME NEW i \in Activity, StopReported(i) PROVE EngineInv'
  BY <1>21 DEF StopReported
<1>22. ASSUME NEW i \in Activity, Restart(i) PROVE EngineInv'
  BY <1>22 DEF Restart, StartServer
<1>23. ASSUME NEW i \in Activity, StopThread(i) PROVE EngineInv'
  <2>1. main # "idle" => intents' # <<>> /\ Head(intents').cmd = main
    <3>1. intents' = Append(intents, [cmd |-> "stop"]) /\ [cmd |-> "stop"] \in Command
      BY <1>23, CommandFacts DEF StopThread
    <3>2. intents # <<>> => intents' # <<>> /\ Head(intents') = Head(intents)
      BY <3>1
    <3> QED
      BY <3>2
  <2> QED
    BY <1>23, <2>1 DEF StopThread
<1>24. CASE UNCHANGED vars
  BY <1>24 DEF vars
<1> QED
  BY <1>1, <1>2, <1>3, <1>4, <1>5, <1>6, <1>7, <1>8, <1>9, <1>10, <1>11, <1>12, <1>13, <1>14, <1>15, <1>16, <1>17, <1>18, <1>19, <1>20, <1>21, <1>22, <1>23, <1>24
     DEF Next, Ui, Service, Engine, Worker, Switch, Posted, Rest, histVars

LEMMA EmptiedCache ==
    ASSUME cache' = EmptyCache
    PROVE  IsFiniteSet(Cached') /\ Cached' = {} /\ Cardinality(Cached') <= CacheSize
<1>1. Cached' = {}
  BY DEF Cached, EmptyCache
<1>2. IsFiniteSet({}) /\ Cardinality({}) = 0
  BY FS_EmptySet
<1> QED
  BY <1>1, <1>2, CacheAssumption

LEMMA WorkFacts ==
    ASSUME TypeOK
    PROVE  work # Idle => work.audio \in Audio /\ work.by \in Models
BY DEF TypeOK, CacheTypeOK

\* recordRecognition keeps the bound, and adds the one text.
LEMMA InsertFacts ==
    ASSUME cache \in [Audio -> Models \cup {NoModel}], IsFiniteSet(Cached),
           Cardinality(Cached) <= CacheSize,
           NEW a \in Audio, NEW m \in Models, cache' = Insert(a, m)
    PROVE  /\ IsFiniteSet(Cached') /\ Cardinality(Cached') <= CacheSize
           /\ \A b \in Cached' : (b = a /\ cache'[b] = m) \/ (b \in Cached /\ cache'[b] = cache[b])
<1>1. m # NoModel
  BY ModelFacts
<1>2. Cardinality(Cached) \in Nat
  BY FS_CardinalityType
<1>3. CASE Cardinality(Cached) >= CacheSize
  <2>1. cache' = [EmptyCache EXCEPT ![a] = m]
    BY <1>3 DEF Insert
  <2>2. \A b \in Audio : cache'[b] = IF b = a THEN m ELSE NoModel
    BY <2>1 DEF EmptyCache
  <2>3. Cached' = {a}
    BY <2>2, <1>1 DEF Cached
  <2>4. IsFiniteSet({a}) /\ Cardinality({a}) = 1
    BY FS_Singleton
  <2>5. 1 <= CacheSize
    BY CacheAssumption
  <2> QED
    BY <2>2, <2>3, <2>4, <2>5
<1>4. CASE ~(Cardinality(Cached) >= CacheSize)
  <2>1. cache' = [cache EXCEPT ![a] = m]
    BY <1>4 DEF Insert
  <2>2. \A b \in Audio : cache'[b] = IF b = a THEN m ELSE cache[b]
    BY <2>1
  <2>3. Cached' = Cached \cup {a}
    BY <2>2, <1>1 DEF Cached
  <2>4. /\ IsFiniteSet(Cached \cup {a})
        /\ Cardinality(Cached \cup {a}) =
              IF a \in Cached THEN Cardinality(Cached) ELSE Cardinality(Cached) + 1
    BY FS_AddElement
  <2>5. Cardinality(Cached') <= CacheSize
    BY <1>2, <1>4, <2>3, <2>4, CacheAssumption
  <2>6. \A b \in Cached' : (b = a /\ cache'[b] = m) \/ (b \in Cached /\ cache'[b] = cache[b])
    BY <2>2, <2>3 DEF Cached
  <2> QED
    BY <2>3, <2>4, <2>5, <2>6
<1> QED
  BY <1>3, <1>4

\* The cache and the answers from it.
LEMMA NextCache ==
    ASSUME TypeOK, EngineInv, CacheInv, [Next]_vars
    PROVE  CacheInv'
<1> USE DEF TypeOK, CacheTypeOK, CacheInv, CacheSound, Cached, vars, cacheVars, uiVars, serviceVars, nativeVars, histVars
<1>1. CASE Settled
  BY <1>1 DEF Settled, vars
<1>2. CASE UserStart
  BY <1>2 DEF UserStart, UserOp, StartServer
<1>3. CASE UserStop
  BY <1>3 DEF UserStop, UserOp, StopServer
<1>4. ASSUME NEW p \in Models, UserPolicy(p) PROVE CacheInv'
  BY <1>4 DEF UserPolicy, UserOp, StopServer
<1>5. CASE Recreate
  BY <1>5 DEF Recreate
<1>6. CASE StatusChecker
  BY <1>6 DEF StatusChecker
<1>7. CASE OnStart
  <2>1. engine = "serve" => running
    BY <1>7 DEF EngineInv, OnStart
  <2>2. engine' = engine \/ (~running /\ engine' = "boot")
    BY <1>7 DEF OnStart, NativeStart
  <2>3. UNCHANGED <<cache, enabled, work, bootFlag, loaded, answer>>
    BY <1>7 DEF OnStart
  <2> QED
    BY <2>1, <2>2, <2>3
<1>8. CASE OnStop
  BY <1>8 DEF OnStop, StopDone, StopSelf
<1>9. CASE Joined
  BY <1>9 DEF Joined, StopDone, StopSelf
<1>10. CASE Boot
  BY <1>10 DEF Boot
<1>11. CASE BootCache
  <2>1. CASE cache' = cache /\ enabled'
    BY <1>11, <2>1 DEF BootCache, SetEnabled
  <2>2. CASE cache' = EmptyCache /\ ~enabled'
    BY <1>11, <2>2, EmptiedCache DEF BootCache
  <2> QED
    BY <1>11, <2>1, <2>2 DEF BootCache, SetEnabled
<1>12. CASE InitFails
  BY <1>12 DEF InitFails
<1>13. CASE Serve
  BY <1>13 DEF Serve
<1>14. CASE End
  BY <1>14 DEF End
<1>15. ASSUME NEW a \in Audio, LookUp(a, loaded, bootFlag), engine = "serve", Rest
     PROVE CacheInv'
  <2>1. UNCHANGED <<cache, enabled, engine, bootFlag, loaded>>
    BY <1>15 DEF LookUp, Rest
  <2>2. work' = work \/ work' = [audio |-> a, by |-> loaded]
    BY <1>15 DEF LookUp
  <2>3. work' # Idle => work'.by = loaded
    BY <1>15, <2>2 DEF LookUp
  <2>4. answer' # "strange"
    <3>1. CASE enabled /\ a \in Cached
      <4>1. answer' = Kind(cache[a], loaded, bootFlag)
        BY <1>15, <3>1 DEF LookUp
      <4>2. ~bootFlag => cache[a] = loaded
        BY <1>15, <3>1
      <4> QED
        BY <4>1, <4>2 DEF Kind
    <3>2. CASE ~(enabled /\ a \in Cached)
      BY <1>15, <3>2 DEF LookUp
    <3> QED
      BY <3>1, <3>2
  <2> QED
    BY <1>15, <2>1, <2>3, <2>4
<1>16. ASSUME NothingRecognized, Rest PROVE CacheInv'
  BY <1>16 DEF NothingRecognized, Rest
<1>17. ASSUME Record(loaded, bootFlag), Rest PROVE CacheInv'
  <2>1. work # Idle /\ work' = Idle /\ answer' = Kind(work.by, loaded, bootFlag)
    BY <1>17 DEF Record
  <2>2. engine = "serve" /\ work.by = loaded /\ work.audio \in Audio /\ work.by \in Models
    BY <2>1, WorkFacts
  <2>3. answer' # "strange"
    BY <2>1, <2>2 DEF Kind
  <2>4. UNCHANGED <<enabled, engine, bootFlag, loaded>>
    BY <1>17 DEF Record, Rest
  <2>5. CASE enabled
    <3>1. cache' = Insert(work.audio, work.by)
      BY <1>17, <2>5 DEF Record
    <3>2. /\ cache \in [Audio -> Models \cup {NoModel}]
          /\ IsFiniteSet(Cached) /\ Cardinality(Cached) <= CacheSize
      OBVIOUS
    <3> HIDE DEF Cached, TypeOK, CacheTypeOK, CacheInv, CacheSound
    <3>3. /\ IsFiniteSet(Cached') /\ Cardinality(Cached') <= CacheSize
          /\ \A b \in Cached' :
                (b = work.audio /\ cache'[b] = work.by) \/ (b \in Cached /\ cache'[b] = cache[b])
      BY <2>2, <3>1, <3>2, InsertFacts
    <3> QED
      BY <2>1, <2>2, <2>3, <2>4, <2>5, <3>3 DEF Cached, CacheInv, CacheSound
  <2>6. CASE ~enabled
    <3>1. cache' = cache
      BY <1>17, <2>6 DEF Record
    <3> QED
      BY <2>1, <2>3, <2>4, <3>1
  <2> QED
    BY <2>5, <2>6
<1>18. ASSUME NEW on \in BOOLEAN, SwitchFlag(on), Rest PROVE CacheInv'
  BY <1>18 DEF SwitchFlag, Rest
<1>19. ASSUME SwitchCache, Rest PROVE CacheInv'
  <2>1. CASE cache' = cache /\ enabled'
    BY <1>19, <2>1 DEF SwitchCache, Rest
  <2>2. CASE cache' = EmptyCache /\ ~enabled'
    BY <1>19, <2>2, EmptiedCache DEF SwitchCache, Rest
  <2> QED
    BY <1>19, <2>1, <2>2 DEF SwitchCache, Rest, SetEnabled
<1>20. CASE Die
  <2>1. cache' = EmptyCache /\ ~enabled' /\ work' = Idle /\ answer' = answer /\ engine' = "none"
    BY <1>20 DEF Die
  <2> QED
    BY <2>1, EmptiedCache
<1>21. ASSUME NEW i \in Activity, StopReported(i) PROVE CacheInv'
  BY <1>21 DEF StopReported
<1>22. ASSUME NEW i \in Activity, Restart(i) PROVE CacheInv'
  BY <1>22 DEF Restart, StartServer
<1>23. ASSUME NEW i \in Activity, StopThread(i) PROVE CacheInv'
  BY <1>23 DEF StopThread
<1>24. CASE UNCHANGED vars
  BY <1>24 DEF vars
<1> QED
  BY <1>1, <1>2, <1>3, <1>4, <1>5, <1>6, <1>7, <1>8, <1>9, <1>10, <1>11, <1>12, <1>13, <1>14, <1>15, <1>16, <1>17, <1>18, <1>19, <1>20, <1>21, <1>22, <1>23, <1>24
     DEF Next, Ui, Service, Engine, Worker, Switch, Posted, Rest, histVars


-----------------------------------------------------------------------------
(* What the user asked for and what will become of it. *)

\* UserInv, for those who need not be excused.
Fate == IF wish = "on" /\ ~Coming THEN Up ELSE Ending

LEMMA Unexcused ==
    UserInv <=> (~excused => OneInv /\ ShapeInv /\ (wish = "off" => ~Coming) /\ Fate)
BY DEF UserInv, Fate

\* No stop is under way.
LEMMA Calm ==
    ASSUME TypeOK, FlagInv, ~StopPending
    PROVE  /\ \A i \in Activity :
                 ~stopThread[i] /\ ~posted[i] /\ ~stopping[i] /\ restarts[i] = 0
           /\ ~Coming /\ ~Sending /\ ~Sent
           /\ \A k \in DOMAIN intents : intents[k].cmd = "start"
<1>1. \A i \in Activity : restarts[i] \in Nat
  BY LifecycleAssumption DEF TypeOK
<1>2. \A i \in Activity : ~stopThread[i] /\ ~posted[i] /\ ~(restarts[i] > 0)
  BY DEF StopPending
<1>3. \A i \in Activity : ~stopping[i] /\ restarts[i] = 0
  BY <1>1, <1>2 DEF FlagInv
<1>4. \A k \in DOMAIN intents : intents[k].cmd = "start"
  BY DEF StopPending
<1> QED
  BY <1>2, <1>3, <1>4 DEF Coming, Sending, Sent

\* Without an engine, running or to come, nothing was asked for, and no
\* activity thinks otherwise.
LEMMA CalmAndOff ==
    ASSUME TypeOK, FlagInv, ~StopPending, Fate, ~running, ~Starting
    PROVE  wish = "off" /\ intents = <<>> /\ \A i \in Activity : ~started[i]
<1>1. ~Coming /\ (\A i \in Activity : ~stopping[i]) /\ \A k \in DOMAIN intents : intents[k].cmd = "start"
  BY Calm
<1>2. ~Up
  BY DEF Up
<1>3. wish = "off" /\ Ending
  BY <1>1, <1>2 DEF Fate, TypeOK
<1>4. \A i \in Activity : ~started[i]
  BY <1>1, <1>3 DEF Ending
<1>5. intents = <<>>
  <2>1. \A k \in DOMAIN intents : FALSE
    BY <1>1 DEF Starting
  <2>2. intents \in Seq(Command)
    BY DEF TypeOK
  <2>3. Len(intents) \in Nat /\ DOMAIN intents = 1..Len(intents)
    BY <2>2
  <2>4. ~(1 \in DOMAIN intents)
    BY <2>1
  <2>5. Len(intents) = 0
    BY <2>3, <2>4
  <2> QED
    BY <2>2, <2>5
<1> QED
  BY <1>3, <1>4, <1>5

LEMMA AppendIntent ==
    ASSUME TypeOK, NEW c \in Command, intents' = Append(intents, c)
    PROVE  /\ Len(intents') = Len(intents) + 1 /\ Len(intents) \in Nat
           /\ DOMAIN intents = 1..Len(intents) /\ DOMAIN intents' = 1..(Len(intents) + 1)
           /\ \A k \in DOMAIN intents : k \in DOMAIN intents' /\ intents'[k] = intents[k]
           /\ intents'[Len(intents) + 1] = c
           /\ \A k \in DOMAIN intents' :
                 \/ k \in DOMAIN intents /\ intents'[k] = intents[k]
                 \/ k = Len(intents) + 1 /\ intents'[k] = c
<1>1. intents \in Seq(Command)
  BY DEF TypeOK
<1>2. /\ Len(intents) \in Nat /\ DOMAIN intents = 1..Len(intents)
      /\ Len(intents') = Len(intents) + 1 /\ DOMAIN intents' = 1..(Len(intents) + 1)
  BY <1>1
<1>3. \A k \in 1..Len(intents) : intents'[k] = intents[k]
  BY <1>1
<1>4. intents'[Len(intents) + 1] = c
  BY <1>1
<1>5. \A k \in DOMAIN intents' : k \in DOMAIN intents \/ k = Len(intents) + 1
  BY <1>2
<1>6. \A k \in DOMAIN intents : k \in DOMAIN intents'
  BY <1>2
<1> QED
  BY <1>2, <1>3, <1>4, <1>5, <1>6

LEMMA TailIntents ==
    ASSUME TypeOK, intents # <<>>
    PROVE  /\ Len(intents) \in Nat /\ Len(intents) > 0 /\ DOMAIN intents = 1..Len(intents)
           /\ 1 \in DOMAIN intents /\ Head(intents) = intents[1]
           /\ Head(intents) \in Command
           /\ Tail(intents) \in Seq(Command)
           /\ Len(Tail(intents)) = Len(intents) - 1
           /\ DOMAIN Tail(intents) = 1..(Len(intents) - 1)
           /\ \A k \in DOMAIN Tail(intents) :
                 k + 1 \in DOMAIN intents /\ k + 1 # 1 /\ Tail(intents)[k] = intents[k + 1]
           /\ \A k \in DOMAIN intents : k # 1 =>
                 k - 1 \in DOMAIN Tail(intents) /\ Tail(intents)[k - 1] = intents[k]
<1>1. intents \in Seq(Command)
  BY DEF TypeOK
<1>2. /\ Len(intents) \in Nat /\ Len(intents) > 0 /\ DOMAIN intents = 1..Len(intents)
      /\ Head(intents) = intents[1] /\ Head(intents) \in Command
      /\ Tail(intents) \in Seq(Command)
      /\ Len(Tail(intents)) = Len(intents) - 1
      /\ DOMAIN Tail(intents) = 1..(Len(intents) - 1)
  BY <1>1
<1>3. \A k \in 1..(Len(intents) - 1) : Tail(intents)[k] = intents[k + 1]
  BY <1>1
<1>4. \A k \in DOMAIN Tail(intents) :
          k + 1 \in DOMAIN intents /\ k + 1 # 1 /\ Tail(intents)[k] = intents[k + 1]
  BY <1>2, <1>3
<1>5. \A k \in DOMAIN intents : k # 1 =>
          k - 1 \in DOMAIN Tail(intents) /\ Tail(intents)[k - 1] = intents[k]
  <2> SUFFICES ASSUME NEW k \in DOMAIN intents, k # 1
               PROVE  k - 1 \in DOMAIN Tail(intents) /\ Tail(intents)[k - 1] = intents[k]
    OBVIOUS
  <2>1. k \in Nat /\ k - 1 \in 1..(Len(intents) - 1) /\ (k - 1) + 1 = k
    BY <1>2
  <2> QED
    BY <1>2, <1>3, <2>1
<1>6. 1 \in DOMAIN intents
  BY <1>2
<1> QED
  BY <1>2, <1>4, <1>5, <1>6


\* A start is sent.
LEMMA StartSent ==
    ASSUME TypeOK, NEW m \in Models \cup {NoModel},
           intents' = Append(intents, [cmd |-> "start", model |-> m])
    PROVE  /\ Starting' /\ (Sent' <=> Sent)
           /\ \A k \in DOMAIN intents' :
                 \/ k \in DOMAIN intents /\ intents'[k] = intents[k]
                 \/ intents'[k].cmd = "start" /\ intents'[k].model = m
<1> DEFINE c == [cmd |-> "start", model |-> m]
<1>1. c \in Command /\ c.cmd = "start" /\ c.model = m
  BY CommandFacts
<1> HIDE DEF c
<1>2. /\ \A k \in DOMAIN intents : k \in DOMAIN intents' /\ intents'[k] = intents[k]
      /\ Len(intents) \in Nat /\ DOMAIN intents' = 1..(Len(intents) + 1)
      /\ intents'[Len(intents) + 1] = c
      /\ \A k \in DOMAIN intents' :
            \/ k \in DOMAIN intents /\ intents'[k] = intents[k]
            \/ k = Len(intents) + 1 /\ intents'[k] = c
  <2>1. intents' = Append(intents, c)
    BY DEF c
  <2> QED
    BY <1>1, <2>1, AppendIntent
<1>3. Starting'
  BY <1>1, <1>2 DEF Starting
<1>4. Sent' <=> Sent
  BY <1>1, <1>2 DEF Sent
<1> QED
  BY <1>1, <1>2, <1>3, <1>4

\* SttBridge.start
LEMMA UserStartFate ==
    ASSUME TypeOK, EngineInv, FlagInv, UserInv, UserStart
    PROVE  UserInv'
<1> SUFFICES ASSUME ~excused'
             PROVE  OneInv' /\ ShapeInv' /\ (wish' = "off" => ~Coming') /\ Fate'
  BY Unexcused DEF UserInv, Fate
<1>1. /\ ~excused /\ ~StopPending /\ (started[act] \/ (~running /\ ~Starting))
      /\ wish' = "on"
      /\ intents' = Append(intents, [cmd |-> "start", model |-> policy])
      /\ started' = [started EXCEPT ![act] = TRUE]
      /\ UNCHANGED <<act, stopping, stopThread, posted, restarts, policy, running,
                     nativeVars, deaths, early>>
  BY DEF UserStart, UserOp, StartServer
<1>2. OneInv /\ ShapeInv /\ Fate
  BY <1>1, Unexcused
<1>3. /\ \A i \in Activity :
             ~stopThread[i] /\ ~posted[i] /\ ~stopping[i] /\ restarts[i] = 0
      /\ ~Coming /\ ~Sending /\ ~Sent
      /\ \A k \in DOMAIN intents : intents[k].cmd = "start"
  BY <1>1, Calm
<1>4. policy \in Models \cup {NoModel} /\ act \in Activity
  BY DEF TypeOK
<1>5. /\ Starting' /\ ~Sent'
      /\ \A k \in DOMAIN intents' :
            \/ k \in DOMAIN intents /\ intents'[k] = intents[k]
            \/ intents'[k].cmd = "start" /\ intents'[k].model = policy
  BY <1>1, <1>3, <1>4, StartSent
<1>6. \A i \in Activity : started'[i] <=> i = act \/ started[i]
  BY <1>1 DEF TypeOK
<1>7. \A i, j \in Activity : started'[i] /\ started'[j] => i = j
  <2>1. CASE started[act]
    BY <1>2, <1>4, <1>6, <2>1 DEF OneInv
  <2>2. CASE ~started[act]
    <3>1. \A i \in Activity : ~started[i]
      BY <1>1, <1>2, <2>2, CalmAndOff
    <3> QED
      BY <1>6, <3>1
  <2> QED
    BY <2>1, <2>2
<1>8. OneInv'
  BY <1>1, <1>2, <1>7 DEF OneInv
<1>9. ~Coming'
  BY <1>1, <1>3 DEF Coming
<1>10. ShapeInv'
  <2>1. ~Sending'
    BY <1>1, <1>3 DEF Sending
  <2>2. \A k \in DOMAIN intents' : intents'[k].cmd = "start"
    BY <1>3, <1>5
  <2> QED
    BY <2>1, <2>2 DEF ShapeInv
<1>11. Up'
  <2>1. CASE wish = "on"
    <3>1. Up
      BY <1>2, <1>3, <2>1 DEF Fate
    <3>2. \A k \in DOMAIN intents' :
              intents'[k].cmd = "start" => intents'[k].model \in {policy', NoModel}
      BY <1>1, <1>5, <3>1 DEF Up
    <3>3. started'[act]
      BY <1>4, <1>6
    <3>4. running' =>
             /\ gModel' = policy'
             /\ engine' = "serve" => loaded' = policy'
             /\ IF engine' = "ended" THEN gError' ELSE gRunning'
      BY <1>1, <3>1 DEF Up, nativeVars
    <3> QED
      BY <1>1, <1>3, <1>5, <3>2, <3>3, <3>4 DEF Up
  <2>2. CASE wish # "on"
    <3>1. wish = "off" /\ Ending
      BY <1>2, <2>2 DEF Fate, TypeOK
    <3>2. ~running /\ ~Starting
      BY <1>3, <3>1 DEF Ending
    <3>3. intents = <<>>
      BY <1>1, <1>2, <3>2, CalmAndOff
    <3>4. \A k \in DOMAIN intents' :
              intents'[k].cmd = "start" => intents'[k].model \in {policy', NoModel}
      BY <1>1, <1>5, <3>3
    <3>5. started'[act]
      BY <1>4, <1>6
    <3> QED
      BY <1>1, <1>3, <1>5, <3>2, <3>4, <3>5 DEF Up
  <2> QED
    BY <2>1, <2>2
<1> QED
  BY <1>1, <1>8, <1>9, <1>10, <1>11 DEF Fate

\* SttBridge.stop
LEMMA UserStopFate ==
    ASSUME TypeOK, EngineInv, FlagInv, UserInv, UserStop
    PROVE  UserInv'
<1> SUFFICES ASSUME ~excused'
             PROVE  OneInv' /\ ShapeInv' /\ (wish' = "off" => ~Coming') /\ Fate'
  BY Unexcused DEF UserInv, Fate
<1>1. /\ ~excused /\ ~StopPending /\ (started[act] \/ (~running /\ ~Starting))
      /\ wish' = "off" /\ StopServer(act)
      /\ UNCHANGED <<act, started, restarts, running, intents>>
  BY DEF UserStop, UserOp, serviceVars
<1>2. OneInv /\ ShapeInv /\ Fate
  BY <1>1, Unexcused
<1>3. /\ \A i \in Activity :
             ~stopThread[i] /\ ~posted[i] /\ ~stopping[i] /\ restarts[i] = 0
      /\ ~Coming /\ ~Sending /\ ~Sent
      /\ \A k \in DOMAIN intents : intents[k].cmd = "start"
  BY <1>1, Calm
<1>4. act \in Activity
  BY DEF TypeOK
<1>5. /\ stopping'[act] /\ stopThread'[act]
      /\ \A i \in Activity : i # act => ~stopping'[i] /\ ~stopThread'[i]
  BY <1>1, <1>3, <1>4, StopServerFlags
<1>6. \A i \in Activity : started[i] => i = act
  <2>1. CASE started[act]
    BY <1>2, <1>4, <2>1 DEF OneInv
  <2>2. CASE ~started[act]
    BY <1>1, <1>2, <2>2, CalmAndOff
  <2> QED
    BY <2>1, <2>2
<1>7. OneInv'
  BY <1>1, <1>2, <1>3, <1>5 DEF OneInv
<1>8. ShapeInv'
  BY <1>1, <1>2, <1>3 DEF ShapeInv, Sent
<1>9. ~Coming'
  BY <1>1, <1>3 DEF Coming
<1>10. Ending'
  BY <1>1, <1>4, <1>5, <1>6 DEF Ending, Sending
<1> QED
  BY <1>1, <1>7, <1>8, <1>9, <1>10 DEF Fate

\* SttBridge.setBackendPolicy
LEMMA UserPolicyFate ==
    ASSUME TypeOK, EngineInv, FlagInv, UserInv, NEW p \in Models, UserPolicy(p)
    PROVE  UserInv'
<1> SUFFICES ASSUME ~excused'
             PROVE  OneInv' /\ ShapeInv' /\ (wish' = "off" => ~Coming') /\ Fate'
  BY Unexcused DEF UserInv, Fate
<1>1. /\ ~excused /\ ~StopPending /\ (started[act] \/ (~running /\ ~Starting))
      /\ UNCHANGED <<act, started, posted, running, intents, wish>>
  BY DEF UserPolicy, UserOp, serviceVars
<1>2. OneInv /\ ShapeInv /\ Fate
  BY <1>1, Unexcused
<1>3. /\ \A i \in Activity :
             ~stopThread[i] /\ ~posted[i] /\ ~stopping[i] /\ restarts[i] = 0
      /\ ~Coming /\ ~Sending /\ ~Sent
      /\ \A k \in DOMAIN intents : intents[k].cmd = "start"
  BY <1>1, Calm
<1>4. act \in Activity
  BY DEF TypeOK
<1>5. CASE ~started[act]
  <2>1. UNCHANGED <<stopping, stopThread, restarts>>
    BY <1>5 DEF UserPolicy
  <2>2. ~running /\ ~Starting /\ wish = "off" /\ \A i \in Activity : ~started[i]
    BY <1>1, <1>2, <1>5, CalmAndOff
  <2>3. OneInv' /\ ShapeInv' /\ ~Coming' /\ ~Sending' /\ ~Sent'
    BY <1>1, <1>2, <1>3, <2>1 DEF OneInv, ShapeInv, Coming, Sending, Sent
  <2>4. Ending'
    BY <1>1, <2>2 DEF Ending, Starting
  <2> QED
    BY <1>1, <2>2, <2>3, <2>4 DEF Fate
<1>6. CASE started[act]
  <2>1. StopServer(act) /\ restarts' = [restarts EXCEPT ![act] = @ + 1]
    BY <1>6 DEF UserPolicy
  <2>2. /\ stopping'[act] /\ stopThread'[act]
        /\ \A i \in Activity : i # act => ~stopping'[i] /\ ~stopThread'[i]
    BY <1>3, <1>4, <2>1, StopServerFlags
  <2>3. \A i \in Activity : restarts'[i] = IF i = act THEN 1 ELSE 0
    BY <1>3, <2>1 DEF TypeOK
  <2>4. wish = "on"
    <3>1. ~Ending
      BY <1>3, <1>4, <1>6 DEF Ending
    <3> QED
      BY <1>2, <3>1 DEF Fate
  <2>5. OneInv'
    BY <1>1, <1>2, <2>2, <2>3 DEF OneInv
  <2>6. ShapeInv'
    BY <1>1, <1>2, <1>3 DEF ShapeInv, Sent
  <2>7. Coming'
    BY <1>4, <2>3 DEF Coming
  <2>8. Ending'
    BY <1>1, <1>2, <1>4, <1>6, <2>2 DEF Ending, Sending, OneInv
  <2> QED
    BY <1>1, <2>4, <2>5, <2>6, <2>7, <2>8 DEF Fate
<1> QED
  BY <1>5, <1>6


\* What the fate depends on; a step that changes none of it keeps UserInv.
fateVars == <<act, started, stopping, stopThread, restarts, policy, intents, running,
              gRunning, gError, gModel, engine, loaded, deaths, wish, excused, early>>

LEMMA FateFrame == UserInv /\ UNCHANGED fateVars => UserInv'
BY DEF fateVars, UserInv, OneInv, ShapeInv, Coming, Sending, Sent, Starting, Up, Ending

\* A new activity, and the checker of the old one.
LEMMA RecreateFate ==
    ASSUME TypeOK, UserInv, Recreate
    PROVE  UserInv'
<1>1. act' # 1
  BY LifecycleAssumption DEF Recreate, TypeOK, Activity
<1>2. UNCHANGED <<started, stopping, stopThread, restarts, policy, intents, running,
                  gRunning, gError, gModel, engine, loaded, deaths, wish, excused, early>>
  BY DEF Recreate, serviceVars, nativeVars, histVars
<1> QED
  BY <1>1, <1>2 DEF UserInv, OneInv, ShapeInv, Coming, Sending, Sent, Starting, Up, Ending

LEMMA StatusCheckerFate ==
    ASSUME TypeOK, UserInv, StatusChecker
    PROVE  UserInv'
<1> SUFFICES ASSUME ~excused'
             PROVE  OneInv' /\ ShapeInv' /\ (wish' = "off" => ~Coming') /\ Fate'
  BY Unexcused DEF UserInv, Fate
<1>1. /\ started' = [started EXCEPT ![act] = running] /\ ~running
      /\ early' = (early \/ Starting)
      /\ UNCHANGED <<act, stopping, stopThread, restarts, policy, intents, running,
                     nativeVars, deaths, wish, excused>>
  BY DEF StatusChecker, serviceVars
<1>2. OneInv /\ ShapeInv /\ Fate /\ (wish = "off" => ~Coming)
  BY <1>1, Unexcused
<1>3. \A i \in Activity : started'[i] => started[i]
  <2>1. \A i \in Activity : i # act => started'[i] = started[i]
    BY <1>1 DEF TypeOK
  <2>2. act \in Activity /\ started'[act] = running
    BY <1>1 DEF TypeOK
  <2> QED
    BY <1>1, <2>1, <2>2
<1>4. OneInv' /\ ShapeInv' /\ (Coming' <=> Coming)
  BY <1>1, <1>2, <1>3 DEF OneInv, ShapeInv, Coming, Sending, Sent
<1>5. Ending => Ending'
  BY <1>1, <1>3 DEF Ending, Sending, Sent, Starting
<1>6. Up => Up'
  <2> SUFFICES ASSUME Up PROVE Up'
    OBVIOUS
  <2>1. Starting
    BY <1>1 DEF Up
  <2>2. early' /\ Starting'
    BY <1>1, <2>1 DEF Starting
  <2> QED
    BY <1>1, <2>2 DEF Up, Sent, nativeVars
<1> QED
  BY <1>1, <1>2, <1>4, <1>5, <1>6 DEF Fate

\* A command that starts the engine, or finds that it runs.
LEMMA OnStartFate ==
    ASSUME TypeOK, EngineInv, UserInv, OnStart
    PROVE  UserInv'
<1> SUFFICES ASSUME ~excused'
             PROVE  OneInv' /\ ShapeInv' /\ (wish' = "off" => ~Coming') /\ Fate'
  BY Unexcused DEF UserInv, Fate
<1>1. /\ main = "idle" /\ intents # <<>> /\ Head(intents).cmd = "start"
      /\ intents' = Tail(intents) /\ running' = TRUE
      /\ UNCHANGED <<act, started, stopping, stopThread, restarts, policy, loaded,
                     deaths, wish, excused, early>>
  BY DEF OnStart, uiVars, histVars
<1>2. OneInv /\ ShapeInv /\ Fate /\ (wish = "off" => ~Coming)
  BY <1>1, Unexcused
<1>3. /\ Len(intents) \in Nat /\ Len(intents) > 0 /\ DOMAIN intents = 1..Len(intents)
      /\ 1 \in DOMAIN intents /\ Head(intents) = intents[1] /\ Head(intents) \in Command
      /\ Len(intents') = Len(intents) - 1
      /\ DOMAIN intents' = 1..(Len(intents) - 1)
      /\ \A k \in DOMAIN intents' :
            k + 1 \in DOMAIN intents /\ k + 1 # 1 /\ intents'[k] = intents[k + 1]
      /\ \A k \in DOMAIN intents : k # 1 =>
            k - 1 \in DOMAIN intents' /\ intents'[k - 1] = intents[k]
  BY <1>1, TailIntents
<1>4. OneInv' /\ (Coming' <=> Coming) /\ (Sending' <=> Sending)
  BY <1>1, <1>2 DEF OneInv, Coming, Sending
<1>5. Sent' <=> Sent
  <2>1. ASSUME NEW k \in DOMAIN intents, intents[k].cmd = "stop"
        PROVE  k - 1 \in DOMAIN intents' /\ intents'[k - 1].cmd = "stop"
    BY <1>1, <1>3, <2>1
  <2>2. Sent => Sent'
    BY <2>1 DEF Sent
  <2>3. Sent' => Sent
    BY <1>3 DEF Sent
  <2> QED
    BY <2>2, <2>3
<1>6. ShapeInv'
  <2>1. Sending' => \A k \in DOMAIN intents' : intents'[k].cmd = "start"
    BY <1>2, <1>3, <1>4 DEF ShapeInv
  <2>2. \A k \in DOMAIN intents' : intents'[k].cmd = "stop" => k = Len(intents')
    <3> SUFFICES ASSUME NEW k \in DOMAIN intents', intents'[k].cmd = "stop"
                 PROVE  k = Len(intents')
      OBVIOUS
    <3>1. k + 1 = Len(intents)
      BY <1>2, <1>3 DEF ShapeInv
    <3> QED
      BY <1>3, <3>1
  <2>3. \A k \in DOMAIN intents' : intents'[k].cmd # "destroy"
    BY <1>2, <1>3 DEF ShapeInv
  <2> QED
    BY <2>1, <2>2, <2>3 DEF ShapeInv
<1>7. ASSUME Ending PROVE Ending'
  <2>1. Starting
    BY <1>1, <1>3 DEF Starting
  <2>2. Sending' \/ Sent'
    BY <1>4, <1>5, <1>7, <2>1 DEF Ending
  <2> QED
    BY <1>1, <1>7, <2>2 DEF Ending
<1>8. ASSUME Up PROVE Up'
  <2>1. \A k \in DOMAIN intents' :
            intents'[k].cmd = "start" => intents'[k].model \in {policy', NoModel}
    BY <1>1, <1>3, <1>8 DEF Up
  <2>2. /\ gModel' = policy'
        /\ engine' = "serve" => loaded' = policy'
        /\ IF engine' = "ended" THEN gError' ELSE gRunning'
    <3>1. CASE running
      <4>1. UNCHANGED <<gRunning, gError, gModel, engine>>
        BY <3>1 DEF OnStart
      <4> QED
        BY <1>1, <1>8, <3>1, <4>1 DEF Up
    <3>2. CASE ~running
      <4>1. ~(gRunning \/ gStarting)
        BY <1>1, <3>2 DEF EngineInv
      <4>2. engine' = "boot" /\ gRunning'
        BY <3>2, <4>1 DEF OnStart, NativeStart
      <4>3. gModel' = IF Head(intents).model = NoModel THEN policy ELSE Head(intents).model
        BY <3>2, <4>1 DEF OnStart, NativeStart
      <4>4. Head(intents).model \in {policy, NoModel}
        BY <1>1, <1>3, <1>8 DEF Up
      <4> QED
        BY <1>1, <4>2, <4>3, <4>4
    <3> QED
      BY <3>1, <3>2
  <2> QED
    BY <1>1, <1>5, <1>8, <2>1, <2>2 DEF Up
<1> QED
  BY <1>1, <1>2, <1>4, <1>6, <1>7, <1>8 DEF Fate

\* The end of a stop or of a destroy.
LEMMA StopDoneFate ==
    ASSUME TypeOK, UserInv, intents # <<>>, Head(intents).cmd # "start",
           StopDone(Head(intents).cmd), Head(intents).cmd = "destroy" => ~running,
           UNCHANGED <<act, started, stopping, stopThread, restarts, policy, loaded,
                       deaths, wish, excused, early>>
    PROVE  UserInv'
<1> SUFFICES ASSUME ~excused'
             PROVE  OneInv' /\ ShapeInv' /\ (wish' = "off" => ~Coming') /\ Fate'
  BY Unexcused DEF UserInv, Fate
<1>1. ~running' /\ OneInv /\ ShapeInv /\ Fate /\ (wish = "off" => ~Coming)
  BY Unexcused DEF StopDone
<1>2. /\ Len(intents) \in Nat /\ Len(intents) > 0 /\ DOMAIN intents = 1..Len(intents)
      /\ 1 \in DOMAIN intents /\ Head(intents) = intents[1] /\ Head(intents) \in Command
      /\ Tail(intents) \in Seq(Command)
      /\ Len(Tail(intents)) = Len(intents) - 1
      /\ DOMAIN Tail(intents) = 1..(Len(intents) - 1)
      /\ \A k \in DOMAIN Tail(intents) :
            k + 1 \in DOMAIN intents /\ k + 1 # 1 /\ Tail(intents)[k] = intents[k + 1]
      /\ \A k \in DOMAIN intents : k # 1 =>
            k - 1 \in DOMAIN Tail(intents) /\ Tail(intents)[k - 1] = intents[k]
  BY TailIntents
<1>3. OneInv' /\ (Coming' <=> Coming) /\ (Sending' <=> Sending)
  BY <1>1 DEF OneInv, Coming, Sending
<1>4. ~Sending
  BY <1>1, <1>2 DEF ShapeInv
<1>5. CASE Head(intents).cmd = "stop"
  <2>1. Sent /\ 1 = Len(intents)
    BY <1>1, <1>2, <1>5 DEF ShapeInv, Sent
  <2>2. Tail(intents) = <<>>
    <3> DEFINE t == Tail(intents)
    <3>1. t \in Seq(Command) /\ Len(t) = Len(intents) - 1
      BY <1>2
    <3> HIDE DEF t
    <3>2. Len(t) = 0
      BY <2>1, <3>1
    <3>3. t = <<>>
      BY <3>1, <3>2
    <3> QED
      BY <3>3 DEF t
  <2>3. intents' = Append(<<>>, [cmd |-> "destroy"])
    <3>1. intents' = StopSelf(<<>>)
      BY <1>5, <2>2 DEF StopDone
    <3>2. DOMAIN <<>> = {}
      OBVIOUS
    <3> QED
      BY <3>1, <3>2 DEF StopSelf
  <2>4. DOMAIN intents' = {1} /\ intents'[1].cmd = "destroy"
    <3>1. /\ intents' = <<[cmd |-> "destroy"]>>
          /\ [cmd |-> "destroy"].cmd = "destroy"
      BY <2>3
    <3> QED
      BY <3>1
  <2>5. ~Sent' /\ ~Starting'
    BY <2>4 DEF Sent, Starting
  <2>6. ShapeInv'
    BY <1>1, <1>3, <1>4, <2>4, <2>5 DEF ShapeInv
  <2>7. Ending /\ ~(wish = "on" /\ ~Coming)
    BY <1>1, <2>1 DEF Fate, Up
  <2>8. Ending'
    BY <1>1, <2>5, <2>7 DEF Ending
  <2> QED
    BY <1>1, <1>3, <2>6, <2>7, <2>8 DEF Fate
<1>6. CASE Head(intents).cmd = "destroy"
  <2>1. intents' = Tail(intents) /\ ~running
    BY <1>6 DEF StopDone
  <2>2. ~Sent /\ \A k \in DOMAIN intents' : intents'[k].cmd \notin {"stop", "destroy"}
    BY <1>1, <1>2, <1>6, <2>1 DEF ShapeInv, Sent
  <2>3. ~Sent' /\ ShapeInv'
    BY <1>3, <1>4, <2>2 DEF ShapeInv, Sent
  <2>4. Starting' <=> Starting
    BY <1>2, <1>6, <2>1 DEF Starting
  <2>5. Ending => Ending'
    BY <1>1, <1>4, <2>2, <2>4 DEF Ending
  <2>6. Up => Up'
    BY <1>1, <1>2, <2>1, <2>3, <2>4 DEF Up
  <2> QED
    BY <1>1, <1>3, <2>3, <2>5, <2>6 DEF Fate
<1> QED
  BY <1>2, <1>5, <1>6, CommandFacts


LEMMA OnStopFate ==
    ASSUME TypeOK, EngineInv, UserInv, OnStop
    PROVE  UserInv'
<1>1. /\ main = "idle" /\ intents # <<>> /\ Head(intents).cmd # "start"
      /\ UNCHANGED <<act, started, stopping, stopThread, restarts, policy, gError, gModel,
                     engine, loaded, deaths, wish, excused, early>>
  BY DEF OnStop, uiVars, histVars
<1>2. CASE ~running
  <2>1. StopDone(Head(intents).cmd)
    BY <1>2 DEF OnStop
  <2> QED
    BY <1>1, <1>2, <2>1, StopDoneFate
<1>3. CASE running
  <2> SUFFICES ASSUME ~excused'
               PROVE  OneInv' /\ ShapeInv' /\ (wish' = "off" => ~Coming') /\ Fate'
    BY Unexcused DEF UserInv, Fate
  <2>1. UNCHANGED <<intents, running>>
    BY <1>3 DEF OnStop
  <2>2. OneInv /\ ShapeInv /\ Fate /\ (wish = "off" => ~Coming)
    BY <1>1, Unexcused
  <2>3. 1 \in DOMAIN intents /\ Head(intents) = intents[1] /\ Head(intents) \in Command
    BY <1>1, TailIntents
  <2>4. intents[1].cmd # "destroy"
    BY <1>3, <2>2, <2>3 DEF ShapeInv
  <2>5. Sent
    BY <1>1, <2>3, <2>4, CommandFacts DEF Sent
  <2>6. Ending /\ ~(wish = "on" /\ ~Coming)
    BY <2>2, <2>5 DEF Fate, Up
  <2> QED
    BY <1>1, <2>1, <2>2, <2>6
       DEF Fate, OneInv, ShapeInv, Ending, Coming, Sending, Sent, Starting
<1> QED
  BY <1>2, <1>3 DEF TypeOK

LEMMA JoinedFate ==
    ASSUME TypeOK, EngineInv, UserInv, Joined
    PROVE  UserInv'
<1>1. /\ main # "idle" /\ StopDone(main)
      /\ UNCHANGED <<act, started, stopping, stopThread, restarts, policy, loaded, deaths,
                     wish, excused, early>>
  BY DEF Joined, uiVars, histVars
<1>2. intents # <<>> /\ Head(intents).cmd = main /\ main # "start" /\ running
  BY <1>1 DEF EngineInv, TypeOK
<1>3. CASE excused'
  BY <1>3 DEF UserInv
<1>4. CASE ~excused'
  <2>1. ShapeInv /\ 1 \in DOMAIN intents /\ Head(intents) = intents[1]
    BY <1>1, <1>2, <1>4, Unexcused, TailIntents
  <2>2. main # "destroy"
    BY <1>2, <2>1 DEF ShapeInv
  <2> QED
    BY <1>1, <1>2, <2>2, StopDoneFate
<1> QED
  BY <1>3, <1>4

\* The engine thread: a model is loaded, an error kept, nothing else.
LEMMA EngineFate ==
    ASSUME TypeOK, EngineInv, UserInv, Boot \/ BootCache \/ InitFails \/ Serve \/ End
    PROVE  UserInv'
<1> SUFFICES ASSUME ~excused'
             PROVE  OneInv' /\ ShapeInv' /\ (wish' = "off" => ~Coming') /\ Fate'
  BY Unexcused DEF UserInv, Fate
<1>1. UNCHANGED <<act, started, stopping, stopThread, restarts, policy, intents, running,
                  gModel, deaths, wish, excused, early>>
  BY DEF Boot, BootCache, InitFails, Serve, End, uiVars, serviceVars, histVars
<1>2. OneInv /\ ShapeInv /\ Fate /\ (wish = "off" => ~Coming)
  BY <1>1, Unexcused
<1>3. OneInv' /\ ShapeInv' /\ (Coming' <=> Coming) /\ (Ending => Ending')
  BY <1>1, <1>2 DEF OneInv, ShapeInv, Ending, Coming, Sending, Sent, Starting
<1>4. ASSUME Up PROVE Up'
  <2>1. running =>
           /\ engine' = "serve" => loaded' = policy
           /\ IF engine' = "ended" THEN gError' ELSE gRunning'
    <3>1. CASE Boot
      BY <1>4, <3>1 DEF Boot, Up
    <3>5. CASE BootCache
      BY <1>4, <3>5 DEF BootCache, Up
    <3>2. CASE InitFails
      BY <3>2 DEF InitFails
    <3>3. CASE Serve
      BY <1>4, <3>3 DEF Serve, Up
    <3>4. CASE End
      BY <1>4, <3>4 DEF End, Up
    <3> QED
      BY <3>1, <3>2, <3>3, <3>4, <3>5
  <2> QED
    BY <1>1, <1>4, <2>1 DEF Up, Sent, Starting
<1> QED
  BY <1>1, <1>2, <1>3, <1>4 DEF Fate

\* The process dies: what runs or is to run is started again.
LEMMA DieFate ==
    ASSUME TypeOK, EngineInv, FlagInv, UserInv, Die
    PROVE  UserInv'
<1> SUFFICES ASSUME ~excused'
             PROVE  OneInv' /\ ShapeInv' /\ (wish' = "off" => ~Coming') /\ Fate'
  BY Unexcused DEF UserInv, Fate
<1>1. /\ ~excused /\ ~StopPending /\ ~running'
      /\ deaths' = deaths + 1 /\ restarts' = [i \in Activity |-> 0]
      /\ started' = NoFlags /\ stopping' = NoFlags /\ stopThread' = NoFlags
      /\ UNCHANGED <<act, policy, wish, early>>
  BY DEF Die
<1>2. OneInv /\ ShapeInv /\ Fate
  BY <1>1, Unexcused
<1>3. ~Coming /\ ~Sent /\ \A k \in DOMAIN intents : intents[k].cmd = "start"
  BY <1>1, Calm
<1>4. Undelivered = intents
  BY <1>3 DEF Undelivered
<1>5. \A i \in Activity : ~started'[i] /\ ~stopping'[i] /\ ~stopThread'[i] /\ restarts'[i] = 0
  BY <1>1 DEF NoFlags
<1>6. OneInv' /\ ~Coming' /\ ~Sending'
  BY <1>5 DEF OneInv, Coming, Sending
<1>7. deaths' # 0
  BY <1>1, LifecycleAssumption DEF TypeOK
<1>8. CASE wish = "off"
  <2>1. ~running /\ ~Starting
    BY <1>2, <1>3, <1>8, Calm, <1>1 DEF Fate, Ending
  <2>2. intents = <<>>
    BY <1>1, <1>2, <2>1, CalmAndOff
  <2>3. ~(alive /\ sticky)
    BY <2>1 DEF EngineInv
  <2>4. intents' = <<>>
    BY <1>4, <2>2, <2>3 DEF Die
  <2>5. DOMAIN intents' = {}
    BY <2>4
  <2>6. ShapeInv' /\ ~Starting'
    BY <2>5 DEF ShapeInv, Starting
  <2>7. Ending'
    BY <1>1, <1>5, <2>6 DEF Ending
  <2> QED
    BY <1>1, <1>6, <1>8, <2>6, <2>7 DEF Fate
<1>9. CASE wish = "on"
  <2>1. Up
    BY <1>2, <1>3, <1>9 DEF Fate
  <2>2. /\ Starting'
        /\ \A k \in DOMAIN intents' :
              intents'[k].cmd = "start" /\ intents'[k].model \in {policy, NoModel}
    <3>1. CASE intents # <<>>
      <4>1. intents' = intents
        BY <1>4, <3>1 DEF Die
      <4>2. 1 \in DOMAIN intents
        BY <3>1, TailIntents
      <4> QED
        BY <1>3, <2>1, <4>1, <4>2 DEF Starting, Up
    <3>2. CASE intents = <<>>
      <4>1. DOMAIN intents = {}
        BY <3>2
      <4>2. running
        BY <2>1, <4>1 DEF Up, Starting
      <4>3. alive /\ sticky
        BY <4>2 DEF EngineInv
      <4> DEFINE c == [cmd |-> "start", model |-> NoModel]
      <4>4. c.cmd = "start" /\ c.model = NoModel
        BY CommandFacts
      <4>5. intents' = <<c>>
        BY <1>4, <3>2, <4>3 DEF Die
      <4> HIDE DEF c
      <4>6. DOMAIN intents' = {1} /\ intents'[1] = c
        BY <4>5
      <4> QED
        BY <4>4, <4>6 DEF Starting
    <3> QED
      BY <3>1, <3>2
  <2>3. ~Sent'
    BY <2>2 DEF Sent
  <2>4. ShapeInv'
    BY <1>6, <2>2 DEF ShapeInv
  <2>5. Up'
    BY <1>1, <1>5, <1>7, <2>2, <2>3 DEF Up
  <2> QED
    BY <1>1, <1>6, <1>9, <2>4, <2>5 DEF Fate
<1> QED
  BY <1>8, <1>9 DEF TypeOK

\* "Server stopped": the activity forgets its stop.
LEMMA StopReportedFate ==
    ASSUME TypeOK, FlagInv, UserInv, NEW i \in Activity, StopReported(i)
    PROVE  UserInv'
<1> SUFFICES ASSUME ~excused'
             PROVE  OneInv' /\ ShapeInv' /\ (wish' = "off" => ~Coming') /\ Fate'
  BY Unexcused DEF UserInv, Fate
<1>1. /\ posted[i]
      /\ started' = [started EXCEPT ![i] = FALSE]
      /\ stopping' = [stopping EXCEPT ![i] = FALSE]
      /\ UNCHANGED <<act, stopThread, restarts, policy, intents, running, wish, excused>>
  BY DEF StopReported, serviceVars, histVars
<1>2. OneInv /\ ShapeInv /\ Fate /\ (wish = "off" => ~Coming)
  BY <1>1, Unexcused
<1>3. \A j \in Activity :
          /\ started'[j] => started[j] /\ j # i
          /\ stopping'[j] => stopping[j]
          /\ j # i => (stopping'[j] <=> stopping[j])
  BY <1>1 DEF TypeOK
<1>4. stopping[i]
  BY <1>1 DEF FlagInv
<1>5. Ending /\ ~(wish = "on" /\ ~Coming)
  BY <1>2, <1>4 DEF Fate, Up
<1>6. OneInv' /\ ShapeInv' /\ (Coming' <=> Coming)
  BY <1>1, <1>2, <1>3 DEF OneInv, ShapeInv, Coming, Sending, Sent
<1>7. Ending'
  BY <1>1, <1>3, <1>5 DEF Ending, Sending, Sent, Starting
<1> QED
  BY <1>1, <1>2, <1>5, <1>6, <1>7 DEF Fate

\* The restart that follows the change of the policy.
LEMMA RestartFate ==
    ASSUME TypeOK, EngineInv, FlagInv, UserInv, NEW i \in Activity, Restart(i)
    PROVE  UserInv'
<1> SUFFICES ASSUME ~excused'
             PROVE  OneInv' /\ ShapeInv' /\ (wish' = "off" => ~Coming') /\ Fate'
  BY Unexcused DEF UserInv, Fate
<1>1. /\ restarts[i] > 0 /\ ~stopThread[i] /\ ~posted[i]
      /\ \A k \in DOMAIN intents : intents[k].cmd # "stop"
      /\ restarts' = [restarts EXCEPT ![i] = @ - 1]
      /\ UNCHANGED <<act, stopping, stopThread, policy, running, deaths, wish, excused, early>>
  BY DEF Restart, histVars
<1>2. OneInv /\ ShapeInv /\ Fate /\ (wish = "off" => ~Coming)
  BY <1>1, Unexcused
<1>3. Coming /\ wish = "on" /\ Ending
  BY <1>1, <1>2 DEF Coming, Fate, TypeOK
<1>4. \A j \in Activity : ~stopping[j]
  BY <1>1, <1>2 DEF OneInv, FlagInv
<1>5. ~Sending /\ ~Sent /\ ~running /\ ~Starting /\ \A j \in Activity : ~started[j]
  <2>1. ~Sending
    BY <1>4 DEF Sending, FlagInv
  <2>2. ~Sent
    BY <1>1 DEF Sent
  <2> QED
    BY <1>3, <1>4, <2>1, <2>2 DEF Ending
<1>6. /\ intents' = Append(intents, [cmd |-> "start", model |-> policy])
      /\ started' = [started EXCEPT ![i] = TRUE]
  BY <1>4, <1>5 DEF Restart, StartServer
<1>7. \A j \in Activity : restarts'[j] = 0
  <2>1. \A j \in Activity : restarts[j] \in Nat
    BY LifecycleAssumption DEF TypeOK
  <2>2. \A j \in Activity : restarts[j] = IF j = i THEN 1 ELSE 0
    BY <1>1, <1>2, <2>1 DEF OneInv
  <2>3. \A j \in Activity : restarts'[j] = IF j = i THEN restarts[j] - 1 ELSE restarts[j]
    BY <1>1 DEF TypeOK
  <2> QED
    BY <2>2, <2>3
<1>8. \A j \in Activity : started'[j] <=> j = i
  BY <1>5, <1>6 DEF TypeOK
<1>9. /\ Starting' /\ ~Sent'
      /\ \A k \in DOMAIN intents' :
            \/ k \in DOMAIN intents /\ intents'[k] = intents[k]
            \/ intents'[k].cmd = "start" /\ intents'[k].model = policy
  <2>1. policy \in Models \cup {NoModel}
    BY DEF TypeOK
  <2> QED
    BY <1>5, <1>6, <2>1, StartSent
<1>10. OneInv' /\ ~Coming' /\ ~Sending'
  BY <1>1, <1>4, <1>5, <1>7, <1>8 DEF OneInv, Coming, Sending
<1>11. ShapeInv'
  <2>1. \A k \in DOMAIN intents' : intents'[k].cmd # "stop"
    BY <1>1, <1>9
  <2>2. \A k \in DOMAIN intents' : intents'[k].cmd = "destroy" => k = 1
    BY <1>2, <1>9 DEF ShapeInv
  <2> QED
    BY <1>1, <1>5, <1>9, <1>10, <2>1, <2>2 DEF ShapeInv
<1>12. Up'
  <2>1. \A k \in DOMAIN intents' :
            intents'[k].cmd = "start" => intents'[k].model \in {policy', NoModel}
    BY <1>1, <1>5, <1>9 DEF Starting
  <2>2. act = 1 => i = 1
    BY <1>1, LifecycleAssumption DEF FlagInv, Activity
  <2>3. act' = 1 => started'[1]
    BY <1>1, <1>8, <2>2
  <2> QED
    BY <1>1, <1>4, <1>5, <1>9, <2>1, <2>3 DEF Up
<1> QED
  BY <1>1, <1>3, <1>10, <1>11, <1>12 DEF Fate

\* The stop is sent.
LEMMA StopThreadFate ==
    ASSUME TypeOK, FlagInv, UserInv, NEW i \in Activity, StopThread(i)
    PROVE  UserInv'
<1> SUFFICES ASSUME ~excused'
             PROVE  OneInv' /\ ShapeInv' /\ (wish' = "off" => ~Coming') /\ Fate'
  BY Unexcused DEF UserInv, Fate
<1>1. /\ stopThread[i] /\ stopThread' = [stopThread EXCEPT ![i] = FALSE]
      /\ intents' = Append(intents, [cmd |-> "stop"])
      /\ UNCHANGED <<act, started, stopping, restarts, policy, running, wish, excused>>
  BY DEF StopThread, histVars
<1>2. OneInv /\ ShapeInv /\ Fate /\ (wish = "off" => ~Coming)
  BY <1>1, Unexcused
<1>3. Sending /\ stopping[i]
  BY <1>1 DEF Sending, FlagInv
<1>4. Ending /\ ~(wish = "on" /\ ~Coming)
  BY <1>2, <1>3 DEF Fate, Up
<1>5. ~Sending'
  <2>1. \A j \in Activity : stopThread[j] => j = i
    BY <1>2, <1>3 DEF OneInv, FlagInv
  <2>2. \A j \in Activity : ~stopThread'[j]
    BY <1>1, <2>1 DEF TypeOK
  <2> QED
    BY <2>2 DEF Sending
<1> DEFINE c == [cmd |-> "stop"]
<1>6. c \in Command /\ c.cmd = "stop" /\ intents' = Append(intents, c)
  BY <1>1, CommandFacts
<1> HIDE DEF c
<1>7. /\ Len(intents') = Len(intents) + 1 /\ Len(intents) \in Nat
      /\ DOMAIN intents' = 1..(Len(intents) + 1)
      /\ intents'[Len(intents) + 1] = c
      /\ \A k \in DOMAIN intents' :
            \/ k \in DOMAIN intents /\ intents'[k] = intents[k]
            \/ k = Len(intents) + 1 /\ intents'[k] = c
  BY <1>6, AppendIntent
<1>8. Sent'
  BY <1>6, <1>7 DEF Sent
<1>9. OneInv' /\ (Coming' <=> Coming)
  BY <1>1, <1>2 DEF OneInv, Coming
<1>10. ShapeInv'
  <2>1. \A k \in DOMAIN intents : intents[k].cmd = "start"
    BY <1>2, <1>3 DEF ShapeInv
  <2>2. \A k \in DOMAIN intents' : intents'[k].cmd = "start" \/ (k = Len(intents') /\ intents'[k].cmd = "stop")
    BY <1>6, <1>7, <2>1
  <2> QED
    BY <1>5, <2>2 DEF ShapeInv
<1>11. Ending'
  BY <1>1, <1>4, <1>8 DEF Ending
<1> QED
  BY <1>1, <1>2, <1>4, <1>9, <1>10, <1>11 DEF Fate

\* Whoever waits for what he asked for gets it.
LEMMA NextUser ==
    ASSUME TypeOK, EngineInv, FlagInv, UserInv, [Next]_vars
    PROVE  UserInv'
<1> USE DEF fateVars, vars, cacheVars, uiVars, serviceVars, nativeVars, histVars
<1>1. CASE Settled
  BY <1>1, FateFrame DEF Settled, vars
<1>2. CASE UserStart
  BY <1>2, UserStartFate
<1>3. CASE UserStop
  BY <1>3, UserStopFate
<1>4. ASSUME NEW p \in Models, UserPolicy(p) PROVE UserInv'
  BY <1>4, UserPolicyFate
<1>5. CASE Recreate
  BY <1>5, RecreateFate
<1>6. CASE StatusChecker
  BY <1>6, StatusCheckerFate
<1>7. CASE OnStart
  BY <1>7, OnStartFate
<1>8. CASE OnStop
  BY <1>8, OnStopFate
<1>9. CASE Joined
  BY <1>9, JoinedFate
<1>10. CASE Boot
  BY <1>10, EngineFate
<1>11. CASE BootCache
  BY <1>11, EngineFate
<1>12. CASE InitFails
  BY <1>12, EngineFate
<1>13. CASE Serve
  BY <1>13, EngineFate
<1>14. CASE End
  BY <1>14, EngineFate
<1>15. ASSUME NEW a \in Audio, LookUp(a, loaded, bootFlag), engine = "serve", Rest
     PROVE UserInv'
  BY <1>15, FateFrame DEF LookUp, Rest
<1>16. ASSUME NothingRecognized, Rest PROVE UserInv'
  BY <1>16, FateFrame DEF NothingRecognized, Rest
<1>17. ASSUME Record(loaded, bootFlag), Rest PROVE UserInv'
  BY <1>17, FateFrame DEF Record, Rest
<1>18. ASSUME NEW on \in BOOLEAN, SwitchFlag(on), Rest PROVE UserInv'
  BY <1>18, FateFrame DEF SwitchFlag, Rest
<1>19. ASSUME SwitchCache, Rest PROVE UserInv'
  BY <1>19, FateFrame DEF SwitchCache, SetEnabled, Rest
<1>20. CASE Die
  BY <1>20, DieFate
<1>21. ASSUME NEW i \in Activity, StopReported(i) PROVE UserInv'
  BY <1>21, StopReportedFate
<1>22. ASSUME NEW i \in Activity, Restart(i) PROVE UserInv'
  BY <1>22, RestartFate
<1>23. ASSUME NEW i \in Activity, StopThread(i) PROVE UserInv'
  BY <1>23, StopThreadFate
<1>24. CASE UNCHANGED vars
  BY <1>24, FateFrame DEF vars
<1> QED
  BY <1>1, <1>2, <1>3, <1>4, <1>5, <1>6, <1>7, <1>8, <1>9, <1>10, <1>11, <1>12, <1>13, <1>14, <1>15, <1>16, <1>17, <1>18, <1>19, <1>20, <1>21, <1>22, <1>23, <1>24
     DEF Next, Ui, Service, Engine, Worker, Switch, Posted, Rest, histVars

-----------------------------------------------------------------------------
LEMMA InitLifecycle == Init => LifecycleInv
<1> SUFFICES ASSUME Init PROVE LifecycleInv
  OBVIOUS
<1> USE CacheAssumption, LifecycleAssumption DEF Init, CacheInit, ProcessInit
<1>1. CacheTypeOK
  <2>1. cache \in [Audio -> Models \cup {NoModel}]
    BY DEF EmptyCache
  <2>2. requests \in 0..MaxRequests /\ switches \in 0..MaxSwitches
    OBVIOUS
  <2> QED
    BY <2>1, <2>2 DEF CacheTypeOK
<1>2. intents \in Seq(Command) /\ DOMAIN intents = {}
  OBVIOUS
<1>3. TypeOK
  <2>1. UiTypeOK
    BY DEF UiTypeOK, NoFlags, Activity
  <2>2. ServiceTypeOK /\ NativeTypeOK
    BY DEF ServiceTypeOK, NativeTypeOK
  <2>3. HistTypeOK
    <3>1. ops = 0 /\ deaths = 0 /\ 0 \in 0..MaxUserOps /\ 0 \in 0..MaxDeaths
      OBVIOUS
    <3> QED
      BY <3>1 DEF HistTypeOK
  <2> QED
    BY <1>1, <1>2, <2>1, <2>2, <2>3
       DEF TypeOK, UiTypeOK, ServiceTypeOK, NativeTypeOK, HistTypeOK
<1>4. CacheInv
  <2>1. Cached = {}
    BY DEF Cached, EmptyCache
  <2>2. IsFiniteSet({}) /\ Cardinality({}) = 0
    BY FS_EmptySet
  <2> QED
    BY <2>1, <2>2 DEF CacheInv, CacheSound
<1>5. EngineInv
  BY DEF EngineInv
<1>6. FlagInv
  BY DEF FlagInv, NoFlags
<1>7. UserInv
  <2>1. OneInv /\ ~Coming /\ ~Sending
    BY DEF OneInv, Coming, Sending, NoFlags
  <2>2. ShapeInv /\ ~Starting
    BY <1>2, <2>1 DEF ShapeInv, Starting
  <2>3. Ending
    BY <2>2 DEF Ending, NoFlags
  <2> QED
    BY <2>1, <2>2, <2>3 DEF UserInv
<1> QED
  BY <1>3, <1>4, <1>5, <1>6, <1>7 DEF LifecycleInv

\* The engine's life stays in the states described by LifecycleInv.
THEOREM LifecycleInvariance == Spec => []LifecycleInv
<1>1. LifecycleInv /\ [Next]_vars => LifecycleInv'
  BY NextType, NextCache, NextEngine, NextFlags, NextUser DEF LifecycleInv
<1> QED
  BY <1>1, InitLifecycle, PTL DEF Spec

\* Every variable keeps its type; in particular only commands are on their
\* way to the service, and an engine that serves has a model.
THEOREM LifecycleTypeCorrect == Spec => []TypeOK
<1>1. LifecycleInv => TypeOK
  BY DEF LifecycleInv
<1> QED
  BY <1>1, LifecycleInvariance, PTL

\* Between its commands the service runs exactly while the engine thread
\* exists, and keeps the phone awake as long
\* (SttForegroundService.java:102-117, 177-188).
THEOREM EngineHasItsService == Spec => []ServiceOwnsEngine
<1>1. LifecycleInv => ServiceOwnsEngine
  BY DEF LifecycleInv, EngineInv, ServiceOwnsEngine
<1> QED
  BY <1>1, LifecycleInvariance, PTL

\* When everything has settled, the user has what he asked for last, however
\* starts, stops, changes of the policy, new activities and deaths of the
\* process came in between: unless he asked while an earlier stop was under
\* way (MainActivity.java, SttForegroundService.java, jni_bridge.cpp).
THEOREM EngineDoesAsAsked == Spec => []EngineObeysUser
<1>1. LifecycleInv => EngineObeysUser
  <2> SUFFICES ASSUME LifecycleInv, Quiet, ~excused
               PROVE  IF wish = "off" THEN engine = "none"
                      ELSE \/ engine = "serve" /\ loaded = policy
                           \/ engine = "ended" /\ gError
    BY DEF EngineObeysUser
  <2>1. TypeOK /\ FlagInv /\ EngineInv /\ Fate /\ ~StopPending /\ main = "idle"
        /\ intents = <<>> /\ engine \in {"none", "serve", "ended"}
    BY Unexcused DEF LifecycleInv, Quiet
  <2>2. ~Coming /\ ~Sending /\ ~Sent
    BY <2>1, Calm
  <2>3. DOMAIN intents = {}
    BY <2>1
  <2>4. ~Starting
    BY <2>3 DEF Starting
  <2>5. CASE wish = "off"
    <3>1. ~running
      BY <2>1, <2>2, <2>4, <2>5 DEF Fate, Ending
    <3> QED
      BY <2>1, <2>5, <3>1 DEF EngineInv
  <2>6. CASE wish = "on"
    <3>1. Up /\ running
      BY <2>1, <2>2, <2>4, <2>6 DEF Fate, Up
    <3>2. engine # "none"
      BY <2>1, <3>1 DEF EngineInv
    <3> QED
      BY <2>1, <2>6, <3>1, <3>2 DEF Up
  <2> QED
    BY <2>1, <2>5, <2>6 DEF TypeOK
<1> QED
  BY <1>1, LifecycleInvariance, PTL

\* The page says stopped exactly when there is no engine, as long as one
\* activity shows it, the process lives and the checker was not early
\* (MainActivity.java, getStatusSafe).
THEOREM PageIsTruthful == Spec => []PageTellsTruth
<1>1. LifecycleInv => PageTellsTruth
  <2> SUFFICES ASSUME LifecycleInv, Quiet, ~excused, ~early, act = 1, deaths = 0
               PROVE  Shown = "stopped" <=> engine = "none"
    BY DEF PageTellsTruth
  <2>1. TypeOK /\ FlagInv /\ EngineInv /\ Fate /\ ~StopPending /\ main = "idle"
        /\ intents = <<>> /\ engine \in {"none", "serve", "ended"}
    BY Unexcused DEF LifecycleInv, Quiet
  <2>2. ~Coming /\ \A i \in Activity : ~stopping[i]
    BY <2>1, Calm
  <2>3. DOMAIN intents = {}
    BY <2>1
  <2>4. ~Starting
    BY <2>3 DEF Starting
  <2>5. 1 \in Activity
    BY LifecycleAssumption DEF Activity
  <2>6. CASE engine = "none"
    <3>1. ~running
      BY <2>1, <2>6 DEF EngineInv
    <3>2. ~started[1]
      BY <2>1, <2>4, <2>5, <3>1, CalmAndOff
    <3> QED
      BY <2>2, <2>5, <2>6, <3>2 DEF Shown
  <2>7. CASE engine # "none"
    <3>1. running
      BY <2>1, <2>7 DEF EngineInv
    <3>2. Up
      <4>1. ~Ending
        BY <2>1, <2>4, <3>1, Calm DEF Ending
      <4> QED
        BY <2>1, <4>1 DEF Fate
    <3>3. started[1] /\ (engine = "serve" \/ gError)
      BY <2>1, <2>7, <3>1, <3>2 DEF Up
    <3>4. NativeStatus # "stopped"
      <4>1. gReady \/ gError
        BY <2>1, <3>3 DEF EngineInv
      <4> QED
        BY <4>1 DEF NativeStatus
    <3> QED
      BY <2>2, <2>5, <2>7, <3>3, <3>4 DEF Shown
  <2> QED
    BY <2>6, <2>7
<1> QED
  BY <1>1, LifecycleInvariance, PTL

\* An answer of a model that is not loaded comes only from a cache that was
\* kept on purpose: the worker is joined before its engine ends
\* (jni_bridge.cpp:53-62, 191).
THEOREM AnswersAreOwnOrKept == Spec => []StaleAnswerNeedsKeptCache
<1>1. LifecycleInv => StaleAnswerNeedsKeptCache
  BY DEF LifecycleInv, CacheInv, StaleAnswerNeedsKeptCache
<1> QED
  BY <1>1, LifecycleInvariance, PTL

\* A cache that is off is empty, and no cache outgrows kMaxCacheEntries
\* (runtime_state.cpp:45-69), whatever the number of audios.
THEOREM CacheStaysSound == Spec => []CacheSound
<1>1. LifecycleInv => CacheSound
  BY DEF LifecycleInv, CacheInv
<1> QED
  BY <1>1, LifecycleInvariance, PTL

=============================================================================
