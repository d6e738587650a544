------------------------------- MODULE QnnSession -------------------------------
(***************************************************************************)
(* How the backends that drive the NPU come by their handles and give them *)
(* back: init and release of Qwen3QnnBackend ("qwen3"),                    *)
(* FireRedQnnModelLibBackend ("library") and FireRedCtcQnnBackend          *)
(* ("session"), and SttEngine, which deletes a backend whose init failed   *)
(* and takes the next one.                                                 *)
(*                                                                         *)
(* A session's init is a sequence of steps; some make a resource, each may *)
(* fail, some may be left out.  The QNN and ORT libraries are external:    *)
(* what they answer is up to them.                                         *)
(***************************************************************************)
EXTENDS Integers, Sequences, SequencesExt

VARIABLE session   \* [phase, at: the next step of init, held: the handles that
                   \* are set, canFree: the model library can free its graphs]

SessionOf(phase, at, held, canFree) ==
    [phase |-> phase, at |-> at, held |-> held, canFree |-> canFree]

NpuSteps == <<"interface", "system", "log", "backend", "device", "context",
              "modelLib", "composeFn", "freeFn", "graphs", "finalize">>

(* init, in its order. *)
Steps == [qwen3   |-> <<"env", "models", "htp">> \o NpuSteps,
          library |-> <<"tokens", "htp">> \o NpuSteps,
          session |-> <<"tokens", "env", "models">>]

Resources == {"env", "models", "htp", "system", "log", "backend", "device",
              "context", "modelLib", "graphs"}

(* Steps whose failure is accepted.  A device may be unsupported, or not be *)
(* asked for; that it fails otherwise is an error.                          *)
Optional == {"system", "log", "device", "freeFn"}
MayFail(step) == step \notin {"system", "log", "freeFn"}

(* Failures return without a release, which is then left to the destructor, *)
(* or after one; an exception that nobody catches, of "session" while it    *)
(* sets up the NPU, ends the process.                                       *)
FailedAt(kind, step) ==
    IF step \in {"tokens", "htp"} \/ (kind = "session" /\ step = "models") THEN "failed"
    ELSE IF kind = "session" THEN "terminated" ELSE "releasing"

(* release, in its order. *)
Qwen3Release == <<"models", "env", "context", "device", "backend", "log", "graphs",
                  "modelLib", "system", "htp">>

(* Mutant: the library is closed before it has freed its graphs. *)
LibraryClosedFirst == <<"modelLib", "graphs", "context", "device", "backend", "log",
                        "system", "htp">>

LibraryRelease == <<"graphs", "modelLib", "context", "device", "backend", "log",
                    "system", "htp">>

ReleaseOrder == [qwen3 |-> Qwen3Release, library |-> LibraryRelease,
                 session |-> <<"models", "env">>]

-----------------------------------------------------------------------------
Kinds == DOMAIN Steps
NewSession(kind) == SessionOf(IF kind \in Kinds THEN "opening" ELSE "open", 1, {}, FALSE)

Done(kind) == session.at > Len(Steps[kind])
ThisStep(kind) == Steps[kind][session.at]

(* A step of init succeeds, or what it was for is done without. *)
Acquire(kind) ==
    /\ session.phase = "opening" /\ ~Done(kind)
    /\ \/ session' = SessionOf("opening", session.at + 1,
                          session.held \cup ({ThisStep(kind)} \cap Resources),
                          session.canFree \/ ThisStep(kind) = "freeFn")
       \/ /\ ThisStep(kind) \in Optional
          /\ session' = [session EXCEPT !.at = @ + 1]

(* A step fails.  Graphs that could not all be composed may be left. *)
Fail(kind) ==
    /\ session.phase = "opening" /\ ~Done(kind) /\ MayFail(ThisStep(kind))
    /\ \E left \in SUBSET ({ThisStep(kind)} \cap {"graphs"}) :
         session' = [session EXCEPT
            !.phase = FailedAt(kind, ThisStep(kind)),
            !.held = @ \cup left]

Opened(kind) ==
    /\ session.phase = "opening" /\ Done(kind)
    /\ session' = [session EXCEPT !.phase = "open"]

(* SttEngine deletes a backend that failed, and those it has in the end. *)
Discard == session.phase = "failed" /\ session' = [session EXCEPT !.phase = "discarding"]
Close == session.phase = "open" /\ session' = [session EXCEPT !.phase = "closing"]

(* One statement of release: a handle that is set is freed and cleared. *)
After == [releasing |-> "failed", discarding |-> "discarded", closing |-> "closed"]
Lost == IF session.canFree THEN {} ELSE {"graphs"}
ToFree(kind) ==
    {i \in DOMAIN ReleaseOrder[kind] : ReleaseOrder[kind][i] \in session.held \ Lost}

Release(kind) ==
    /\ session.phase \in DOMAIN After
    /\ \/ /\ ToFree(kind) = {}
          /\ session' = [session EXCEPT !.phase = After[@]]
       \/ \E i \in ToFree(kind) :
             /\ \A j \in ToFree(kind) : i <= j
             /\ session' = [session EXCEPT !.held = @ \ {ReleaseOrder[kind][i]}]

SessionNext(kind) ==
    Acquire(kind) \/ Fail(kind) \/ Opened(kind) \/ Discard \/ Close \/ Release(kind)

-----------------------------------------------------------------------------
(* What a handle was made from. *)
Needs == [env |-> {}, models |-> {"env"}, htp |-> {}, system |-> {}, log |-> {"htp"},
          backend |-> {"htp", "log"}, device |-> {"htp", "log"},
          context |-> {"htp", "backend", "device"}, modelLib |-> {},
          graphs |-> {"modelLib"}]

(* Whichever step fails, nothing is freed before what was made from it, the *)
(* library's code included, and a backend that is given up leaves nothing   *)
(* to the one that is tried next; except graphs whose library has no        *)
(* function to free them, which are lost.                                   *)
HandlesSound ==
    [][/\ \A r \in session'.held \ Lost : Needs[r] \cap (session.held \ session'.held) = {}
       /\ session'.phase \in {"discarded", "closed"} => session'.held \subseteq Lost]_session

=============================================================================
