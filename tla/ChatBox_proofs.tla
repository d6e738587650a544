----------------------------- MODULE ChatBox_proofs -----------------------------
(***************************************************************************)
(* Proofs about the ChatBox side: the queue, and the four threads that     *)
(* share it and the OSC sender, for all texts, intervals, limits and       *)
(* delays, and however often the user clears and pauses.                   *)
(*                                                                         *)
(* A step of the threads is a step of the queue or leaves it alone         *)
(* (NextIsQueueStep), so what is shown of a queue alone, for whatever      *)
(* texts its callers give it, holds of the one the threads share.  On top  *)
(* of it the invariant says where an owed text is, what is displayed, and  *)
(* who is inside the queue when it is deleted.                             *)
(***************************************************************************)
EXTENDS ChatBox, SequenceFacts, TLAPS

-----------------------------------------------------------------------------
(* The queue *)

\* The mutex has one holder: an enqueue and a tick are never both under way.
OneHolder == batch = <<>> \/ call = NoCall

\* The inductive invariant.  SendsTheFront is what makes SentText move the
\* text it sent, and needs OneHolder: an enqueue in the middle of a tick could
\* put a text behind a blank that is being sent.
QueueInv ==
    /\ QueueTypeOK
    /\ OneHolder
    /\ SendsTheFront
    /\ NoDuplicates

\* A step of the queue whatever texts its callers give it: QueueNext with
\* every sequence of texts for Batches.
QueueStep ==
    \/ \E texts \in Seq(Text \cup {Blank}) : Enqueue(texts)
    \/ EnqueueOne
    \/ Clear
    \/ \E p \in BOOLEAN : SetPaused(p)
    \/ TickStart
    \/ \E ok \in BOOLEAN : TickEnd(ok)
    \/ Elapse

LEMMA QueueNextIsStep == QueueNext => QueueStep
BY QueueAssumption DEF QueueNext, QueueStep

\* What remember(text) makes of m_recent.
LEMMA RememberFacts ==
    ASSUME NEW S, NEW s \in Seq(S), NEW t \in S,
           IsInjective(s), t \notin Range(s),
           NEW r, r = Append(s, t) \/ r = Tail(Append(s, t))
    PROVE  /\ r \in Seq(S)
           /\ IsInjective(r)
           /\ Range(r) \subseteq Range(s) \cup {t}
<1>1. /\ Append(s, t) \in Seq(S)
      /\ IsInjective(Append(s, t))
      /\ Range(Append(s, t)) = Range(s) \cup {t}
  BY AppendFacts
<1>2. Append(s, t) # <<>>
  OBVIOUS
<1>3. CASE r = Append(s, t)
  BY <1>1, <1>3
<1>4. CASE r = Tail(Append(s, t))
  BY <1>1, <1>2, <1>4, TailFacts
<1> QED
  BY <1>3, <1>4

-----------------------------------------------------------------------------
LEMMA QueueInvInit == QueueInit => QueueInv
<1> SUFFICES ASSUME QueueInit PROVE QueueInv
  OBVIOUS
<1> USE QueueAssumption DEF QueueInit
<1>1. QueueTypeOK
  <2>1. Interval \in 0..Interval /\ 0 \in 0..AgeLimit
    BY DEF AgeLimit
  <2>2. <<>> \in Seq(Text) /\ <<>> \in Seq(Text \cup {Blank})
    OBVIOUS
  <2> QED
    BY <2>1, <2>2 DEF QueueTypeOK
<1>2. OneHolder /\ SendsTheFront
  BY DEF OneHolder, SendsTheFront
<1>3. NoDuplicates
  BY DEF NoDuplicates, IsInjective, Range
<1> QED
  BY <1>1, <1>2, <1>3 DEF QueueInv

\* A successful tick keeps the queue free of duplicates: the text it moves
\* is in neither the rest of the queue nor the memory.
LEMMA SentTextInv ==
    ASSUME QueueInv, call \in Text, SentText
    PROVE  /\ pending' \in Seq(Text) /\ recent' \in Seq(Text)
           /\ NoDuplicates'
<1> USE QueueAssumption
<1>1. /\ pending \in Seq(Text) /\ recent \in Seq(Text)
      /\ pending # <<>> /\ call = Head(pending)
      /\ IsInjective(pending) /\ IsInjective(recent)
      /\ Range(pending) \cap Range(recent) = {}
  BY DEF QueueInv, QueueTypeOK, SendsTheFront, NoDuplicates
<1>2. /\ Tail(pending) \in Seq(Text)
      /\ call \in Range(pending)
      /\ Range(Tail(pending)) \subseteq Range(pending)
      /\ IsInjective(Tail(pending))
      /\ call \notin Range(Tail(pending))
  BY <1>1, TailFacts
<1>3. pending' = Tail(pending)
  BY DEF SentText
<1>4. recent' = Append(recent, call) \/ recent' = Tail(Append(recent, call))
  BY DEF SentText, Remember
<1>5. call \notin Range(recent)
  BY <1>1, <1>2
<1>6. /\ recent' \in Seq(Text)
      /\ IsInjective(recent')
      /\ Range(recent') \subseteq Range(recent) \cup {call}
  BY <1>1, <1>4, <1>5, RememberFacts
<1>7. Range(pending') \cap Range(recent') = {}
  BY <1>1, <1>2, <1>3, <1>6
<1> QED
  BY <1>2, <1>3, <1>6, <1>7 DEF NoDuplicates

LEMMA QueueInvStep == QueueInv /\ [QueueStep]_qvars => QueueInv'
<1> SUFFICES ASSUME QueueInv, [QueueStep]_qvars PROVE QueueInv'
  OBVIOUS
<1> USE QueueAssumption
<1>0. /\ QueueTypeOK /\ OneHolder /\ SendsTheFront /\ NoDuplicates
      /\ AgeLimit \in Nat /\ Interval <= AgeLimit /\ ClearDelay <= AgeLimit
  BY DEF QueueInv, AgeLimit
<1>1. ASSUME NEW texts \in Seq(Text \cup {Blank}), Enqueue(texts)
      PROVE  QueueInv'
  <2>2. QueueTypeOK'
    BY <1>0, <1>1 DEF QueueTypeOK, Enqueue
  <2>3. OneHolder' /\ SendsTheFront' /\ NoDuplicates'
    BY <1>0, <1>1 DEF OneHolder, SendsTheFront, NoDuplicates, Enqueue, Free
  <2> QED
    BY <2>2, <2>3 DEF QueueInv
<1>2. ASSUME EnqueueOne
      PROVE  QueueInv'
  <2>1. /\ batch \in Seq(Text \cup {Blank}) /\ batch # <<>>
        /\ pending \in Seq(Text) /\ call = NoCall
    BY <1>0, <1>2 DEF QueueTypeOK, EnqueueOne, OneHolder
  <2>2. Tail(batch) \in Seq(Text \cup {Blank}) /\ Head(batch) \in Text \cup {Blank}
    BY <2>1, TailFacts
  <2>3. OneHolder' /\ SendsTheFront'
    BY <2>1, <1>2 DEF OneHolder, SendsTheFront, EnqueueOne
  <2>4. CASE Unwanted(Head(batch))
    <3>1. UNCHANGED <<pending, recent>>
      BY <1>2, <2>4 DEF EnqueueOne
    <3>2. QueueTypeOK' /\ NoDuplicates'
      BY <1>0, <1>2, <2>2, <3>1 DEF QueueTypeOK, EnqueueOne, NoDuplicates
    <3> QED
      BY <2>3, <3>2 DEF QueueInv
  <2>5. CASE ~Unwanted(Head(batch))
    <3> DEFINE t == Head(batch)
    <3>1. /\ t \in Text /\ t \notin Range(pending) /\ t \notin Range(recent)
      BY <2>2, <2>5 DEF Unwanted
    <3>2. pending' = Append(pending, t) /\ recent' = recent
      BY <1>2, <2>5 DEF EnqueueOne
    <3>3. IsInjective(pending)
      BY <1>0 DEF NoDuplicates
    <3> HIDE DEF t
    <3>4. /\ pending' \in Seq(Text)
          /\ Range(pending') = Range(pending) \cup {t}
          /\ IsInjective(pending')
      BY <2>1, <3>1, <3>2, <3>3, AppendFacts
    <3>5. NoDuplicates'
      BY <1>0, <3>1, <3>2, <3>4 DEF NoDuplicates
    <3>6. QueueTypeOK'
      BY <1>0, <1>2, <2>2, <3>4 DEF QueueTypeOK, EnqueueOne
    <3> QED
      BY <2>3, <3>5, <3>6 DEF QueueInv
  <2> QED
    BY <2>4, <2>5
<1>3. ASSUME Clear
      PROVE  QueueInv'
  <2>1. QueueTypeOK'
    BY <1>0, <1>3 DEF QueueTypeOK, Clear
  <2>2. OneHolder' /\ SendsTheFront'
    BY <1>3 DEF OneHolder, SendsTheFront, Clear, Free
  <2>3. IsInjective(pending') /\ Range(pending') = {}
    BY <1>3 DEF Clear, IsInjective, Range
  <2>4. NoDuplicates'
    BY <1>0, <1>3, <2>3 DEF NoDuplicates, Clear
  <2> QED
    BY <2>1, <2>2, <2>4 DEF QueueInv
<1>4. ASSUME NEW p \in BOOLEAN, SetPaused(p)
      PROVE  QueueInv'
  BY <1>0, <1>4
     DEF QueueInv, QueueTypeOK, OneHolder, SendsTheFront, NoDuplicates, SetPaused
<1>5. ASSUME TickStart
      PROVE  QueueInv'
  <2>1. Due \in Text \cup {Blank, NoCall}
    BY <1>0, TailFacts DEF Due, QueueTypeOK
  <2>2. QueueTypeOK'
    BY <1>0, <1>5, <2>1 DEF QueueTypeOK, TickStart
  <2>3. OneHolder' /\ NoDuplicates'
    BY <1>0, <1>5 DEF OneHolder, NoDuplicates, TickStart, Free
  <2>4. SendsTheFront'
    <3>1. call' = Due /\ Due # NoCall /\ UNCHANGED <<pending, clearIn>>
      BY <1>5 DEF TickStart
    <3>2. CASE pending = <<>>
      BY <3>1, <3>2 DEF SendsTheFront, Due
    <3>3. CASE pending # <<>>
      <4>1. Due = Head(pending) /\ Head(pending) \in Text
        BY <1>0, <3>1, <3>3, TailFacts DEF Due, QueueTypeOK
      <4> QED
        BY <3>1, <3>3, <4>1 DEF SendsTheFront
    <3> QED
      BY <3>2, <3>3
  <2> QED
    BY <2>2, <2>3, <2>4 DEF QueueInv
<1>6. ASSUME NEW ok \in BOOLEAN, TickEnd(ok)
      PROVE  QueueInv'
  <2>1. call' = NoCall /\ callAge' = 0 /\ UNCHANGED <<paused, batch>>
    BY <1>6 DEF TickEnd
  <2>2. OneHolder' /\ SendsTheFront'
    BY <2>1 DEF OneHolder, SendsTheFront
  <2>3. CASE ok /\ SentText
    <3>1. call \in Text
      BY <2>3 DEF SentText
    <3>2. pending' \in Seq(Text) /\ recent' \in Seq(Text) /\ NoDuplicates'
      BY <2>3, <3>1, SentTextInv
    <3>3. clearIn' = DueAgain /\ lastSent' = call
      BY <2>3 DEF SentText
    <3>4. DueAgain \in {NoClear} \cup 0..ClearDelay
      BY <1>0 DEF DueAgain, QueueTypeOK
    <3>5. sinceLast' \in 0..Interval
      BY <1>0, <1>6, <2>3 DEF TickEnd, QueueTypeOK
    <3>6. QueueTypeOK'
      BY <1>0, <2>1, <3>1, <3>2, <3>3, <3>4, <3>5 DEF QueueTypeOK
    <3> QED
      BY <2>2, <3>2, <3>6 DEF QueueInv
  <2>4. CASE ok /\ SentBlank
    <3>1. sinceLast' \in 0..Interval
      BY <1>0, <1>6, <2>4 DEF TickEnd, QueueTypeOK
    <3>2. QueueTypeOK' /\ NoDuplicates'
      BY <1>0, <2>1, <2>4, <3>1 DEF QueueTypeOK, SentBlank, NoDuplicates
    <3> QED
      BY <2>2, <3>2 DEF QueueInv
  <2>5. CASE ~ok
    <3>1. QueueTypeOK' /\ NoDuplicates'
      BY <1>0, <1>6, <2>1, <2>5 DEF TickEnd, QueueTypeOK, NoDuplicates
    <3> QED
      BY <2>2, <3>1 DEF QueueInv
  <2> QED
    BY <1>6, <2>3, <2>4, <2>5 DEF TickEnd
<1>7. ASSUME Elapse
      PROVE  QueueInv'
  <2>1. QueueTypeOK'
    BY <1>0, <1>7 DEF QueueTypeOK, Elapse, Older, NoClear
  <2>2. OneHolder' /\ SendsTheFront' /\ NoDuplicates'
    BY <1>0, <1>7 DEF OneHolder, SendsTheFront, NoDuplicates, Elapse
  <2> QED
    BY <2>1, <2>2 DEF QueueInv
<1>8. ASSUME UNCHANGED qvars
      PROVE  QueueInv'
  BY <1>0, <1>8
     DEF QueueInv, QueueTypeOK, OneHolder, SendsTheFront, NoDuplicates, qvars
<1> QED
  BY <1>1, <1>2, <1>3, <1>4, <1>5, <1>6, <1>7, <1>8 DEF QueueStep

-----------------------------------------------------------------------------
\* In every reachable state of the queue the inductive invariant holds.
THEOREM QueueInvariance == QueueSpec => []QueueInv
BY QueueInvInit, QueueNextIsStep, QueueInvStep, PTL DEF QueueSpec

\* The values of the members of ChatBoxQueue stay in their ranges.
THEOREM QueueTypeCorrect == QueueSpec => []QueueTypeOK
<1>1. QueueInv => QueueTypeOK
  BY DEF QueueInv
<1> QED
  BY <1>1, QueueInvariance, PTL

\* No text waits twice, none is remembered twice, none waits that was sent
\* lately.
THEOREM QueueNoDuplicates == QueueSpec => []NoDuplicates
<1>1. QueueInv => NoDuplicates
  BY DEF QueueInv
<1> QED
  BY <1>1, QueueInvariance, PTL

\* What a tick is sending stays at the front of the queue until it returns.
THEOREM QueueSendsTheFront == QueueSpec => []SendsTheFront
<1>1. QueueInv => SendsTheFront
  BY DEF QueueInv
<1> QED
  BY <1>1, QueueInvariance, PTL

\* Every step of the queue is one ChatBoxContract allows.
LEMMA QueueStepRefines ==
    QueueInv /\ [QueueStep]_qvars => [Contract!CNext]_(Contract!cvars)
<1> SUFFICES ASSUME QueueInv, [QueueStep]_qvars
             PROVE  \/ Contract!CNext
                    \/ UNCHANGED <<pending, recent>>
  BY DEF Contract!cvars
<1> USE QueueAssumption
<1>0. QueueTypeOK /\ SendsTheFront
  BY DEF QueueInv
<1>1. CASE \E texts \in Seq(Text \cup {Blank}) : Enqueue(texts)
  BY <1>1 DEF Enqueue
<1>2. CASE EnqueueOne
  <2>1. CASE Unwanted(Head(batch))
    BY <1>2, <2>1 DEF EnqueueOne
  <2>2. CASE ~Unwanted(Head(batch))
    <3>1. Head(batch) \in Text \cup {Blank}
      BY <1>0, <1>2, TailFacts DEF QueueTypeOK, EnqueueOne
    <3>2. Head(batch) \in Text \ (Range(pending) \cup Range(recent))
      BY <3>1, <2>2 DEF Unwanted
    <3>3. pending' = Append(pending, Head(batch)) /\ UNCHANGED recent
      BY <1>2, <2>2 DEF EnqueueOne
    <3>4. Contract!Accept
      BY <3>2, <3>3 DEF Contract!Accept, Contract!Range, Range
    <3> QED
      BY <3>4 DEF Contract!CNext
  <2> QED
    BY <2>1, <2>2
<1>3. CASE Clear
  <2>1. Contract!Discard
    BY <1>3 DEF Clear, Contract!Discard
  <2> QED
    BY <2>1 DEF Contract!CNext
<1>4. CASE \E ok \in BOOLEAN : TickEnd(ok)
  <2>1. PICK ok \in BOOLEAN : TickEnd(ok)
    BY <1>4
  <2>2. CASE SentText
    <3>1. pending # <<>> /\ Head(pending) = call
      BY <1>0, <2>2 DEF SendsTheFront, SentText
    <3>2. Contract!Deliver
      BY <2>2, <3>1
         DEF SentText, Remember, Contract!Deliver, Contract!Recall
    <3> QED
      BY <3>2 DEF Contract!CNext
  <2>3. CASE ~SentText
    BY <2>1, <2>3 DEF TickEnd, SentBlank
  <2> QED
    BY <2>2, <2>3
<1>5. CASE (\E p \in BOOLEAN : SetPaused(p)) \/ TickStart \/ Elapse
  BY <1>5 DEF SetPaused, TickStart, Elapse
<1>6. CASE UNCHANGED qvars
  BY <1>6 DEF qvars
<1> QED
  BY <1>1, <1>2, <1>3, <1>4, <1>5, <1>6 DEF QueueStep

\* The queue delivers in order, and nothing twice within its memory: it
\* implements ChatBoxContract.
THEOREM QueueRefinesContract == QueueSpec => RefinesContract
<1>1. QueueInit => Contract!CInit
  BY DEF QueueInit, Contract!CInit
<1> QED
  BY <1>1, QueueNextIsStep, QueueStepRefines, QueueInvariance, PTL
     DEF QueueSpec, RefinesContract, Contract!CSpec

-----------------------------------------------------------------------------
(* The threads that share it *)

\* Even while a packet is on its way VRChat shows the text the queue reports
\* as sent last, or nothing.
DisplayInv == display \in {lastSent, Blank}

\* The inductive invariant.
ChatBoxInv ==
    /\ TypeOK
    /\ QueueInv
    /\ NothingVanishes
    /\ DisplayInv
    /\ NoUseAfterDelete

\* What the queue sees: any step of the threads is one of its own or none.
LEMMA NextIsQueueStep == TypeOK /\ [Next]_vars => [QueueStep]_qvars
<1> SUFFICES ASSUME TypeOK, [Next]_vars PROVE [QueueStep]_qvars
  OBVIOUS
<1> USE QueueAssumption
<1>1. CASE HandOver
  <2>1. finalTexts \in Seq(Text \cup {Blank})
    BY DEF TypeOK
  <2>2. CASE Enqueue(finalTexts)
    BY <2>1, <2>2 DEF QueueStep
  <2>3. CASE UNCHANGED qvars
    BY <2>3
  <2> QED
    BY <1>1, <2>2, <2>3 DEF HandOver
<1>2. CASE Examine \/ LoopTick \/ LoopOscRefused \/ QueueClear \/ Time
  BY <1>2 DEF Examine, LoopTick, LoopOscRefused, QueueClear, Time, QueueStep
<1>3. ASSUME NEW ok \in BOOLEAN, LoopOscSend(ok) PROVE [QueueStep]_qvars
  BY <1>3 DEF LoopOscSend, QueueStep
<1>4. ASSUME NEW p \in BOOLEAN, QueuePause(p) PROVE [QueueStep]_qvars
  BY <1>4 DEF QueuePause, QueueStep
<1>5. ASSUME NEW text \in Batches, Receive(text) PROVE UNCHANGED qvars
  BY <1>5 DEF Receive
<1>6. CASE Filter \/ LoopCheck \/ LoopIdle \/ LoopOscCheck
  BY <1>6 DEF Filter, LoopCheck, LoopIdle, LoopOscCheck
<1>7. CASE ChatBoxClear \/ HttpClear
  BY <1>7 DEF ChatBoxClear, HttpClear, ClearOscCheck, ClearOscRefused, ClearOscSend
<1>8. CASE StopLoop \/ MainThread
  BY <1>8 DEF StopLoop, MainThread, DeleteQueue, StopOthers, MainOscCheck,
              MainOscRefused, MainOscSend
<1>9. CASE UNCHANGED vars
  BY <1>9 DEF vars
<1> QED
  BY <1>1, <1>2, <1>3, <1>4, <1>5, <1>6, <1>7, <1>8, <1>9
     DEF Next, ReceiveThread, QueueThread

-----------------------------------------------------------------------------
(* The threads, the texts and the clocks stay in their ranges. *)

ThreadTypes ==
    /\ alive \in BOOLEAN /\ looping \in BOOLEAN
    /\ queueThread \in {"check", "tick", "exited"}
    /\ http \in {"idle", "clearing"}
    /\ clears \in 0..MaxClears
    /\ main \in {"running", "joining", "stopping", "clearing", "done"}

TextTypes ==
    /\ fmtRecent \in Seq(Text) /\ Len(fmtRecent) <= FormatterLimit
    /\ chunks \in Seq(Text) /\ finalTexts \in Seq(Text)
    /\ owed \subseteq Text

OscTypes ==
    /\ oscAge \in 0..Throttle
    /\ oscNow \in [Callers -> {NotReading} \cup 0..Throttle]

LEMMA TypeParts ==
    TypeOK <=> /\ QueueTypeOK
               /\ ThreadTypes
               /\ TextTypes
               /\ OscTypes
               /\ display \in Text \cup {Blank}
BY DEF TypeOK, ThreadTypes, TextTypes, OscTypes

\* The threads.
LEMMA StepThreadTypes ==
    ASSUME ThreadTypes, [Next]_vars
    PROVE  ThreadTypes'
<1> USE ChatBoxAssumption DEF ThreadTypes
<1>1. ASSUME NEW text \in Batches, Receive(text) PROVE ThreadTypes'
  BY <1>1 DEF Receive
<1>2. CASE Filter
  BY <1>2 DEF Filter
<1>3. CASE HandOver
  BY <1>3 DEF HandOver, Enqueue
<1>4. CASE Examine
  BY <1>4 DEF Examine, EnqueueOne
<1>5. CASE LoopCheck
  BY <1>5 DEF LoopCheck, QueueThreadOnly
<1>6. CASE LoopIdle
  BY <1>6 DEF LoopIdle, QueueThreadOnly
<1>7. CASE LoopTick
  BY <1>7 DEF LoopTick, TickStart, QueueThreadOnly
<1>8. CASE LoopOscCheck
  BY <1>8 DEF LoopOscCheck, OscCheck, QueueThreadOnly
<1>9. CASE LoopOscRefused
  BY <1>9 DEF LoopOscRefused, TickEnd, QueueThreadOnly
<1>10. ASSUME NEW ok \in BOOLEAN, LoopOscSend(ok) PROVE ThreadTypes'
  BY <1>10 DEF LoopOscSend, OscSend, TickEnd, QueueThreadOnly
<1>11. CASE QueueClear
  BY <1>11 DEF QueueClear, Clear, HttpFrame
<1>12. ASSUME NEW p \in BOOLEAN, QueuePause(p) PROVE ThreadTypes'
  BY <1>12 DEF QueuePause, SetPaused, HttpFrame
<1>13. CASE ChatBoxClear
  BY <1>13 DEF ChatBoxClear, HttpFrame
<1>14. CASE ClearOscCheck
  BY <1>14 DEF ClearOscCheck, OscCheck, HttpFrame
<1>15. CASE ClearOscRefused
  BY <1>15 DEF ClearOscRefused, HttpFrame
<1>16. ASSUME NEW ok \in BOOLEAN, ClearOscSend(ok) PROVE ThreadTypes'
  BY <1>16 DEF ClearOscSend, OscSend, HttpFrame
<1>17. CASE StopLoop
  BY <1>17 DEF StopLoop, MainFrame
<1>18. CASE DeleteQueue
  BY <1>18 DEF DeleteQueue, MainFrame
<1>19. CASE StopOthers
  BY <1>19 DEF StopOthers, MainFrame
<1>20. CASE MainOscCheck
  BY <1>20 DEF MainOscCheck, OscCheck, MainFrame
<1>21. CASE MainOscRefused
  BY <1>21 DEF MainOscRefused, MainFrame
<1>22. ASSUME NEW ok \in BOOLEAN, MainOscSend(ok) PROVE ThreadTypes'
  BY <1>22 DEF MainOscSend, OscSend, MainFrame
<1>23. CASE Time
  BY <1>23 DEF Time, Elapse
<1>24. CASE UNCHANGED vars
  BY <1>24 DEF vars, qvars, cbvars
<1> QED
  BY <1>1, <1>2, <1>3, <1>4, <1>5, <1>6, <1>7, <1>8,
     <1>9, <1>10, <1>11, <1>12, <1>13, <1>14, <1>15, <1>16,
     <1>17, <1>18, <1>19, <1>20, <1>21, <1>22, <1>23, <1>24
     DEF Next, ReceiveThread, QueueThread, HttpClear, MainThread

\* What the formatter remembers.
LEMMA NotedType ==
    ASSUME TextTypes, NEW c \in Text
    PROVE  Noted(c) \in Seq(Text) /\ Len(Noted(c)) <= FormatterLimit
<1> USE ChatBoxAssumption
<1>1. /\ fmtRecent \in Seq(Text) /\ Len(fmtRecent) \in Nat
      /\ Len(fmtRecent) <= FormatterLimit
  BY DEF TextTypes
<1>2. Append(fmtRecent, c) \in Seq(Text) /\ Append(fmtRecent, c) # <<>>
  BY <1>1
<1>3. Len(Append(fmtRecent, c)) = Len(fmtRecent) + 1
  BY <1>1
<1>4. /\ Tail(Append(fmtRecent, c)) \in Seq(Text)
      /\ Len(Tail(Append(fmtRecent, c))) = Len(Append(fmtRecent, c)) - 1
  BY <1>2, TailFacts
<1> QED
  BY <1>1, <1>2, <1>3, <1>4 DEF Noted

\* The texts.
LEMMA StepTextTypes ==
    ASSUME TextTypes, [Next]_vars
    PROVE  TextTypes'
<1> USE ChatBoxAssumption DEF TextTypes
<1>1. ASSUME NEW text \in Batches, Receive(text) PROVE TextTypes'
  BY <1>1 DEF Receive
<1>2. CASE Filter
  <2>1. /\ Tail(chunks) \in Seq(Text) /\ Head(chunks) \in Text
        /\ UNCHANGED chunks \/ chunks' = Tail(chunks)
    BY <1>2, TailFacts DEF Filter
  <2>2. CASE UNCHANGED <<fmtRecent, finalTexts, owed>>
    BY <1>2, <2>1, <2>2 DEF Filter
  <2>3. CASE /\ fmtRecent' = Noted(Head(chunks))
             /\ finalTexts' = Append(finalTexts, Head(chunks))
             /\ owed' = owed \cup {Head(chunks)}
    <3>1. Append(finalTexts, Head(chunks)) \in Seq(Text)
      BY <2>1
    <3>2. fmtRecent' \in Seq(Text) /\ Len(fmtRecent') <= FormatterLimit
      BY <2>1, <2>3, NotedType
    <3> QED
      BY <1>2, <2>1, <2>3, <3>1, <3>2 DEF Filter
  <2> QED
    BY <1>2, <2>2, <2>3 DEF Filter
<1>3. CASE HandOver
  BY <1>3 DEF HandOver, Enqueue
<1>4. CASE Examine
  BY <1>4 DEF Examine, EnqueueOne
<1>5. CASE LoopCheck
  BY <1>5 DEF LoopCheck, QueueThreadOnly
<1>6. CASE LoopIdle
  BY <1>6 DEF LoopIdle, QueueThreadOnly
<1>7. CASE LoopTick
  BY <1>7 DEF LoopTick, TickStart, QueueThreadOnly
<1>8. CASE LoopOscCheck
  BY <1>8 DEF LoopOscCheck, OscCheck, QueueThreadOnly
<1>9. CASE LoopOscRefused
  BY <1>9 DEF LoopOscRefused, TickEnd, QueueThreadOnly
<1>10. ASSUME NEW ok \in BOOLEAN, LoopOscSend(ok) PROVE TextTypes'
  BY <1>10 DEF LoopOscSend, OscSend, TickEnd, QueueThreadOnly
<1>11. CASE QueueClear
  BY <1>11 DEF QueueClear, Clear, HttpFrame
<1>12. ASSUME NEW p \in BOOLEAN, QueuePause(p) PROVE TextTypes'
  BY <1>12 DEF QueuePause, SetPaused, HttpFrame
<1>13. CASE ChatBoxClear
  BY <1>13 DEF ChatBoxClear, HttpFrame
<1>14. CASE ClearOscCheck
  BY <1>14 DEF ClearOscCheck, OscCheck, HttpFrame
<1>15. CASE ClearOscRefused
  BY <1>15 DEF ClearOscRefused, HttpFrame
<1>16. ASSUME NEW ok \in BOOLEAN, ClearOscSend(ok) PROVE TextTypes'
  BY <1>16 DEF ClearOscSend, OscSend, HttpFrame
<1>17. CASE StopLoop
  BY <1>17 DEF StopLoop, MainFrame
<1>18. CASE DeleteQueue
  BY <1>18 DEF DeleteQueue, MainFrame
<1>19. CASE StopOthers
  BY <1>19 DEF StopOthers, MainFrame
<1>20. CASE MainOscCheck
  BY <1>20 DEF MainOscCheck, OscCheck, MainFrame
<1>21. CASE MainOscRefused
  BY <1>21 DEF MainOscRefused, MainFrame
<1>22. ASSUME NEW ok \in BOOLEAN, MainOscSend(ok) PROVE TextTypes'
  BY <1>22 DEF MainOscSend, OscSend, MainFrame
<1>23. CASE Time
  BY <1>23 DEF Time, Elapse
<1>24. CASE UNCHANGED vars
  BY <1>24 DEF vars, qvars, cbvars
<1> QED
  BY <1>1, <1>2, <1>3, <1>4, <1>5, <1>6, <1>7, <1>8,
     <1>9, <1>10, <1>11, <1>12, <1>13, <1>14, <1>15, <1>16,
     <1>17, <1>18, <1>19, <1>20, <1>21, <1>22, <1>23, <1>24
     DEF Next, ReceiveThread, QueueThread, HttpClear, MainThread

\* The two steps of sendChatBox leave the clocks in their ranges.
LEMMA OscCallTypes ==
    ASSUME OscTypes, NEW p \in Callers, NEW text, NEW ok \in BOOLEAN,
           OscCheck(p) \/ OscSend(p, text, ok)
    PROVE  OscTypes'
<1> USE ChatBoxAssumption DEF NotReading
<1>1. /\ oscNow \in [Callers -> {-1} \cup 0..Throttle] /\ oscAge \in 0..Throttle
      /\ oscNow[p] \in {-1} \cup 0..Throttle
      /\ 0 \in {-1} \cup 0..Throttle /\ -1 \in {-1} \cup 0..Throttle
  BY DEF OscTypes
<1>2. oscNow' = [oscNow EXCEPT ![p] = 0] \/ oscNow' = [oscNow EXCEPT ![p] = -1]
  BY DEF OscCheck, OscSend
<1>3. oscNow' \in [Callers -> {-1} \cup 0..Throttle]
  BY <1>1, <1>2
<1>4. oscAge' = oscAge \/ (oscNow[p] # -1 /\ oscAge' = oscNow[p])
  BY DEF OscCheck, OscSend
<1>5. oscAge' \in 0..Throttle
  BY <1>1, <1>4
<1> QED
  BY <1>3, <1>5 DEF OscTypes

\* The clocks.
LEMMA StepOscTypes ==
    ASSUME OscTypes, [Next]_vars
    PROVE  OscTypes'
<1> USE ChatBoxAssumption DEF OscTypes, NotReading
<1>1. ASSUME NEW text \in Batches, Receive(text) PROVE OscTypes'
  BY <1>1 DEF Receive
<1>2. CASE Filter
  BY <1>2 DEF Filter
<1>3. CASE HandOver
  BY <1>3 DEF HandOver, Enqueue
<1>4. CASE Examine
  BY <1>4 DEF Examine, EnqueueOne
<1>5. CASE LoopCheck
  BY <1>5 DEF LoopCheck, QueueThreadOnly
<1>6. CASE LoopIdle
  BY <1>6 DEF LoopIdle, QueueThreadOnly
<1>7. CASE LoopTick
  BY <1>7 DEF LoopTick, TickStart, QueueThreadOnly
<1>8. CASE LoopOscCheck
  <2>1. "queue" \in Callers /\ OscCheck("queue") /\ TRUE \in BOOLEAN
    BY <1>8 DEF LoopOscCheck, Callers
  <2> QED
    BY <2>1, OscCallTypes
<1>9. CASE LoopOscRefused
  BY <1>9 DEF LoopOscRefused, TickEnd, QueueThreadOnly
<1>10. ASSUME NEW ok \in BOOLEAN, LoopOscSend(ok) PROVE OscTypes'
  <2>1. "queue" \in Callers /\ OscSend("queue", call, ok)
    BY <1>10 DEF LoopOscSend, Callers
  <2> QED
    BY <2>1, OscCallTypes
<1>11. CASE QueueClear
  BY <1>11 DEF QueueClear, Clear, HttpFrame
<1>12. ASSUME NEW p \in BOOLEAN, QueuePause(p) PROVE OscTypes'
  BY <1>12 DEF QueuePause, SetPaused, HttpFrame
<1>13. CASE ChatBoxClear
  BY <1>13 DEF ChatBoxClear, HttpFrame
<1>14. CASE ClearOscCheck
  <2>1. "http" \in Callers /\ OscCheck("http") /\ TRUE \in BOOLEAN
    BY <1>14 DEF ClearOscCheck, Callers
  <2> QED
    BY <2>1, OscCallTypes
<1>15. CASE ClearOscRefused
  BY <1>15 DEF ClearOscRefused, HttpFrame
<1>16. ASSUME NEW ok \in BOOLEAN, ClearOscSend(ok) PROVE OscTypes'
  <2>1. "http" \in Callers /\ OscSend("http", Blank, ok)
    BY <1>16 DEF ClearOscSend, Callers
  <2> QED
    BY <2>1, OscCallTypes
<1>17. CASE StopLoop
  BY <1>17 DEF StopLoop, MainFrame
<1>18. CASE DeleteQueue
  BY <1>18 DEF DeleteQueue, MainFrame
<1>19. CASE StopOthers
  BY <1>19 DEF StopOthers, MainFrame
<1>20. CASE MainOscCheck
  <2>1. "main" \in Callers /\ OscCheck("main") /\ TRUE \in BOOLEAN
    BY <1>20 DEF MainOscCheck, Callers
  <2> QED
    BY <2>1, OscCallTypes
<1>21. CASE MainOscRefused
  BY <1>21 DEF MainOscRefused, MainFrame
<1>22. ASSUME NEW ok \in BOOLEAN, MainOscSend(ok) PROVE OscTypes'
  <2>1. "main" \in Callers /\ OscSend("main", Blank, ok)
    BY <1>22 DEF MainOscSend, Callers
  <2> QED
    BY <2>1, OscCallTypes
<1>23. CASE Time
  <2>1. oscAge' \in 0..Throttle
    BY <1>23 DEF Time, Older
  <2>2. \A q \in Callers : oscNow[q] \in {-1} \cup 0..Throttle
    OBVIOUS
  <2>3. \A q \in Callers :
           (IF oscNow[q] = -1 THEN -1 ELSE Older(oscNow[q], Throttle))
                \in {-1} \cup 0..Throttle
    BY <2>2 DEF Older
  <2> QED
    BY <1>23, <2>1, <2>3 DEF Time
<1>24. CASE UNCHANGED vars
  BY <1>24 DEF vars, qvars, cbvars
<1> QED
  BY <1>1, <1>2, <1>3, <1>4, <1>5, <1>6, <1>7, <1>8,
     <1>9, <1>10, <1>11, <1>12, <1>13, <1>14, <1>15, <1>16,
     <1>17, <1>18, <1>19, <1>20, <1>21, <1>22, <1>23, <1>24
     DEF Next, ReceiveThread, QueueThread, HttpClear, MainThread


-----------------------------------------------------------------------------
(* What is displayed, what is owed, and who is inside. *)

\* A send that succeeds changes the display and the report in one step.
LEMMA StepDisplay ==
    ASSUME DisplayInv, [Next]_vars
    PROVE  DisplayInv'
<1> USE DEF DisplayInv
<1>1. ASSUME NEW text \in Batches, Receive(text) PROVE DisplayInv'
  BY <1>1 DEF Receive, qvars
<1>2. CASE Filter
  BY <1>2 DEF Filter, qvars
<1>3. CASE HandOver
  <2>1. UNCHANGED <<display, lastSent>>
    BY <1>3 DEF HandOver, Enqueue, qvars
  <2> QED
    BY <2>1
<1>4. CASE Examine
  BY <1>4 DEF Examine, EnqueueOne, qvars
<1>5. CASE LoopCheck
  BY <1>5 DEF LoopCheck, QueueThreadOnly, qvars
<1>6. CASE LoopIdle
  BY <1>6 DEF LoopIdle, QueueThreadOnly, qvars
<1>7. CASE LoopTick
  BY <1>7 DEF LoopTick, TickStart, QueueThreadOnly, qvars
<1>8. CASE LoopOscCheck
  BY <1>8 DEF LoopOscCheck, OscCheck, QueueThreadOnly, qvars
<1>9. CASE LoopOscRefused
  <2>1. UNCHANGED <<display, lastSent>>
    BY <1>9 DEF LoopOscRefused, TickEnd
  <2> QED
    BY <2>1
<1>10. ASSUME NEW ok \in BOOLEAN, LoopOscSend(ok) PROVE DisplayInv'
  <2>1. ok \/ ~ok
    OBVIOUS
  <2>2. CASE ok
    <3>1. display' = call /\ (call = Blank \/ lastSent' = call)
      BY <1>10, <2>2 DEF LoopOscSend, OscSend, TickEnd, SentBlank, SentText
    <3> QED
      BY <3>1
  <2>3. CASE ~ok
    <3>1. UNCHANGED <<display, lastSent>>
      BY <1>10, <2>3 DEF LoopOscSend, OscSend, TickEnd
    <3> QED
      BY <3>1
  <2> QED
    BY <2>2, <2>3
<1>11. CASE QueueClear
  BY <1>11 DEF QueueClear, Clear, HttpFrame, qvars
<1>12. ASSUME NEW p \in BOOLEAN, QueuePause(p) PROVE DisplayInv'
  BY <1>12 DEF QueuePause, SetPaused, HttpFrame, qvars
<1>13. CASE ChatBoxClear
  BY <1>13 DEF ChatBoxClear, HttpFrame, qvars
<1>14. CASE ClearOscCheck
  BY <1>14 DEF ClearOscCheck, OscCheck, HttpFrame, qvars
<1>15. CASE ClearOscRefused
  BY <1>15 DEF ClearOscRefused, HttpFrame, qvars
<1>16. ASSUME NEW ok \in BOOLEAN, ClearOscSend(ok) PROVE DisplayInv'
  BY <1>16 DEF ClearOscSend, OscSend, HttpFrame, qvars
<1>17. CASE StopLoop
  BY <1>17 DEF StopLoop, MainFrame, qvars
<1>18. CASE DeleteQueue
  BY <1>18 DEF DeleteQueue, MainFrame, qvars
<1>19. CASE StopOthers
  BY <1>19 DEF StopOthers, MainFrame, qvars
<1>20. CASE MainOscCheck
  BY <1>20 DEF MainOscCheck, OscCheck, MainFrame, qvars
<1>21. CASE MainOscRefused
  BY <1>21 DEF MainOscRefused, MainFrame, qvars
<1>22. ASSUME NEW ok \in BOOLEAN, MainOscSend(ok) PROVE DisplayInv'
  BY <1>22 DEF MainOscSend, OscSend, MainFrame, qvars
<1>23. CASE Time
  BY <1>23 DEF Time, Elapse
<1>24. CASE UNCHANGED vars
  BY <1>24 DEF vars, qvars, cbvars
<1> QED
  BY <1>1, <1>2, <1>3, <1>4, <1>5, <1>6, <1>7, <1>8,
     <1>9, <1>10, <1>11, <1>12, <1>13, <1>14, <1>15, <1>16,
     <1>17, <1>18, <1>19, <1>20, <1>21, <1>22, <1>23, <1>24
     DEF Next, ReceiveThread, QueueThread, HttpClear, MainThread

\* Nobody comes back into the deleted queue.
LEMMA StepNoUse ==
    ASSUME NoUseAfterDelete, [Next]_vars
    PROVE  NoUseAfterDelete'
<1> USE DEF NoUseAfterDelete, Free
<1>1. ASSUME NEW text \in Batches, Receive(text) PROVE NoUseAfterDelete'
  BY <1>1 DEF Receive, qvars
<1>2. CASE Filter
  BY <1>2 DEF Filter, qvars
<1>3. CASE HandOver
  BY <1>3 DEF HandOver, Enqueue, qvars
<1>4. CASE Examine
  BY <1>4 DEF Examine, EnqueueOne, qvars
<1>5. CASE LoopCheck
  BY <1>5 DEF LoopCheck, QueueThreadOnly, qvars
<1>6. CASE LoopIdle
  BY <1>6 DEF LoopIdle, QueueThreadOnly, qvars
<1>7. CASE LoopTick
  BY <1>7 DEF LoopTick, TickStart, QueueThreadOnly, qvars
<1>8. CASE LoopOscCheck
  BY <1>8 DEF LoopOscCheck, OscCheck, QueueThreadOnly, qvars
<1>9. CASE LoopOscRefused
  BY <1>9 DEF LoopOscRefused, TickEnd, QueueThreadOnly, qvars
<1>10. ASSUME NEW ok \in BOOLEAN, LoopOscSend(ok) PROVE NoUseAfterDelete'
  BY <1>10 DEF LoopOscSend, OscSend, TickEnd, QueueThreadOnly, qvars
<1>11. CASE QueueClear
  BY <1>11 DEF QueueClear, Clear, HttpFrame, qvars
<1>12. ASSUME NEW p \in BOOLEAN, QueuePause(p) PROVE NoUseAfterDelete'
  BY <1>12 DEF QueuePause, SetPaused, HttpFrame, qvars
<1>13. CASE ChatBoxClear
  BY <1>13 DEF ChatBoxClear, HttpFrame, qvars
<1>14. CASE ClearOscCheck
  BY <1>14 DEF ClearOscCheck, OscCheck, HttpFrame, qvars
<1>15. CASE ClearOscRefused
  BY <1>15 DEF ClearOscRefused, HttpFrame, qvars
<1>16. ASSUME NEW ok \in BOOLEAN, ClearOscSend(ok) PROVE NoUseAfterDelete'
  BY <1>16 DEF ClearOscSend, OscSend, HttpFrame, qvars
<1>17. CASE StopLoop
  BY <1>17 DEF StopLoop, MainFrame, qvars
<1>18. CASE DeleteQueue
  BY <1>18 DEF DeleteQueue, MainFrame, qvars
<1>19. CASE StopOthers
  BY <1>19 DEF StopOthers, MainFrame, qvars
<1>20. CASE MainOscCheck
  BY <1>20 DEF MainOscCheck, OscCheck, MainFrame, qvars
<1>21. CASE MainOscRefused
  BY <1>21 DEF MainOscRefused, MainFrame, qvars
<1>22. ASSUME NEW ok \in BOOLEAN, MainOscSend(ok) PROVE NoUseAfterDelete'
  BY <1>22 DEF MainOscSend, OscSend, MainFrame, qvars
<1>23. CASE Time
  BY <1>23 DEF Time, Elapse, qvars
<1>24. CASE UNCHANGED vars
  BY <1>24 DEF vars, qvars, cbvars
<1> QED
  BY <1>1, <1>2, <1>3, <1>4, <1>5, <1>6, <1>7, <1>8,
     <1>9, <1>10, <1>11, <1>12, <1>13, <1>14, <1>15, <1>16,
     <1>17, <1>18, <1>19, <1>20, <1>21, <1>22, <1>23, <1>24
     DEF Next, ReceiveThread, QueueThread, HttpClear, MainThread

\* An owed text goes from the formatter over the enqueue to the queue, and is owed
\* no more when it leaves it.
LEMMA StepOwed ==
    ASSUME TypeOK, QueueInv, NoUseAfterDelete, NothingVanishes, [Next]_vars
    PROVE  NothingVanishes'
<1> USE DEF NothingVanishes
<1>1. ASSUME NEW text \in Batches, Receive(text) PROVE NothingVanishes'
  <2>1. UNCHANGED <<owed, finalTexts, alive, batch, pending>>
    BY <1>1 DEF Receive, qvars
  <2> QED
    BY <2>1
<1>2. CASE Filter
  <2>1. /\ UNCHANGED <<alive, batch, pending>>
        /\ \/ UNCHANGED <<finalTexts, owed>>
           \/ /\ finalTexts' = Append(finalTexts, Head(chunks))
              /\ owed' = owed \cup {Head(chunks)}
    BY <1>2 DEF Filter, qvars
  <2>2. CASE UNCHANGED <<finalTexts, owed>>
    BY <2>1, <2>2
  <2>3. CASE /\ finalTexts' = Append(finalTexts, Head(chunks))
             /\ owed' = owed \cup {Head(chunks)}
    <3>1. Head(chunks) \in Text /\ finalTexts \in Seq(Text)
      BY <1>2, TailFacts DEF Filter, TypeOK
    <3>2. Range(finalTexts') = Range(finalTexts) \cup {Head(chunks)}
      BY <2>3, <3>1, AppendFacts
    <3> QED
      BY <2>1, <2>3, <3>2
  <2> QED
    BY <2>1, <2>2, <2>3
<1>3. CASE HandOver
  <2>1. finalTexts' = <<>> /\ UNCHANGED alive
    BY <1>3 DEF HandOver
  <2>2. CASE alive /\ Enqueue(finalTexts) /\ UNCHANGED owed
    <3>1. batch = <<>> /\ batch' = finalTexts /\ UNCHANGED pending
      BY <2>2 DEF Enqueue, Free
    <3> QED
      BY <2>1, <2>2, <3>1, EmptyFacts
  <2>3. CASE ~alive /\ owed' = owed \ Range(finalTexts)
    BY <2>1, <2>3
  <2> QED
    BY <1>3, <2>2, <2>3 DEF HandOver
<1>4. CASE Examine
  <2> DEFINE t == Head(batch)
  <2>1. /\ batch \in Seq(Text \cup {Blank}) /\ batch # <<>> /\ pending \in Seq(Text)
        /\ UNCHANGED <<finalTexts, alive>> /\ batch' = Tail(batch)
        /\ pending' = IF Unwanted(t) THEN pending ELSE Append(pending, t)
        /\ owed' = IF t \in Range(recent) THEN owed \ {t} ELSE owed
    BY <1>4 DEF Examine, EnqueueOne, TypeOK, QueueTypeOK
  <2>2. /\ t \in Text \cup {Blank}
        /\ Range(batch) = {t} \cup Range(batch')
    BY <2>1, TailFacts, HeadAndTail
  <2>3. alive
    BY <2>1 DEF NoUseAfterDelete, Free
  <2>4. owed \subseteq Text
    BY DEF TypeOK
  <2> HIDE DEF t
  <2>5. CASE Unwanted(t)
    <3>1. t = Blank \/ t \in Range(recent) \/ t \in Range(pending')
      BY <2>1, <2>5 DEF Unwanted
    <3>2. t \notin owed' \/ t \in Range(pending')
      BY <3>1, <2>1, <2>4, QueueAssumption
    <3> QED
      BY <2>1, <2>2, <2>3, <2>5, <3>2
  <2>6. CASE ~Unwanted(t)
    <3>1. t \in Text
      BY <2>2, <2>6 DEF Unwanted
    <3>2. Range(pending') = Range(pending) \cup {t}
      BY <2>1, <2>6, <3>1, AppendFacts
    <3> QED
      BY <2>1, <2>2, <2>3, <3>2
  <2> QED
    BY <2>5, <2>6
<1>5. CASE LoopCheck
  <2>1. UNCHANGED <<owed, finalTexts, alive, batch, pending>>
    BY <1>5 DEF LoopCheck, QueueThreadOnly, qvars
  <2> QED
    BY <2>1
<1>6. CASE LoopIdle
  <2>1. UNCHANGED <<owed, finalTexts, alive, batch, pending>>
    BY <1>6 DEF LoopIdle, QueueThreadOnly, qvars
  <2> QED
    BY <2>1
<1>7. CASE LoopTick
  <2>1. UNCHANGED <<owed, finalTexts, alive, batch, pending>>
    BY <1>7 DEF LoopTick, TickStart, QueueThreadOnly, qvars
  <2> QED
    BY <2>1
<1>8. CASE LoopOscCheck
  <2>1. UNCHANGED <<owed, finalTexts, alive, batch, pending>>
    BY <1>8 DEF LoopOscCheck, OscCheck, QueueThreadOnly, qvars
  <2> QED
    BY <2>1
<1>9. CASE LoopOscRefused
  <2>1. UNCHANGED <<owed, finalTexts, alive, batch, pending>>
    BY <1>9 DEF LoopOscRefused, TickEnd, QueueThreadOnly
  <2> QED
    BY <2>1
<1>10. ASSUME NEW ok \in BOOLEAN, LoopOscSend(ok) PROVE NothingVanishes'
  <2>1. /\ UNCHANGED <<finalTexts, alive, batch>>
        /\ owed' = (IF ok THEN owed \ {call} ELSE owed)
    BY <1>10 DEF LoopOscSend, TickEnd, QueueThreadOnly
  <2>2. CASE ok /\ SentText
    <3>1. pending \in Seq(Text) /\ pending # <<>> /\ Head(pending) = call
      BY <2>2 DEF QueueInv, QueueTypeOK, SendsTheFront, SentText
    <3>2. Range(pending) = {call} \cup Range(Tail(pending))
      BY <3>1, HeadAndTail
    <3>3. pending' = Tail(pending)
      BY <2>2 DEF SentText
    <3> QED
      BY <2>1, <2>2, <3>2, <3>3
  <2>3. CASE ~ok \/ SentBlank
    <3>1. UNCHANGED pending
      BY <1>10, <2>3 DEF LoopOscSend, TickEnd, SentBlank, SentText
    <3> QED
      BY <2>1, <3>1
  <2> QED
    BY <1>10, <2>2, <2>3 DEF LoopOscSend, TickEnd
<1>11. CASE QueueClear
  <2>1. /\ UNCHANGED <<finalTexts, alive, batch>>
        /\ owed' = owed \ Range(pending)
    BY <1>11 DEF QueueClear, Clear, HttpFrame
  <2> QED
    BY <2>1
<1>12. ASSUME NEW p \in BOOLEAN, QueuePause(p) PROVE NothingVanishes'
  <2>1. UNCHANGED <<owed, finalTexts, alive, batch, pending>>
    BY <1>12 DEF QueuePause, SetPaused, HttpFrame, qvars
  <2> QED
    BY <2>1
<1>13. CASE ChatBoxClear
  <2>1. UNCHANGED <<owed, finalTexts, alive, batch, pending>>
    BY <1>13 DEF ChatBoxClear, HttpFrame, qvars
  <2> QED
    BY <2>1
<1>14. CASE ClearOscCheck
  <2>1. UNCHANGED <<owed, finalTexts, alive, batch, pending>>
    BY <1>14 DEF ClearOscCheck, OscCheck, HttpFrame, qvars
  <2> QED
    BY <2>1
<1>15. CASE ClearOscRefused
  <2>1. UNCHANGED <<owed, finalTexts, alive, batch, pending>>
    BY <1>15 DEF ClearOscRefused, HttpFrame, qvars
  <2> QED
    BY <2>1
<1>16. ASSUME NEW ok \in BOOLEAN, ClearOscSend(ok) PROVE NothingVanishes'
  <2>1. UNCHANGED <<owed, finalTexts, alive, batch, pending>>
    BY <1>16 DEF ClearOscSend, OscSend, HttpFrame, qvars
  <2> QED
    BY <2>1
<1>17. CASE StopLoop
  <2>1. UNCHANGED <<owed, finalTexts, alive, batch, pending>>
    BY <1>17 DEF StopLoop, MainFrame, qvars
  <2> QED
    BY <2>1
<1>18. CASE DeleteQueue
  <2>1. /\ UNCHANGED finalTexts /\ ~alive' /\ batch = <<>>
        /\ owed' = owed \ Range(pending)
    BY <1>18 DEF DeleteQueue, Free, MainFrame
  <2> QED
    BY <2>1, EmptyFacts
<1>19. CASE StopOthers
  <2>1. UNCHANGED <<owed, finalTexts, alive, batch, pending>>
    BY <1>19 DEF StopOthers, MainFrame, qvars
  <2> QED
    BY <2>1
<1>20. CASE MainOscCheck
  <2>1. UNCHANGED <<owed, finalTexts, alive, batch, pending>>
    BY <1>20 DEF MainOscCheck, OscCheck, MainFrame, qvars
  <2> QED
    BY <2>1
<1>21. CASE MainOscRefused
  <2>1. UNCHANGED <<owed, finalTexts, alive, batch, pending>>
    BY <1>21 DEF MainOscRefused, MainFrame, qvars
  <2> QED
    BY <2>1
<1>22. ASSUME NEW ok \in BOOLEAN, MainOscSend(ok) PROVE NothingVanishes'
  <2>1. UNCHANGED <<owed, finalTexts, alive, batch, pending>>
    BY <1>22 DEF MainOscSend, OscSend, MainFrame, qvars
  <2> QED
    BY <2>1
<1>23. CASE Time
  <2>1. UNCHANGED <<owed, finalTexts, alive, batch, pending>>
    BY <1>23 DEF Time, Elapse, qvars
  <2> QED
    BY <2>1
<1>24. CASE UNCHANGED vars
  <2>1. UNCHANGED <<owed, finalTexts, alive, batch, pending>>
    BY <1>24 DEF vars, qvars, cbvars
  <2> QED
    BY <2>1
<1> QED
  BY <1>1, <1>2, <1>3, <1>4, <1>5, <1>6, <1>7, <1>8,
     <1>9, <1>10, <1>11, <1>12, <1>13, <1>14, <1>15, <1>16,
     <1>17, <1>18, <1>19, <1>20, <1>21, <1>22, <1>23, <1>24
     DEF Next, ReceiveThread, QueueThread, HttpClear, MainThread

-----------------------------------------------------------------------------
LEMMA ChatBoxInit == Init => ChatBoxInv
<1> SUFFICES ASSUME Init PROVE ChatBoxInv
  OBVIOUS
<1> USE ChatBoxAssumption DEF Init
<1>1. QueueInv
  BY QueueInvInit
<1>2. ThreadTypes /\ TextTypes
  BY DEF ThreadTypes, TextTypes
<1>3. OscTypes
  BY DEF OscTypes, NotReading
<1>4. TypeOK
  BY <1>1, <1>2, <1>3, TypeParts DEF QueueInv
<1>5. NothingVanishes /\ DisplayInv /\ NoUseAfterDelete
  BY DEF NothingVanishes, DisplayInv, NoUseAfterDelete, QueueInit
<1> QED
  BY <1>1, <1>4, <1>5 DEF ChatBoxInv

LEMMA ChatBoxStep == ChatBoxInv /\ [Next]_vars => ChatBoxInv'
<1> SUFFICES ASSUME ChatBoxInv, [Next]_vars PROVE ChatBoxInv'
  OBVIOUS
<1>1. TypeOK /\ QueueInv /\ NothingVanishes /\ DisplayInv /\ NoUseAfterDelete
  BY DEF ChatBoxInv
<1>2. QueueInv'
  BY <1>1, NextIsQueueStep, QueueInvStep
<1>3. DisplayInv' /\ NoUseAfterDelete' /\ NothingVanishes'
  BY <1>1, StepDisplay, StepNoUse, StepOwed
<1>4. ThreadTypes' /\ TextTypes' /\ OscTypes'
  BY <1>1, TypeParts, StepThreadTypes, StepTextTypes, StepOscTypes
<1>5. QueueTypeOK'
  BY <1>2 DEF QueueInv
<1>6. (display \in Text \cup {Blank})'
  BY <1>3, <1>5 DEF DisplayInv, QueueTypeOK
<1>7. TypeOK'
  BY <1>4, <1>5, <1>6, TypeParts DEF TypeOK, ThreadTypes, TextTypes, OscTypes
<1> QED
  BY <1>2, <1>3, <1>7 DEF ChatBoxInv

\* In every reachable state of the ChatBox side the invariant holds.
THEOREM ChatBoxInvariance == Spec => []ChatBoxInv
BY ChatBoxInit, ChatBoxStep, PTL DEF Spec

\* The state of main's ChatBox threads, of the formatter and of the OSC sender
\* stays in its ranges.
THEOREM ChatBoxTypeCorrect == Spec => []TypeOK
<1>1. ChatBoxInv => TypeOK
  BY DEF ChatBoxInv
<1> QED
  BY <1>1, ChatBoxInvariance, PTL

\* No text the formatter let pass is lost between sendChatBoxText and the
\* ChatBox, however sends fail and calls interleave.
THEOREM ChatBoxLosesNothing == Spec => []NothingVanishes
<1>1. ChatBoxInv => NothingVanishes
  BY DEF ChatBoxInv
<1> QED
  BY <1>1, ChatBoxInvariance, PTL

\* The ChatBox shows what the status page reports as sent last, or nothing.
THEOREM ChatBoxDisplayReported == Spec => []DisplayMatchesReport
<1>1. ChatBoxInv => DisplayMatchesReport
  BY DEF ChatBoxInv, DisplayInv, DisplayMatchesReport
<1> QED
  BY <1>1, ChatBoxInvariance, PTL

\* stopChatBoxQueue deletes the queue when no thread is in it, and none
\* enters it later.
THEOREM ChatBoxDeletesUnused == Spec => []NoUseAfterDelete
<1>1. ChatBoxInv => NoUseAfterDelete
  BY DEF ChatBoxInv
<1> QED
  BY <1>1, ChatBoxInvariance, PTL

\* What the queue promises it also keeps under the callers of this program:
\* no text waits twice or waits while it is remembered, a text that is being
\* sent stays at the front, and texts are delivered in the order in which they
\* were accepted, whatever the threads, the user and the shutdown do.
THEOREM ChatBoxKeepsQueue == Spec => [](NoDuplicates /\ SendsTheFront)
<1>1. ChatBoxInv => NoDuplicates /\ SendsTheFront
  BY DEF ChatBoxInv, QueueInv
<1> QED
  BY <1>1, ChatBoxInvariance, PTL

THEOREM ChatBoxKeepsContract == Spec => RefinesContract
<1>1. Init => Contract!CInit
  BY DEF Init, QueueInit, Contract!CInit
<1>2. ChatBoxInv /\ [Next]_vars => [Contract!CNext]_(Contract!cvars)
  <2>1. ChatBoxInv => TypeOK /\ QueueInv
    BY DEF ChatBoxInv
  <2> QED
    BY <2>1, NextIsQueueStep, QueueStepRefines
<1> QED
  BY <1>1, <1>2, ChatBoxInvariance, PTL DEF Spec, RefinesContract, Contract!CSpec


=============================================================================
