----------------------------- MODULE ChatBoxQueue -----------------------------
(***************************************************************************)
(* stt::ChatBoxQueue (src/pc/chatbox_queue.cpp): the rate-limited,         *)
(* duplicate-suppressing queue between the recognised texts and VRChat's   *)
(* ChatBox.                                                                *)
(*                                                                         *)
(* Every caller holds g_chatboxQueueMutex during a whole call, so calls do *)
(* not interleave; but time passes inside one.  A call that is not a       *)
(* single step is therefore split where that matters: enqueue examines one *)
(* text per step (batch holds the texts still to be examined), and tick    *)
(* reads the clock in TickStart, calls the send function, and books the    *)
(* result in TickEnd.  The mutex is free when batch and call are empty.    *)
(*                                                                         *)
(* Absolute times are kept as distances from now, saturated where no test  *)
(* can tell them apart any more: this keeps the model finite although time *)
(* never stops.                                                            *)
(*     sinceLast = now - m_lastSendMs,  clearIn = m_clearDueMs - now.      *)
(* The counters and the error text of the snapshot, which no test of the   *)
(* code reads, are left out.                                               *)
(***************************************************************************)
EXTENDS Integers, SequencesExt

CONSTANTS Text,         \* the messages
          Blank,        \* the empty message, which blanks the ChatBox
          NoCall,       \* no send call is under way
          Interval,     \* m_intervalMs
          ClearDelay,   \* m_autoClearDelayMs, 0 when texts stay
          RecentLimit,  \* how many sent texts m_recent holds
          Batches,      \* the vectors of texts given to enqueue
          MaxPending    \* bound of the model: longest m_pending

ASSUME QueueAssumption ==
    /\ Blank \notin Text /\ NoCall \notin Text /\ Blank # NoCall
    /\ Interval \in Nat \ {0}
    /\ ClearDelay \in Nat
    /\ RecentLimit \in Nat \ {0}
    /\ MaxPending \in Nat
    /\ Batches \subseteq Seq(Text \cup {Blank})

VARIABLES pending,    \* m_pending
          recent,     \* m_recent
          sinceLast,  \* the age of m_lastSendMs, at most Interval
          clearIn,    \* what is left until m_clearDueMs, NoClear for -1
          paused,     \* m_snapshot.paused
          lastSent,   \* m_snapshot.last_sent_text
          batch,      \* texts the enqueue under way has still to examine
          call,       \* what the tick under way gave to m_sendFn
          callAge     \* the age of that tick's nowMs

qvars == <<pending, recent, sinceLast, clearIn, paused, lastSent,
           batch, call, callAge>>

NoClear == -1
AgeLimit == IF ClearDelay < Interval THEN Interval ELSE ClearDelay

\* An age one unit of time later, saturated.
Older(age, limit) == IF age < limit THEN age + 1 ELSE age

\* g_chatboxQueueMutex is free.
Free == batch = <<>> /\ call = NoCall

QueueTypeOK ==
    /\ pending \in Seq(Text)
    /\ recent \in Seq(Text)
    /\ sinceLast \in 0..Interval
    /\ clearIn \in {NoClear} \cup 0..ClearDelay
    /\ paused \in BOOLEAN
    /\ lastSent \in Text \cup {Blank}
    /\ batch \in Seq(Text \cup {Blank})
    /\ call \in Text \cup {Blank, NoCall}
    /\ callAge \in 0..AgeLimit

\* m_lastSendMs starts in the past: the first text is not delayed.
QueueInit ==
    /\ pending = <<>>
    /\ recent = <<>>
    /\ sinceLast = Interval
    /\ clearIn = NoClear
    /\ paused = FALSE
    /\ lastSent = Blank
    /\ batch = <<>>
    /\ call = NoCall
    /\ callAge = 0

-----------------------------------------------------------------------------
\* enqueue(texts): the call, then one step per text.
Enqueue(texts) ==
    /\ Free
    /\ Len(pending) + Len(texts) <= MaxPending
    /\ batch' = texts
    /\ UNCHANGED <<pending, recent, sinceLast, clearIn, paused, lastSent,
                   call, callAge>>

\* An empty text is ignored, one that was sent lately or waits is skipped.
UnwantedIfSent(t) == t = Blank \/ t \in Range(recent)    \* mutant
Unwanted(t) == t = Blank \/ t \in Range(recent) \/ t \in Range(pending)

EnqueueOne ==
    /\ batch # <<>>
    /\ batch' = Tail(batch)
    /\ pending' = IF Unwanted(Head(batch))
                  THEN pending
                  ELSE Append(pending, Head(batch))
    /\ UNCHANGED <<recent, sinceLast, clearIn, paused, lastSent,
                   call, callAge>>

\* Mutant: without the mutex.
ClearUnlocked ==
    /\ pending' = <<>>
    /\ clearIn' = NoClear
    /\ UNCHANGED <<recent, sinceLast, paused, lastSent, batch, call, callAge>>

\* clear(): the waiting texts go, and so does the automatic blanking.
Clear ==
    /\ Free
    /\ pending' = <<>>
    /\ clearIn' = NoClear
    /\ UNCHANGED <<recent, sinceLast, paused, lastSent, batch, call, callAge>>

SetPaused(p) ==
    /\ Free
    /\ paused' = p
    /\ UNCHANGED <<pending, recent, sinceLast, clearIn, lastSent, batch,
                   call, callAge>>

-----------------------------------------------------------------------------
\* tick(), up to the call of m_sendFn.  A tick that does not get there
\* (paused, nothing due, too early) changes nothing but the snapshot.
DueTextOnly ==    \* mutant: the blanking is never looked for
    IF pending = <<>> \/ sinceLast < Interval THEN NoCall ELSE Head(pending)
Due ==
    IF pending = <<>>
    THEN IF clearIn = 0 THEN Blank ELSE NoCall
    ELSE IF sinceLast < Interval THEN NoCall ELSE Head(pending)

TickStart ==
    /\ Free
    /\ ~paused
    /\ Due # NoCall
    /\ call' = Due
    /\ callAge' = 0
    /\ UNCHANGED <<pending, recent, sinceLast, clearIn, paused, lastSent,
                   batch>>

\* Mutant: the limit is looked at before the text is added.
RememberOneMore(t) ==
    recent' = IF Len(recent) <= RecentLimit
              THEN Append(recent, t)
              ELSE Tail(Append(recent, t))

\* remember(text)
Remember(t) ==
    recent' = IF Len(recent) < RecentLimit
              THEN Append(recent, t)
              ELSE Tail(Append(recent, t))

\* The automatic blanking is due ClearDelay after the time tick read.
DueAgain ==
    IF ClearDelay = 0 THEN NoClear
    ELSE IF callAge < ClearDelay THEN ClearDelay - callAge ELSE 0

SentBlank ==
    /\ call = Blank
    /\ clearIn' = NoClear
    /\ lastSent' = Blank
    /\ UNCHANGED <<pending, recent>>

SentText ==
    /\ call \in Text
    /\ pending' = Tail(pending)
    /\ Remember(call)
    /\ clearIn' = DueAgain
    /\ lastSent' = call

\* tick() after m_sendFn returned ok: a failed send leaves the queue as it
\* was and is tried again by the next tick.
TickEnd(ok) ==
    /\ call # NoCall
    /\ \/ ok /\ (SentBlank \/ SentText)
             /\ sinceLast' = IF callAge < Interval THEN callAge ELSE Interval
       \/ ~ok /\ UNCHANGED <<pending, recent, sinceLast, clearIn, lastSent>>
    /\ call' = NoCall
    /\ callAge' = 0
    /\ UNCHANGED <<paused, batch>>

\* m_clockFn: one unit of time passes.
Elapse ==
    /\ sinceLast' = Older(sinceLast, Interval)
    /\ clearIn' = IF clearIn > 0 THEN clearIn - 1 ELSE clearIn
    /\ callAge' = IF call = NoCall THEN callAge ELSE Older(callAge, AgeLimit)
    /\ UNCHANGED <<pending, recent, paused, lastSent, batch, call>>

QueueNext ==
    \/ \E texts \in Batches : Enqueue(texts)
    \/ EnqueueOne
    \/ Clear
    \/ \E p \in BOOLEAN : SetPaused(p)
    \/ TickStart
    \/ \E ok \in BOOLEAN : TickEnd(ok)
    \/ Elapse

\* The queue thread ticks for ever, and since texts arrive at the rate of
\* speech it is not denied the mutex for ever; time goes on; and a send that
\* is tried again and again succeeds.
QueueFairness ==
    /\ WF_qvars(EnqueueOne)
    /\ SF_qvars(TickStart)
    /\ SF_qvars(TickEnd(TRUE))
    /\ WF_qvars(\E ok \in BOOLEAN : TickEnd(ok))
    /\ WF_qvars(Elapse)

QueueSpec == QueueInit /\ [][QueueNext]_qvars
FairQueueSpec == QueueSpec /\ QueueFairness

-----------------------------------------------------------------------------
(* Properties *)

\* No text waits twice, none is remembered twice, and no waiting text was
\* sent lately: duplicates are only looked for in enqueue, yet a text may wait
\* there while others are sent and remembered.
NoDuplicates ==
    /\ IsInjective(pending)
    /\ IsInjective(recent)
    /\ Range(pending) \cap Range(recent) = {}

\* The text a tick is sending is still at the front of the queue when the
\* send function returns, and a blank is only sent past an empty queue, so a
\* success removes the text that was sent and blanking never hides one.
SendsTheFront ==
    /\ call \in Text => pending # <<>> /\ Head(pending) = call
    /\ call = Blank => pending = <<>> /\ clearIn = 0

\* Texts are delivered in order and not again while remembered, whatever
\* fails, is paused or cleared in between.
Contract == INSTANCE ChatBoxContract
                WITH Window <- RecentLimit,
                     waiting <- pending, delivered <- recent
RefinesContract == Contract!CSpec

\* A displayed text with a blanking ahead of it does not stay for ever.
Blanked ==
    \A t \in Text :
        (lastSent = t /\ clearIn # NoClear)
            ~> (lastSent # t \/ clearIn = NoClear \/ paused)

=============================================================================
