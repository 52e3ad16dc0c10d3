-------------------------------- MODULE Outbox --------------------------------
(***************************************************************************)
(* The durable send queue (outbox/outbox.go, outbox/worker.go,             *)
(* storage/outbox.go), the one worker that drains it, what the user does   *)
(* to it, and the sync it shares syncMu with: a sync stands aside between  *)
(* batches while the queue is not empty (sync.go yield), and the worker    *)
(* takes syncMu to file a sent message (bind_sync.go appendToSent).        *)
(*                                                                         *)
(* The table keeps one row per message.  Its id is an INTEGER PRIMARY KEY, *)
(* so sqlite gives a new row the highest id plus one, and ids come back    *)
(* when the newest rows are deleted.                                       *)
(***************************************************************************)
EXTENDS Integers, FiniteSets, FiniteSetsExt

CONSTANTS
  Msg,          \* the messages the user writes
  NoMsg, NoRow, \* neither a message nor a row
  MaxAttempts,  \* MaxAttempts of outbox.go
  Batches,      \* bound: bodies a sync has to download, in batches
  Crashes,      \* bound: how often the app goes down
  StoreFaults,  \* bound: how often writing an outcome fails
  LostReplies   \* bound: how often a server takes a message and the reply is lost

State == {"queued", "sending", "sent", "failed"}

\* due: next_attempt_at has passed.
Row == [id : Nat \ {0}, state : State, attempts : Nat, due : BOOLEAN]

ASSUME QueueAssumption ==
  /\ IsFiniteSet(Msg) /\ NoMsg \notin Msg /\ NoRow \notin Row
  /\ MaxAttempts \in Nat \ {0}
  /\ Batches \in Nat /\ Crashes \in Nat /\ StoreFaults \in Nat /\ LostReplies \in Nat

VARIABLES
  rows,      \* the outbox table, by message
  worker,    \* what the worker does, and the message it claimed; "down" until
             \* the app has started it
  syncMu,    \* who holds it
  sync,      \* batches the running sync has left, NoSync when none runs
  held,      \* the id of each message the ui holds on to, 0 for none
  budget,
  (* history, read by no action *)
  asked,     \* messages the user pressed send on
  removed,   \* messages a cancel or a discard meant for them removed
  undone,    \* messages the user was told were pulled back
  sent,      \* how often each message reached its recipients
  unclear,   \* messages whose acceptance the queue never got to know
  stranded   \* messages whose outcome could not be written

lock    == <<syncMu, sync>>
history == <<asked, removed, undone, sent, unclear, stranded>>
vars    == <<rows, worker, lock, held, budget, history>>

NoSync == -1

Step == {"down", "poll", "transmit", "append", "accepted", "rejected"}

TypeOK ==
  /\ rows \in [Msg -> Row \cup {NoRow}]
  /\ \A m \in Msg : rows[m] # NoRow => rows[m].attempts <= MaxAttempts
  /\ worker \in [at : Step, msg : Msg \cup {NoMsg}, id : Nat, attempts : Nat]
  /\ syncMu \in {"free", "sync"}
  /\ sync \in Nat \cup {NoSync}
  /\ held \in [Msg -> Nat]
  /\ budget \in [crash : Nat, store : Nat, reply : Nat]
  /\ asked \in SUBSET Msg /\ removed \in SUBSET Msg /\ undone \in SUBSET Msg
  /\ unclear \in SUBSET Msg /\ stranded \in SUBSET Msg
  /\ sent \in [Msg -> Nat]

Idle(at) == [at |-> at, msg |-> NoMsg, id |-> 0, attempts |-> 0]

Init ==
  /\ rows = [m \in Msg |-> NoRow]
  /\ worker = Idle("down")
  /\ syncMu = "free" /\ sync = NoSync
  /\ held = [m \in Msg |-> 0]
  /\ budget = [crash |-> Crashes, store |-> StoreFaults, reply |-> LostReplies]
  /\ asked = {} /\ removed = {} /\ undone = {} /\ unclear = {} /\ stranded = {}
  /\ sent = [m \in Msg |-> 0]

-----------------------------------------------------------------------------
(* The table *)

InState(states) == {m \in Msg : rows[m] # NoRow /\ rows[m].state \in states}

WithId(id) == {m \in Msg : rows[m] # NoRow /\ rows[m].id = id}

FreshId == Max({0} \cup {rows[m].id : m \in {n \in Msg : rows[n] # NoRow}}) + 1

\* UPDATE ... SET: state, attempts and next_attempt_at of the rows of ms.
Update(ms, state, attempts, due) ==
  rows' = [m \in Msg |->
    IF m \in ms THEN [rows[m] EXCEPT !.state = state, !.attempts = attempts, !.due = due]
                ELSE rows[m]]

Delete(ms) == rows' = [m \in Msg |-> IF m \in ms THEN NoRow ELSE rows[m]]

\* CountOutboxInStates: a row held back for later counts too.
Pending == InState({"queued", "sending"}) # {}

-----------------------------------------------------------------------------
(* The user *)

\* Enqueue: due now, or held back by the undo delay or a chosen time, with a
\* toast that can undo it.
SendMessage(m, delayed) ==
  /\ m \notin asked
  /\ rows' = [rows EXCEPT ![m] =
       [id |-> FreshId, state |-> "queued", attempts |-> 0, due |-> ~delayed]]
  /\ held' = IF delayed THEN [held EXCEPT ![m] = FreshId] ELSE held
  /\ asked' = asked \cup {m}
  /\ UNCHANGED <<worker, lock, budget, removed, undone, sent, unclear, stranded>>

\* loadOutbox: the panel offers to cancel what is held back, and to retry or
\* discard what failed.
Show(m) ==
  /\ held[m] = 0
  /\ m \in InState({"failed"}) \/ (m \in InState({"queued"}) /\ ~rows[m].due)
  /\ held' = [held EXCEPT ![m] = rows[m].id]
  /\ UNCHANGED <<rows, worker, lock, budget, history>>

\* The ui hears that the row is gone: the panel reloads, the undo toast closes.
LetGo(m) ==
  /\ held[m] # 0 /\ m \notin WithId(held[m])
  /\ held' = [held EXCEPT ![m] = 0]
  /\ UNCHANGED <<rows, worker, lock, budget, history>>

\* A cancel that takes the row whatever state it is in.
CancelAnyState(m) ==
  LET ms == WithId(held[m])
  IN  /\ held[m] # 0 /\ ms # {}
      /\ Delete(ms)
      /\ removed' = removed \cup (ms \cap {m})
      /\ undone' = undone \cup {m}
      /\ held' = [held EXCEPT ![m] = 0]
      /\ UNCHANGED <<worker, lock, budget, asked, sent, unclear, stranded>>

\* Undo and the outbox panel: the row with the id the ui holds, while queued, whichever
\* message has that id by now.  It is m the user takes back.
Cancel(m) ==
  LET ms == WithId(held[m]) \cap InState({"queued"})
  IN  /\ held[m] # 0 /\ ms # {}
      /\ Delete(ms)
      /\ removed' = removed \cup (ms \cap {m})
      /\ undone' = undone \cup {m}
      /\ held' = [held EXCEPT ![m] = 0]
      /\ UNCHANGED <<worker, lock, budget, asked, sent, unclear, stranded>>

Discard(m) ==
  LET ms == WithId(held[m]) \cap InState({"failed"})
  IN  /\ held[m] # 0 /\ ms # {}
      /\ Delete(ms)
      /\ removed' = removed \cup (ms \cap {m})
      /\ held' = [held EXCEPT ![m] = 0]
      /\ UNCHANGED <<worker, lock, budget, asked, undone, sent, unclear, stranded>>

\* A retry that does not look whether the row is still failed.
RetryAnyState(m) ==
  LET ms == WithId(held[m])
  IN  /\ held[m] # 0 /\ ms # {}
      /\ Update(ms, "queued", 0, TRUE)
      /\ UNCHANGED <<worker, lock, held, budget, history>>

Retry(m) ==
  LET ms == WithId(held[m]) \cap InState({"failed"})
  IN  /\ held[m] # 0 /\ ms # {}
      /\ Update(ms, "queued", 0, TRUE)
      /\ UNCHANGED <<worker, lock, held, budget, history>>

\* loadOutbox saw a sent row and calls ClearSentOutbox.
PruneSent ==
  /\ InState({"sent"}) # {}
  /\ Delete(InState({"sent"}))
  /\ UNCHANGED <<worker, lock, held, budget, history>>

\* next_attempt_at passes.
BecomeDue(m) ==
  /\ m \in InState({"queued"}) /\ ~rows[m].due
  /\ rows' = [rows EXCEPT ![m].due = TRUE]
  /\ UNCHANGED <<worker, lock, held, budget, history>>

-----------------------------------------------------------------------------
(* The worker *)

StoreFault == budget.store > 0 /\ budget' = [budget EXCEPT !.store = @ - 1]

\* A worker that leaves what the last run had claimed as it is.
StartAfresh ==
  /\ worker.at = "down"
  /\ worker' = Idle("poll")
  /\ stranded' = {}
  /\ UNCHANGED <<rows, lock, held, budget, asked, removed, undone, sent, unclear>>

\* RequeueStuck, which runOutboxWorker and Run both call.
Start ==
  /\ worker.at = "down"
  /\ worker' = Idle("poll")
  /\ \/ /\ rows' = [m \in Msg |-> IF m \in InState({"sending"})
                                    THEN [rows[m] EXCEPT !.state = "queued"] ELSE rows[m]]
        /\ stranded' = {}
        /\ UNCHANGED budget
     \/ /\ StoreFault
        /\ stranded' = InState({"sending"})
        /\ UNCHANGED rows
  /\ UNCHANGED <<lock, held, asked, removed, undone, sent, unclear>>

\* claimDue: the due row with the lowest id, in one transaction.
Claim(m) ==
  /\ worker.at = "poll"
  /\ m \in InState({"queued"}) /\ rows[m].due
  /\ \A n \in InState({"queued"}) : rows[n].due => rows[m].id <= rows[n].id
  /\ rows' = [rows EXCEPT ![m].state = "sending"]
  /\ worker' = [at |-> "transmit", msg |-> m, id |-> rows[m].id, attempts |-> rows[m].attempts]
  /\ UNCHANGED <<lock, held, budget, history>>

\* The server takes the message; filing the copy is skipped when the account's
\* imap settings do not resolve.
Accept ==
  /\ worker.at = "transmit"
  /\ sent' = [sent EXCEPT ![worker.msg] = @ + 1]
  /\ \E at \in {"append", "accepted"} : worker' = [worker EXCEPT !.at = at]
  /\ UNCHANGED <<rows, lock, held, budget, asked, removed, undone, unclear, stranded>>

\* No account, no credentials, no connection, or the server says no.
Reject ==
  /\ worker.at = "transmit"
  /\ worker' = [worker EXCEPT !.at = "rejected"]
  /\ UNCHANGED <<rows, lock, held, budget, history>>

\* The connection breaks after the server took the message.
LoseReply ==
  /\ worker.at = "transmit"
  /\ budget.reply > 0 /\ budget' = [budget EXCEPT !.reply = @ - 1]
  /\ sent' = [sent EXCEPT ![worker.msg] = @ + 1]
  /\ unclear' = unclear \cup {worker.msg}
  /\ worker' = [worker EXCEPT !.at = "rejected"]
  /\ UNCHANGED <<rows, lock, held, asked, removed, undone, stranded>>

\* The append, under syncMu from beginning to end; its failure changes nothing.
AppendToSent ==
  /\ worker.at = "append" /\ syncMu = "free"
  /\ worker' = [worker EXCEPT !.at = "accepted"]
  /\ UNCHANGED <<rows, lock, held, budget, history>>

MarkSent ==
  /\ worker.at = "accepted"
  /\ Update(WithId(worker.id), "sent", 0, TRUE)
  /\ worker' = Idle("poll")
  /\ UNCHANGED <<lock, held, budget, history>>

\* One attempt more than MaxAttempts.
MarkAttemptFailedLate ==
  /\ worker.at = "rejected"
  /\ LET attempts == worker.attempts + 1
     IN  IF attempts > MaxAttempts
           THEN Update(WithId(worker.id), "failed", attempts, TRUE)
           ELSE Update(WithId(worker.id), "queued", attempts, FALSE)
  /\ worker' = Idle("poll")
  /\ UNCHANGED <<lock, held, budget, history>>

MarkAttemptFailed ==
  /\ worker.at = "rejected"
  /\ LET attempts == worker.attempts + 1
     IN  IF attempts >= MaxAttempts
           THEN Update(WithId(worker.id), "failed", attempts, TRUE)
           ELSE Update(WithId(worker.id), "queued", attempts, FALSE)
  /\ worker' = Idle("poll")
  /\ UNCHANGED <<lock, held, budget, history>>

\* process logs an outcome it cannot write and goes on to the next message.
MarkFails ==
  /\ worker.at \in {"accepted", "rejected"}
  /\ StoreFault
  /\ unclear' = IF worker.at = "accepted" THEN unclear \cup {worker.msg} ELSE unclear
  /\ stranded' = stranded \cup {worker.msg}
  /\ worker' = Idle("poll")
  /\ UNCHANGED <<rows, lock, held, asked, removed, undone, sent>>

-----------------------------------------------------------------------------
(* A sync *)

BeginSync ==
  /\ syncMu = "free"
  /\ syncMu' = "sync" /\ sync' = Batches
  /\ UNCHANGED <<rows, worker, held, budget, history>>

\* fetchNew: yield, then a batch, which may be the last one a failure allows.
FetchBatch ==
  /\ sync > 0 /\ ~Pending
  /\ sync' \in {sync - 1, 0}
  /\ UNCHANGED <<rows, worker, syncMu, held, budget, history>>

EndSync ==
  /\ sync = 0
  /\ syncMu' = "free" /\ sync' = NoSync
  /\ UNCHANGED <<rows, worker, held, budget, history>>

\* The app goes down, by a crash or because it was quit: only the table stays.
Crash ==
  /\ worker.at # "down"
  /\ budget.crash > 0 /\ budget' = [budget EXCEPT !.crash = @ - 1]
  /\ unclear' = IF worker.at \in {"append", "accepted"}
                  THEN unclear \cup {worker.msg} ELSE unclear
  /\ worker' = Idle("down")
  /\ syncMu' = "free" /\ sync' = NoSync
  /\ held' = [m \in Msg |-> 0]
  /\ UNCHANGED <<rows, asked, removed, undone, sent, stranded>>

-----------------------------------------------------------------------------
User == \E m \in Msg :
  \/ \E delayed \in BOOLEAN : SendMessage(m, delayed)
  \/ Show(m) \/ LetGo(m) \/ Cancel(m) \/ Discard(m) \/ Retry(m)

Outcome == MarkSent \/ MarkAttemptFailed \/ MarkFails

Next ==
  \/ User \/ PruneSent \/ \E m \in Msg : BecomeDue(m)
  \/ Start \/ (\E m \in Msg : Claim(m)) \/ Accept \/ Reject \/ LoseReply
  \/ AppendToSent \/ Outcome
  \/ BeginSync \/ FetchBatch \/ EndSync
  \/ Crash

Spec == Init /\ [][Next]_vars

\* Time passes, an app that went down is started again, the worker and a sync
\* go on when they can, and a transmission ends one way or the other.  A due
\* row is not passed over for ever by one that keeps failing, whose backoff is
\* longer than DrainOnce takes to come round; a mutex is not withheld for ever
\* from one that waits for it (sync.Mutex hands it over after a millisecond).
FairSpec ==
  /\ Spec
  /\ \A m \in Msg : WF_vars(BecomeDue(m))
  /\ WF_vars(Start)
  /\ \A m \in Msg : SF_vars(Claim(m))
  /\ WF_vars(Accept \/ Reject \/ LoseReply)
  /\ SF_vars(AppendToSent)
  /\ WF_vars(Outcome)
  /\ WF_vars(FetchBatch)
  /\ WF_vars(EndSync)

-----------------------------------------------------------------------------
(* A message reaches its recipients once, unless the queue could not get    *)
(* to know that it had: the reply, the outcome's write or the process was   *)
(* lost (the "not twice" of a durable queue, over retries by the worker and *)
(* by the user, restarts, and ids that sqlite hands out again).             *)
SentOnceUnlessUnclear == \A m \in Msg : sent[m] > 1 => m \in unclear

\* Where SendQueue has a message, and "lost" for one that is out of the queue although
\* it was neither sent nor taken back: SendQueue knows no such status.
StatusOf(m) ==
  IF m \notin asked THEN "unsent"
  ELSE IF sent[m] > 0 THEN "delivered"
  ELSE IF m \in InState({"queued", "sending"}) THEN "waiting"
  ELSE IF m \in InState({"failed"}) THEN "refused"
  ELSE IF m \in removed THEN "withdrawn" ELSE "lost"

Statuses == [m \in Msg |-> StatusOf(m)]

Queue == INSTANCE SendQueue WITH status <- Statuses

\* An undo or a discard for m, which has left the queue, finds the id of its row with
\* another message n: that one is gone, and nobody took it back.
TakesAnother ==
  \E m, n \in Msg :
    /\ m # n /\ held[m] # 0 /\ n \in WithId(held[m])
    /\ StatusOf(m) \in {"delivered", "lost"}
    /\ StatusOf(n) \in {"waiting", "refused"}
    /\ Statuses' = [Statuses EXCEPT ![n] = "lost"]

(* The outbox implements SendQueue: over everything the user, the worker    *)
(* and a failing machine do, no message leaves the queue that was not sent  *)
(* or taken back, and one taken back is never transmitted afterwards.  One  *)
(* kind of step breaks the promise, and only that kind: an undo for a       *)
(* message sent long ago that finds its id given to another one             *)
(* (storage/outbox.go:160; UndoneIsNotSent is the run that shows it).       *)
ImplementsSendQueue == Queue!Init /\ [][Queue!Next \/ TakesAnother]_Statuses

Settled(m) == m \notin InState({"queued", "sending"})

\* The worker waits for syncMu to file the message it sent, and the sync that
\* holds it waits for that message to be out of the queue.
Entangled == worker.at = "append" /\ sync > 0

(* Every message the user sent comes to an end, delivered, failed or taken  *)
(* back, over and over when it is retried; but for the two ways the code    *)
(* leaves one half sent: the entanglement, and an outcome that could not be *)
(* written, which only a restart repairs.                                   *)
HeldUpOnlyByKnownCauses ==
  \A m \in Msg : []<>(Settled(m) \/ Entangled \/ m \in stranded)

(* bind_sync.go says of the worker filing a sent message that "a send       *)
(* during a sync waits its turn", and of the sync that "a message the user  *)
(* pressed send on goes out during a sync, not after it": either way the    *)
(* send comes to an end.                                                    *)
EverySendEnds == \A m \in Msg : []<>Settled(m)

(* "Once the worker has claimed it for sending it cannot be recalled"       *)
(* (CancelSend): a message the user was told is back as a draft has not     *)
(* been sent.                                                               *)
UndoneIsNotSent == \A m \in undone : sent[m] = 0

=============================================================================
