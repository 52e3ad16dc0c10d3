----------------------------- MODULE OutboxProofs -----------------------------
(***************************************************************************)
(* Proofs about Outbox for every finite set of messages, every number of   *)
(* attempts and every number of crashes, failed writes and lost replies:   *)
(* its types, that a message is sent once unless the queue could not know, *)
(* and that the outbox implements SendQueue.                               *)
(***************************************************************************)
EXTENDS Outbox, NaturalLemmas

\* Ids are a primary key.
UniqueIds ==
  \A m, n \in Msg :
    rows[m] # NoRow /\ rows[n] # NoRow /\ rows[m].id = rows[n].id => m = n

\* The row the worker claimed is there, under the id it claimed, in sending;
\* nobody else takes a row out of that state.
WorkerHoldsRow ==
  worker.at \notin {"down", "poll"} =>
    /\ worker.msg \in Msg
    /\ rows[worker.msg] # NoRow
    /\ rows[worker.msg].state = "sending"
    /\ rows[worker.msg].id = worker.id
    /\ worker.attempts < MaxAttempts

AttemptsLeft ==
  \A m \in InState({"queued", "sending"}) : rows[m].attempts < MaxAttempts

\* The id the ui holds for a message is the id of its row, as long as it has one, and
\* what was taken back has none.
HeldIsOwn ==
  /\ \A m \in Msg : held[m] # 0 /\ rows[m] # NoRow => rows[m].id = held[m]
  /\ \A m \in Msg : held[m] # 0 => m \in asked
  /\ \A m \in removed : rows[m] = NoRow /\ held[m] = 0

\* Where a message is that the user pressed send on.
Accounted ==
  /\ \A m \in Msg : rows[m] # NoRow => m \in asked
  /\ \A m \in Msg : m \notin asked => sent[m] = 0
  /\ \A m \in removed : m \in asked
  /\ \A m \in InState({"sent"}) : sent[m] > 0
  /\ worker.at \in {"append", "accepted"} => sent[worker.msg] > 0

\* A message known to have been sent once is not in the way of another claim.
Counted ==
  \A m \in Msg \ unclear :
    /\ sent[m] <= 1
    /\ sent[m] = 1 /\ rows[m] # NoRow =>
         rows[m].state = "sent" \/ (worker.at \in {"append", "accepted"} /\ worker.msg = m)

IInv ==
  TypeOK /\ UniqueIds /\ WorkerHoldsRow /\ AttemptsLeft /\ HeldIsOwn /\ Accounted /\ Counted

-----------------------------------------------------------------------------
(* Facts the steps share *)

USE DEF lock

\* A new row's id is above every other.
LEMMA FreshIdIsFresh ==
  ASSUME TypeOK
  PROVE  /\ FreshId \in Nat \ {0}
         /\ \A m \in Msg : rows[m] # NoRow => rows[m].id < FreshId
<1> DEFINE ids == {0} \cup {rows[m].id : m \in {n \in Msg : rows[n] # NoRow}}
           f   == [m \in Msg |-> IF rows[m] = NoRow THEN 0 ELSE rows[m].id]
<1>1. f \in [Msg -> Nat]
  BY DEF TypeOK, Row
<1>2. PICK b \in Nat : \A m \in Msg : f[m] <= b
  <2> HIDE DEF f
  <2> QED BY <1>1, FiniteBounded, QueueAssumption
<1>3. \A m \in Msg : rows[m] # NoRow => rows[m].id \in Nat /\ rows[m].id <= b
  <2>1. SUFFICES ASSUME NEW m \in Msg, rows[m] # NoRow
                 PROVE  rows[m].id \in Nat /\ rows[m].id <= b
    OBVIOUS
  <2>2. f[m] = rows[m].id
    BY <2>1
  <2> QED BY <1>1, <1>2, <2>2
<1>4. ids \in SUBSET (0..b) /\ ids # {}
  BY <1>3
<1>5. Max(ids) \in ids /\ \A x \in ids : x <= Max(ids)
  <2> HIDE DEF ids
  <2> QED BY <1>4, MaxOfBounded
<1>6. Max(ids) \in Nat
  BY <1>4, <1>5
<1>7. \A m \in Msg : rows[m] # NoRow => rows[m].id <= Max(ids)
  BY <1>5
<1>8. FreshId = Max(ids) + 1
  BY DEF FreshId
<1> HIDE DEF ids
<1> QED BY <1>3, <1>6, <1>7, <1>8

\* The worker's writes, by id, reach the row it claimed and no other.
LEMMA WorkerWritesItsRow ==
  ASSUME UniqueIds, WorkerHoldsRow, worker.at \notin {"down", "poll"}
  PROVE  WithId(worker.id) = {worker.msg}
BY DEF UniqueIds, WorkerHoldsRow, WithId

\* The row with an id, if there is one.
LEMMA OneRowWithId ==
  ASSUME UniqueIds, NEW id, NEW m \in WithId(id)
  PROVE  WithId(id) = {m}
BY DEF UniqueIds, WithId

\* What an UPDATE leaves: the rows it names changed, each under its id.
LEMMA UpdateRows ==
  ASSUME TypeOK, NEW ms \in SUBSET Msg, \A m \in ms : rows[m] # NoRow,
         NEW state \in State, NEW attempts \in 0..MaxAttempts, NEW due \in BOOLEAN,
         Update(ms, state, attempts, due)
  PROVE  /\ rows' \in [Msg -> Row \cup {NoRow}]
         /\ \A m \in Msg : /\ rows'[m] # NoRow <=> rows[m] # NoRow
                           /\ rows[m] # NoRow => rows'[m].id = rows[m].id
         /\ \A m \in ms : rows'[m].state = state /\ rows'[m].attempts = attempts
         /\ \A m \in Msg \ ms : rows'[m] = rows[m]
<1>2. \A m \in ms : rows[m] \in Row
  BY DEF TypeOK
<1>1. \A m \in ms : [rows[m] EXCEPT !.state = state, !.attempts = attempts, !.due = due] \in Row
  <2>1. attempts \in Nat
    BY QueueAssumption
  <2> QED BY <1>2, <2>1 DEF Row
<1>3. \A m \in Msg : rows'[m] =
        IF m \in ms THEN [rows[m] EXCEPT !.state = state, !.attempts = attempts, !.due = due]
                    ELSE rows[m]
  BY DEF Update
<1>4. rows' \in [Msg -> Row \cup {NoRow}]
  BY <1>1, <1>3 DEF TypeOK, Update
<1>5. \A m \in ms : rows'[m] \in Row /\ rows'[m].id = rows[m].id
  BY <1>1, <1>2, <1>3 DEF Row
<1>6. \A m \in ms : rows'[m].state = state /\ rows'[m].attempts = attempts
  BY <1>2, <1>3 DEF Row
<1>7. \A m \in Msg \ ms : rows'[m] = rows[m]
  BY <1>3
<1>8. \A m \in Msg : /\ rows'[m] # NoRow <=> rows[m] # NoRow
                     /\ rows[m] # NoRow => rows'[m].id = rows[m].id
  <2>1. SUFFICES ASSUME NEW m \in Msg
                 PROVE  /\ rows'[m] # NoRow <=> rows[m] # NoRow
                        /\ rows[m] # NoRow => rows'[m].id = rows[m].id
    OBVIOUS
  <2>2. CASE m \in ms
    BY <1>5, <2>2, QueueAssumption
  <2>3. CASE m \notin ms
    BY <1>7, <2>3
  <2> QED BY <2>2, <2>3
<1> QED BY <1>4, <1>6, <1>7, <1>8

LEMMA InitInv == Init => IInv
BY QueueAssumption DEF Init, Idle, IInv, TypeOK, Step, NoSync, UniqueIds, WorkerHoldsRow, AttemptsLeft,
     HeldIsOwn, Accounted, Counted, InState

-----------------------------------------------------------------------------
(* The user *)

LEMMA SendMessageInv ==
  ASSUME IInv, NEW m \in Msg, NEW delayed \in BOOLEAN, SendMessage(m, delayed)
  PROVE  IInv'
<1>1. FreshId \in Nat \ {0} /\ \A n \in Msg : rows[n] # NoRow => rows[n].id < FreshId
  BY FreshIdIsFresh DEF IInv
<1>2. rows[m] = NoRow /\ sent[m] = 0 /\ m \notin removed
  BY DEF IInv, HeldIsOwn, Accounted, SendMessage
<1>3. PICK row \in Row : /\ rows' = [rows EXCEPT ![m] = row]
                         /\ row.id = FreshId /\ row.state = "queued" /\ row.attempts = 0
  <2>1. [id |-> FreshId, state |-> "queued", attempts |-> 0, due |-> ~delayed] \in Row
    BY <1>1 DEF Row, State
  <2> QED BY <2>1 DEF SendMessage
<1>4. row # NoRow
  BY <1>3, QueueAssumption
<1>5. TypeOK'
  BY <1>1, <1>3, QueueAssumption DEF IInv, TypeOK, SendMessage
<1>6. UniqueIds'
  BY <1>1, <1>3 DEF IInv, TypeOK, UniqueIds, Row
<1>7. WorkerHoldsRow'
  BY <1>2, <1>3 DEF IInv, TypeOK, WorkerHoldsRow, SendMessage
<1>8. AttemptsLeft'
  BY <1>3, QueueAssumption DEF IInv, TypeOK, AttemptsLeft, InState
<1>9. Accounted'
  BY <1>2, <1>3, <1>4 DEF IInv, TypeOK, Accounted, InState, SendMessage
<1>10. Counted'
  BY <1>2, <1>3 DEF IInv, TypeOK, Counted, SendMessage
<1>11. HeldIsOwn'
  <2>1. held' \in [Msg -> Nat] /\ held'[m] \in {0, FreshId} /\ \A n \in Msg \ {m} : held'[n] = held[n]
    <3>1. held[m] = 0
      BY DEF IInv, HeldIsOwn, SendMessage
    <3> QED BY <1>1, <3>1 DEF IInv, TypeOK, SendMessage
  <2>2. rows'[m].id = FreshId /\ \A n \in Msg \ {m} : rows'[n] = rows[n]
    BY <1>3 DEF IInv, TypeOK
  <2>3. asked' = asked \cup {m} /\ removed' = removed /\ removed \in SUBSET Msg
    BY DEF SendMessage, IInv, TypeOK
  <2> QED BY <1>2, <2>1, <2>2, <2>3 DEF IInv, HeldIsOwn
<1> QED BY <1>5, <1>6, <1>7, <1>8, <1>9, <1>10, <1>11 DEF IInv

\* Showing a row and letting go of it only move ids into the ui and out of it.
LEMMA UiInv ==
  ASSUME IInv, NEW m \in Msg, Show(m) \/ LetGo(m)
  PROVE  IInv'
<1>1. held' \in [Msg -> Nat] /\ UNCHANGED <<rows, worker, lock, budget, history>>
  BY DEF IInv, TypeOK, Show, LetGo, InState, Row
<1>2. TypeOK'
  BY <1>1 DEF IInv, TypeOK, history
<1>3. UniqueIds' /\ WorkerHoldsRow' /\ AttemptsLeft' /\ Accounted' /\ Counted'
  BY <1>1 DEF IInv, history, UniqueIds, WorkerHoldsRow, AttemptsLeft, Accounted, Counted, InState
<1>4. HeldIsOwn'
  <2>1. \A n \in Msg \ {m} : held'[n] = held[n]
    BY DEF IInv, TypeOK, Show, LetGo
  <2>2. held'[m] = 0 \/ (rows[m] # NoRow /\ held'[m] = rows[m].id)
    BY DEF IInv, TypeOK, Show, LetGo, InState
  <2>3. removed \in SUBSET Msg
    BY DEF IInv, TypeOK
  <2> QED BY <1>1, <2>1, <2>2, <2>3 DEF IInv, HeldIsOwn, Accounted, history
<1> QED BY <1>2, <1>3, <1>4 DEF IInv

\* Once m has a row, the id held for m is no other message's.
LEMMA OwnRow ==
  ASSUME IInv, NEW m \in Msg, NEW n \in WithId(held[m]), n # m
  PROVE  rows[m] = NoRow
BY DEF IInv, UniqueIds, HeldIsOwn, WithId, TypeOK, Row

\* Rows the user takes out are none the worker holds.
LEMMA TakeOutInv ==
  ASSUME IInv, NEW m \in Msg, NEW ms \in SUBSET InState({"queued", "failed"}), Delete(ms),
         ms \subseteq WithId(held[m]), ms # {}, held[m] # 0,
         removed' = removed \cup (ms \cap {m}), undone' \in SUBSET Msg,
         held' = [held EXCEPT ![m] = 0],
         UNCHANGED <<worker, lock, budget, asked, sent, unclear, stranded>>
  PROVE  IInv'
<1>a. held' \in [Msg -> Nat] /\ held'[m] = 0 /\ \A n \in Msg \ {m} : held'[n] = held[n]
  BY DEF IInv, TypeOK
<1>b. rows[m] = NoRow \/ m \in ms
  BY OwnRow
<1>c. m \in asked
  BY DEF IInv, HeldIsOwn
<1>1. /\ ms \in SUBSET Msg
      /\ \A n \in ms : rows[n] # NoRow /\ rows[n].state \in {"queued", "failed"}
  BY DEF InState
<1>2. \A n \in Msg : rows'[n] = IF n \in ms THEN NoRow ELSE rows[n]
  BY DEF Delete
<1>3. TypeOK'
  BY <1>1, <1>2, <1>a DEF IInv, TypeOK, Delete
<1>4. UniqueIds'
  BY <1>2 DEF IInv, UniqueIds
<1>5. WorkerHoldsRow'
  BY <1>1, <1>2 DEF IInv, WorkerHoldsRow
<1>6. AttemptsLeft'
  BY <1>2 DEF IInv, AttemptsLeft, InState
<1>7. Accounted'
  BY <1>1, <1>2, <1>c DEF IInv, TypeOK, Accounted, InState
<1>8. Counted'
  BY <1>1, <1>2 DEF IInv, Counted
<1>9. HeldIsOwn'
  BY <1>1, <1>2, <1>a, <1>b DEF IInv, TypeOK, HeldIsOwn
<1> QED BY <1>3, <1>4, <1>5, <1>6, <1>7, <1>8, <1>9 DEF IInv

LEMMA CancelInv ==
  ASSUME IInv, NEW m \in Msg, Cancel(m)
  PROVE  IInv'
<1> DEFINE ms == WithId(held[m]) \cap InState({"queued"})
<1>1. ms \in SUBSET InState({"queued", "failed"})
  BY DEF InState
<1>2. undone' \in SUBSET Msg
  BY DEF IInv, TypeOK, Cancel
<1> QED BY <1>1, <1>2, TakeOutInv DEF Cancel

LEMMA DiscardInv ==
  ASSUME IInv, NEW m \in Msg, Discard(m)
  PROVE  IInv'
<1> DEFINE ms == WithId(held[m]) \cap InState({"failed"})
<1>1. ms \in SUBSET InState({"queued", "failed"})
  BY DEF InState
<1>2. undone' \in SUBSET Msg
  BY DEF IInv, TypeOK, Discard
<1> QED BY <1>1, <1>2, TakeOutInv DEF Discard

\* A failed message was never accepted, or the queue could not know.
LEMMA RetryInv ==
  ASSUME IInv, NEW m \in Msg, Retry(m)
  PROVE  IInv'
<1> DEFINE ms == WithId(held[m]) \cap InState({"failed"})
<1>1. /\ ms \in SUBSET Msg
      /\ \A n \in ms : rows[n] # NoRow /\ rows[n].state = "failed"
  BY DEF InState
<1>2. Update(ms, "queued", 0, TRUE) /\ UNCHANGED <<worker, lock, held, budget, history>>
  BY DEF Retry
<1> HIDE DEF ms
<1>a. "queued" \in State /\ 0 \in 0..MaxAttempts /\ TypeOK
  BY QueueAssumption DEF State, IInv
<1>3. /\ rows' \in [Msg -> Row \cup {NoRow}]
      /\ \A n \in Msg : /\ rows'[n] # NoRow <=> rows[n] # NoRow
                        /\ rows[n] # NoRow => rows'[n].id = rows[n].id
      /\ \A n \in ms : rows'[n].state = "queued" /\ rows'[n].attempts = 0
      /\ \A n \in Msg \ ms : rows'[n] = rows[n]
  BY <1>1, <1>2, <1>a, UpdateRows
<1>4. TypeOK'
  BY <1>1, <1>2, <1>3, QueueAssumption DEF IInv, TypeOK, history
<1>5. UniqueIds'
  <2>1. SUFFICES ASSUME NEW n \in Msg, NEW o \in Msg, rows'[n] # NoRow, rows'[o] # NoRow,
                        rows'[n].id = rows'[o].id
                 PROVE  n = o
    BY DEF UniqueIds
  <2>2. rows[n].id = rows[o].id /\ rows[n] # NoRow /\ rows[o] # NoRow
    BY <1>3, <2>1
  <2> QED BY <2>2 DEF IInv, UniqueIds
<1>6. WorkerHoldsRow'
  BY <1>1, <1>2, <1>3 DEF IInv, WorkerHoldsRow
<1>7. AttemptsLeft'
  BY <1>1, <1>3, QueueAssumption DEF IInv, AttemptsLeft, InState
<1>8. Accounted'
  <2>1. \A n \in Msg : rows'[n] # NoRow /\ rows'[n].state = "sent" =>
          rows[n] # NoRow /\ rows[n].state = "sent"
    BY <1>1, <1>3
  <2>2. \A n \in Msg : rows'[n] = NoRow <=> rows[n] = NoRow
    BY <1>3
  <2>3. removed \in SUBSET Msg /\ asked \in SUBSET Msg
    BY DEF IInv, TypeOK
  <2>4. UNCHANGED <<asked, removed, sent, worker>>
    BY <1>2 DEF history
  <2> QED BY <2>1, <2>2, <2>3, <2>4 DEF IInv, Accounted, InState
<1>9. Counted'
  BY <1>1, <1>2, <1>3 DEF IInv, Counted, history
<1>10. HeldIsOwn'
  BY <1>2, <1>3 DEF IInv, TypeOK, HeldIsOwn, history
<1> QED BY <1>4, <1>5, <1>6, <1>7, <1>8, <1>9, <1>10 DEF IInv

LEMMA PruneSentInv ==
  ASSUME IInv, PruneSent
  PROVE  IInv'
<1>1. \A m \in Msg : rows'[m] =
        IF rows[m] # NoRow /\ rows[m].state = "sent" THEN NoRow ELSE rows[m]
  BY DEF PruneSent, Delete, InState
<1>2. TypeOK'
  BY <1>1 DEF IInv, TypeOK, PruneSent, Delete, history
<1>3. UniqueIds'
  BY <1>1 DEF IInv, UniqueIds
<1>4. WorkerHoldsRow'
  BY <1>1 DEF IInv, WorkerHoldsRow, PruneSent
<1>5. AttemptsLeft'
  BY <1>1 DEF IInv, AttemptsLeft, InState
<1>6. Accounted'
  BY <1>1 DEF IInv, TypeOK, Accounted, InState, PruneSent, history
<1>7. Counted'
  BY <1>1 DEF IInv, Counted, PruneSent, history
<1>8. HeldIsOwn'
  BY <1>1 DEF IInv, TypeOK, HeldIsOwn, PruneSent, history
<1> QED BY <1>2, <1>3, <1>4, <1>5, <1>6, <1>7, <1>8 DEF IInv

LEMMA BecomeDueInv ==
  ASSUME IInv, NEW m \in Msg, BecomeDue(m)
  PROVE  IInv'
<1>1. PICK row \in Row : /\ rows' = [rows EXCEPT ![m] = row]
                         /\ row.id = rows[m].id /\ row.state = rows[m].state
                         /\ row.attempts = rows[m].attempts
  <2>1. [rows[m] EXCEPT !.due = TRUE] \in Row
    BY DEF BecomeDue, IInv, TypeOK, InState, Row
  <2> QED BY <2>1 DEF BecomeDue, IInv, TypeOK, InState, Row
<1>2. row # NoRow /\ rows[m] # NoRow
  BY QueueAssumption DEF BecomeDue, InState
<1>9. UNCHANGED <<worker, syncMu, sync, held, budget, history>>
  BY DEF BecomeDue
<1>3. TypeOK'
  <2>1. rows' \in [Msg -> Row \cup {NoRow}]
    BY <1>1 DEF IInv, TypeOK
  <2>2. \A n \in Msg : rows'[n] # NoRow => rows'[n].attempts <= MaxAttempts
    BY <1>1, <1>2 DEF IInv, TypeOK
  <2> QED BY <1>9, <2>1, <2>2 DEF IInv, TypeOK, history
<1>4. UniqueIds'
  BY <1>1, <1>2 DEF IInv, TypeOK, UniqueIds
<1>5. WorkerHoldsRow'
  BY <1>1, <1>2 DEF IInv, TypeOK, WorkerHoldsRow, BecomeDue
<1>6. AttemptsLeft'
  BY <1>1, <1>2 DEF IInv, TypeOK, AttemptsLeft, InState
<1>7. Accounted'
  BY <1>1, <1>2 DEF IInv, TypeOK, Accounted, InState, BecomeDue, history
<1>8. Counted'
  BY <1>1, <1>2 DEF IInv, TypeOK, Counted, BecomeDue, history
<1>10. HeldIsOwn'
  BY <1>1, <1>2, <1>9 DEF IInv, TypeOK, HeldIsOwn, history
<1> QED BY <1>3, <1>4, <1>5, <1>6, <1>7, <1>8, <1>10 DEF IInv

-----------------------------------------------------------------------------
(* The worker *)

LEMMA StartInv ==
  ASSUME IInv, Start
  PROVE  IInv'
<1>1. /\ worker' = Idle("poll") /\ worker.at = "down"
      /\ UNCHANGED <<syncMu, sync, held, asked, removed, undone, sent, unclear>>
      /\ stranded' \in SUBSET Msg
      /\ budget' \in [crash : Nat, store : Nat, reply : Nat]
  BY DEF Start, StoreFault, InState, IInv, TypeOK
<1>2. worker'.at = "poll" /\ worker' \in [at : Step, msg : Msg \cup {NoMsg}, id : Nat, attempts : Nat]
  BY <1>1 DEF Idle, Step
<1>3. CASE UNCHANGED rows
  <2>1. TypeOK'
    BY <1>1, <1>2, <1>3 DEF IInv, TypeOK
  <2>2. UniqueIds' /\ WorkerHoldsRow' /\ AttemptsLeft'
    BY <1>2, <1>3 DEF IInv, UniqueIds, WorkerHoldsRow, AttemptsLeft, InState
  <2>3. Accounted'
    BY <1>1, <1>2, <1>3 DEF IInv, Accounted, InState
  <2>4. Counted'
    BY <1>1, <1>2, <1>3 DEF IInv, Counted
  <2>5. HeldIsOwn'
    BY <1>1, <1>3 DEF IInv, HeldIsOwn
  <2> QED BY <2>1, <2>2, <2>3, <2>4, <2>5 DEF IInv
<1>4. CASE rows' = [m \in Msg |-> IF m \in InState({"sending"})
                                   THEN [rows[m] EXCEPT !.state = "queued"] ELSE rows[m]]
  <2> DEFINE ms == InState({"sending"})
  <2>1. \A m \in ms : m \in Msg /\ rows[m] \in Row /\ rows[m].state = "sending"
    BY DEF InState, IInv, TypeOK
  <2>2. \A m \in ms : /\ rows'[m] \in Row /\ rows'[m].id = rows[m].id
                      /\ rows'[m].state = "queued" /\ rows'[m].attempts = rows[m].attempts
    BY <1>4, <2>1 DEF Row, State
  <2>3. \A m \in Msg \ ms : rows'[m] = rows[m]
    BY <1>4
  <2>4. DOMAIN rows' = Msg /\ rows' = [m \in Msg |-> rows'[m]]
    BY <1>4
  <2>5. \A m \in Msg : /\ rows'[m] # NoRow <=> rows[m] # NoRow
                       /\ rows[m] # NoRow => /\ rows'[m].id = rows[m].id
                                             /\ rows'[m].attempts = rows[m].attempts
                                             /\ rows'[m].state = "sent" => rows[m].state = "sent"
                                             /\ rows'[m].state = "queued" =>
                                                  rows[m].state \in {"queued", "sending"}
                                             /\ rows[m].state = "sent" => rows'[m].state = "sent"
                                             /\ rows'[m].state # "sending"
    <3>1. SUFFICES ASSUME NEW m \in Msg
          PROVE  /\ rows'[m] # NoRow <=> rows[m] # NoRow
                 /\ rows[m] # NoRow => /\ rows'[m].id = rows[m].id
                                       /\ rows'[m].attempts = rows[m].attempts
                                       /\ rows'[m].state = "sent" => rows[m].state = "sent"
                                       /\ rows'[m].state = "queued" =>
                                            rows[m].state \in {"queued", "sending"}
                                       /\ rows[m].state = "sent" => rows'[m].state = "sent"
                                       /\ rows'[m].state # "sending"
      OBVIOUS
    <3>2. CASE m \in ms
      BY <2>1, <2>2, <3>2, QueueAssumption
    <3>3. CASE m \notin ms
      BY <2>3, <3>3 DEF InState
    <3> QED BY <3>2, <3>3
  <2>6. rows' \in [Msg -> Row \cup {NoRow}]
    BY <2>2, <2>3, <2>4 DEF IInv, TypeOK
  <2> HIDE DEF ms
  <2>7. TypeOK'
    BY <1>1, <1>2, <2>5, <2>6 DEF IInv, TypeOK
  <2>8. UniqueIds'
    BY <2>5 DEF IInv, UniqueIds
  <2>9. WorkerHoldsRow'
    BY <1>2 DEF WorkerHoldsRow
  <2>10. AttemptsLeft'
    BY <2>5 DEF IInv, AttemptsLeft, InState
  <2>11. Accounted'
    BY <1>1, <1>2, <2>5 DEF IInv, TypeOK, Accounted, InState
  <2>12. Counted'
    BY <1>1, <1>2, <2>5 DEF IInv, Counted
  <2>13. HeldIsOwn'
    BY <1>1, <2>5 DEF IInv, TypeOK, HeldIsOwn
  <2> QED BY <2>7, <2>8, <2>9, <2>10, <2>11, <2>12, <2>13 DEF IInv
<1> QED BY <1>3, <1>4 DEF Start

\* A message to be claimed is known not to have been sent.
LEMMA ClaimInv ==
  ASSUME IInv, NEW m \in Msg, Claim(m)
  PROVE  IInv'
<1>1. /\ rows[m] \in Row /\ rows[m] # NoRow /\ rows[m].state = "queued"
      /\ rows[m].attempts < MaxAttempts
  BY DEF Claim, InState, IInv, TypeOK, AttemptsLeft
<1>2. PICK row \in Row : /\ rows' = [rows EXCEPT ![m] = row]
                         /\ row.id = rows[m].id /\ row.state = "sending"
                         /\ row.attempts = rows[m].attempts
  <2>1. [rows[m] EXCEPT !.state = "sending"] \in Row
    BY <1>1 DEF Row, State
  <2> QED BY <1>1, <2>1 DEF Claim, Row
<1>3. row # NoRow
  BY QueueAssumption
<1>4. /\ worker' = [at |-> "transmit", msg |-> m, id |-> rows[m].id, attempts |-> rows[m].attempts]
      /\ worker.at = "poll"
      /\ UNCHANGED <<syncMu, sync, held, budget, asked, removed, undone, sent, unclear, stranded>>
  BY DEF Claim, history
<1>5. TypeOK'
  <2>1. rows' \in [Msg -> Row \cup {NoRow}]
    BY <1>2 DEF IInv, TypeOK
  <2>2. \A n \in Msg : rows'[n] # NoRow => rows'[n].attempts <= MaxAttempts
    BY <1>1, <1>2 DEF IInv, TypeOK
  <2>3. worker' \in [at : Step, msg : Msg \cup {NoMsg}, id : Nat, attempts : Nat]
    BY <1>1, <1>4 DEF Step, Row
  <2> QED BY <1>4, <2>1, <2>2, <2>3 DEF IInv, TypeOK
<1>6. UniqueIds'
  BY <1>1, <1>2 DEF IInv, TypeOK, UniqueIds
<1>7. WorkerHoldsRow'
  BY <1>1, <1>2, <1>3, <1>4 DEF IInv, TypeOK, WorkerHoldsRow
<1>8. AttemptsLeft'
  BY <1>1, <1>2 DEF IInv, TypeOK, AttemptsLeft, InState
<1>9. Accounted'
  BY <1>1, <1>2, <1>3, <1>4 DEF IInv, TypeOK, Accounted, InState
<1>10. Counted'
  BY <1>1, <1>2, <1>4 DEF IInv, TypeOK, Counted
<1>11. HeldIsOwn'
  BY <1>1, <1>2, <1>3, <1>4 DEF IInv, TypeOK, HeldIsOwn
<1> QED BY <1>5, <1>6, <1>7, <1>8, <1>9, <1>10, <1>11 DEF IInv

\* A message the worker is about to hand
\* over has not been, unless its acceptance was missed.
LEMMA InHand ==
  ASSUME IInv, worker.at = "transmit", worker.msg \notin unclear
  PROVE  sent[worker.msg] = 0
BY DEF IInv, TypeOK, WorkerHoldsRow, Counted

LEMMA AcceptInv ==
  ASSUME IInv, Accept
  PROVE  IInv'
<1> DEFINE m == worker.msg
<1>1. m \in Msg /\ sent[m] \in Nat
  BY DEF Accept, IInv, TypeOK, WorkerHoldsRow
<1>2. PICK at \in {"append", "accepted"} : worker' = [worker EXCEPT !.at = at]
  BY DEF Accept
<1>3. /\ worker' \in [at : Step, msg : Msg \cup {NoMsg}, id : Nat, attempts : Nat]
      /\ worker'.at = at /\ worker'.msg = m /\ worker'.id = worker.id
      /\ worker'.attempts = worker.attempts
  BY <1>2 DEF IInv, TypeOK, Step
<1>4. /\ sent' = [sent EXCEPT ![m] = @ + 1] /\ worker.at = "transmit"
      /\ UNCHANGED <<rows, syncMu, sync, held, budget, asked, removed, undone, unclear, stranded>>
  BY DEF Accept
<1>5. m \notin unclear => sent[m] = 0
  BY <1>4, InHand
<1>6. sent' \in [Msg -> Nat] /\ \A n \in Msg : sent'[n] = IF n = m THEN sent[n] + 1 ELSE sent[n]
  BY <1>1, <1>4 DEF IInv, TypeOK
<1>7. rows[m] # NoRow /\ rows[m].state = "sending" /\ m \in asked
  BY <1>1, <1>4 DEF IInv, WorkerHoldsRow, Accounted
<1> HIDE DEF m
<1>8. TypeOK'
  BY <1>3, <1>4, <1>6 DEF IInv, TypeOK
<1>9. UniqueIds' /\ AttemptsLeft' /\ HeldIsOwn'
  BY <1>4 DEF IInv, UniqueIds, AttemptsLeft, HeldIsOwn, InState
<1>10. WorkerHoldsRow'
  BY <1>3, <1>4 DEF IInv, WorkerHoldsRow, m
<1>11. Accounted'
  BY <1>1, <1>3, <1>4, <1>6, <1>7 DEF IInv, TypeOK, Accounted, InState
<1>12. Counted'
  BY <1>1, <1>3, <1>4, <1>5, <1>6 DEF IInv, TypeOK, Counted
<1> QED BY <1>8, <1>9, <1>10, <1>11, <1>12 DEF IInv

\* The worker moves on with the message it holds, and nothing else changes.
LEMMA MovesOnInv ==
  ASSUME IInv, worker.at \notin {"down", "poll"}, NEW at \in Step \ {"down", "poll"},
         worker' = [worker EXCEPT !.at = at],
         at \in {"append", "accepted"} => worker.at \in {"append", "accepted"},
         worker.at \in {"append", "accepted"} => at \in {"append", "accepted"},
         UNCHANGED <<rows, lock, held, budget, history>>
  PROVE  IInv'
<1>1. /\ worker' \in [at : Step, msg : Msg \cup {NoMsg}, id : Nat, attempts : Nat]
      /\ worker'.at = at /\ worker'.msg = worker.msg /\ worker'.id = worker.id
      /\ worker'.attempts = worker.attempts
  BY DEF IInv, TypeOK
<1>2. TypeOK'
  BY <1>1 DEF IInv, TypeOK, history
<1>3. UniqueIds' /\ AttemptsLeft' /\ WorkerHoldsRow' /\ HeldIsOwn'
  BY <1>1 DEF IInv, UniqueIds, AttemptsLeft, WorkerHoldsRow, HeldIsOwn, InState, history
<1>4. Accounted' /\ Counted'
  BY <1>1 DEF IInv, Accounted, Counted, InState, history
<1> QED BY <1>2, <1>3, <1>4 DEF IInv

LEMMA RejectInv ==
  ASSUME IInv, Reject
  PROVE  IInv'
<1> "rejected" \in Step \ {"down", "poll"}
  BY DEF Step
<1> QED BY MovesOnInv DEF Reject

LEMMA AppendToSentInv ==
  ASSUME IInv, AppendToSent
  PROVE  IInv'
<1> "accepted" \in Step \ {"down", "poll"}
  BY DEF Step
<1> QED BY MovesOnInv DEF AppendToSent

LEMMA LoseReplyInv ==
  ASSUME IInv, LoseReply
  PROVE  IInv'
<1> DEFINE m == worker.msg
<1>1. m \in Msg
  BY DEF LoseReply, IInv, WorkerHoldsRow
<1>2. /\ worker' \in [at : Step, msg : Msg \cup {NoMsg}, id : Nat, attempts : Nat]
      /\ worker'.at = "rejected" /\ worker'.msg = m /\ worker'.id = worker.id
      /\ worker'.attempts = worker.attempts
  BY DEF LoseReply, IInv, TypeOK, Step
<1>3. /\ sent' = [sent EXCEPT ![m] = @ + 1] /\ worker.at = "transmit"
      /\ unclear' = unclear \cup {m}
      /\ budget' \in [crash : Nat, store : Nat, reply : Nat]
      /\ UNCHANGED <<rows, syncMu, sync, held, asked, removed, undone, stranded>>
  BY DEF LoseReply, IInv, TypeOK
<1>4. sent' \in [Msg -> Nat] /\ \A n \in Msg : sent'[n] = IF n = m THEN sent[n] + 1 ELSE sent[n]
  BY <1>1, <1>3 DEF IInv, TypeOK
<1>5. rows[m] # NoRow /\ rows[m].state = "sending" /\ m \in asked
  BY <1>1, <1>3 DEF IInv, WorkerHoldsRow, Accounted
<1> HIDE DEF m
<1>6. TypeOK'
  BY <1>1, <1>2, <1>3, <1>4 DEF IInv, TypeOK
<1>7. UniqueIds' /\ AttemptsLeft' /\ HeldIsOwn'
  BY <1>3 DEF IInv, UniqueIds, AttemptsLeft, HeldIsOwn, InState
<1>8. WorkerHoldsRow'
  BY <1>2, <1>3 DEF IInv, WorkerHoldsRow, m
<1>9. Accounted'
  BY <1>1, <1>2, <1>3, <1>4, <1>5 DEF IInv, TypeOK, Accounted, InState
<1>10. Counted'
  BY <1>1, <1>2, <1>3, <1>4 DEF IInv, TypeOK, Counted
<1> QED BY <1>6, <1>7, <1>8, <1>9, <1>10 DEF IInv

\* The write that ends a transmission: one row, out of "sending".
LEMMA WriteInv ==
  ASSUME IInv, worker.at \in {"accepted", "rejected"},
         NEW state \in {"sent", "failed", "queued"}, NEW attempts \in 0..MaxAttempts,
         NEW due \in BOOLEAN,
         Update(WithId(worker.id), state, attempts, due),
         state = "sent" <=> worker.at = "accepted",
         state = "queued" => attempts < MaxAttempts,
         worker' = Idle("poll"),
         UNCHANGED <<lock, held, budget, history>>
  PROVE  IInv'
<1> DEFINE m == worker.msg
<1>1. /\ m \in Msg /\ rows[m] # NoRow /\ rows[m].state = "sending"
      /\ WithId(worker.id) = {m}
  BY WorkerWritesItsRow DEF IInv, WorkerHoldsRow
<1>2. /\ rows' \in [Msg -> Row \cup {NoRow}]
      /\ \A n \in Msg : /\ rows'[n] # NoRow <=> rows[n] # NoRow
                        /\ rows[n] # NoRow => rows'[n].id = rows[n].id
      /\ \A n \in {m} : rows'[n].state = state /\ rows'[n].attempts = attempts
      /\ \A n \in Msg \ {m} : rows'[n] = rows[n]
  <2> DEFINE ms == {m}
  <2>1. state \in State
    BY DEF State
  <2>2. TypeOK /\ ms \in SUBSET Msg /\ \A n \in ms : rows[n] # NoRow
    BY <1>1 DEF IInv
  <2>3. Update(ms, state, attempts, due)
    BY <1>1
  <2> HIDE DEF ms
  <2>4. /\ rows' \in [Msg -> Row \cup {NoRow}]
        /\ \A n \in Msg : /\ rows'[n] # NoRow <=> rows[n] # NoRow
                          /\ rows[n] # NoRow => rows'[n].id = rows[n].id
        /\ \A n \in ms : rows'[n].state = state /\ rows'[n].attempts = attempts
        /\ \A n \in Msg \ ms : rows'[n] = rows[n]
    BY <2>1, <2>2, <2>3, UpdateRows
  <2> QED BY <2>4 DEF ms
<1>3. worker' \in [at : Step, msg : Msg \cup {NoMsg}, id : Nat, attempts : Nat] /\ worker'.at = "poll"
  BY DEF Idle, Step
<1>4. worker.at = "accepted" => sent[m] > 0
  BY DEF IInv, Accounted
<1>5. worker.at = "rejected" /\ m \notin unclear => sent[m] = 0
  BY <1>1 DEF IInv, TypeOK, Counted
<1> HIDE DEF m
<1>6. TypeOK'
  BY <1>1, <1>2, <1>3, QueueAssumption DEF IInv, TypeOK, history
<1>7. UniqueIds'
  BY <1>2 DEF IInv, UniqueIds
<1>8. WorkerHoldsRow'
  BY <1>3 DEF WorkerHoldsRow
<1>9. AttemptsLeft'
  BY <1>1, <1>2, QueueAssumption DEF IInv, AttemptsLeft, InState
<1>10. Accounted'
  BY <1>1, <1>2, <1>3, <1>4 DEF IInv, TypeOK, Accounted, InState, history
<1>11. Counted'
  BY <1>1, <1>2, <1>3, <1>5 DEF m, IInv, TypeOK, Counted, history
<1>12. HeldIsOwn'
  BY <1>2 DEF IInv, TypeOK, HeldIsOwn, history
<1> QED BY <1>6, <1>7, <1>8, <1>9, <1>10, <1>11, <1>12 DEF IInv

LEMMA MarkSentInv ==
  ASSUME IInv, MarkSent
  PROVE  IInv'
<1> 0 \in 0..MaxAttempts
  BY QueueAssumption
<1> QED BY WriteInv DEF MarkSent

LEMMA MarkAttemptFailedInv ==
  ASSUME IInv, MarkAttemptFailed
  PROVE  IInv'
<1> DEFINE attempts == worker.attempts + 1
<1>1. attempts \in 0..MaxAttempts
  BY QueueAssumption DEF IInv, TypeOK, WorkerHoldsRow, MarkAttemptFailed
<1>2. CASE attempts >= MaxAttempts
  <2>1. Update(WithId(worker.id), "failed", attempts, TRUE)
    BY <1>2 DEF MarkAttemptFailed
  <2> HIDE DEF attempts
  <2> QED BY <1>1, <2>1, WriteInv DEF MarkAttemptFailed
<1>3. CASE ~(attempts >= MaxAttempts)
  <2>1. Update(WithId(worker.id), "queued", attempts, FALSE)
    BY <1>3 DEF MarkAttemptFailed
  <2>2. attempts < MaxAttempts
    BY <1>1, <1>3, QueueAssumption
  <2> HIDE DEF attempts
  <2> QED BY <1>1, <2>1, <2>2, WriteInv DEF MarkAttemptFailed
<1> QED BY <1>2, <1>3

\* An outcome that is not written leaves the row in "sending", and a message
\* whose acceptance it was becomes unclear.
LEMMA MarkFailsInv ==
  ASSUME IInv, MarkFails
  PROVE  IInv'
<1>1. worker' \in [at : Step, msg : Msg \cup {NoMsg}, id : Nat, attempts : Nat] /\ worker'.at = "poll"
  BY DEF MarkFails, Idle, Step
<1>2. worker.msg \in Msg /\ worker.at \in {"accepted", "rejected"}
  BY DEF MarkFails, IInv, WorkerHoldsRow
<1>3. /\ unclear' = IF worker.at = "accepted" THEN unclear \cup {worker.msg} ELSE unclear
      /\ UNCHANGED <<rows, syncMu, sync, held, asked, removed, undone, sent>>
  BY DEF MarkFails
<1>4. TypeOK'
  BY <1>1, <1>2, <1>3 DEF IInv, TypeOK, MarkFails, StoreFault
<1>5. UniqueIds' /\ AttemptsLeft' /\ WorkerHoldsRow' /\ HeldIsOwn'
  BY <1>1, <1>3 DEF IInv, UniqueIds, AttemptsLeft, WorkerHoldsRow, HeldIsOwn, InState
<1>6. Accounted'
  BY <1>1, <1>3 DEF IInv, Accounted, InState
<1>7. Counted'
  BY <1>1, <1>2, <1>3 DEF IInv, Counted
<1> QED BY <1>4, <1>5, <1>6, <1>7 DEF IInv

\* A crash forgets the worker's message: if the server had taken it, the next
\* run cannot know.
LEMMA CrashInv ==
  ASSUME IInv, Crash
  PROVE  IInv'
<1>1. worker' \in [at : Step, msg : Msg \cup {NoMsg}, id : Nat, attempts : Nat] /\ worker'.at = "down"
  BY DEF Crash, Idle, Step
<1>2. worker.at \in {"append", "accepted"} => worker.msg \in Msg
  BY DEF IInv, WorkerHoldsRow
<1>3. /\ unclear' = IF worker.at \in {"append", "accepted"}
                      THEN unclear \cup {worker.msg} ELSE unclear
      /\ UNCHANGED <<rows, asked, removed, undone, sent, stranded>>
  BY DEF Crash
<1>4. TypeOK'
  BY <1>1, <1>2, <1>3 DEF IInv, TypeOK, Crash, NoSync
<1>5. UniqueIds' /\ AttemptsLeft' /\ WorkerHoldsRow' /\ HeldIsOwn'
  <2>1. \A m \in Msg : held'[m] = 0
    BY DEF Crash
  <2> QED BY <1>1, <1>3, <2>1 DEF IInv, TypeOK, UniqueIds, AttemptsLeft, WorkerHoldsRow, HeldIsOwn, InState
<1>6. Accounted'
  BY <1>1, <1>3 DEF IInv, Accounted, InState
<1>7. Counted'
  BY <1>1, <1>2, <1>3 DEF IInv, Counted
<1> QED BY <1>4, <1>5, <1>6, <1>7 DEF IInv

-----------------------------------------------------------------------------
(* The sync *)

LEMMA SyncInv ==
  ASSUME IInv, BeginSync \/ FetchBatch \/ EndSync
  PROVE  IInv'
<1>1. UNCHANGED <<rows, worker, held, budget, history>>
  BY DEF BeginSync, FetchBatch, EndSync
<1>2. syncMu' \in {"free", "sync"} /\ sync' \in Nat \cup {NoSync}
  BY QueueAssumption DEF IInv, TypeOK, BeginSync, FetchBatch, EndSync, NoSync
<1>3. TypeOK'
  BY <1>1, <1>2 DEF IInv, TypeOK, history
<1>4. UniqueIds' /\ AttemptsLeft' /\ WorkerHoldsRow' /\ HeldIsOwn' /\ Accounted' /\ Counted'
  BY <1>1 DEF IInv, UniqueIds, AttemptsLeft, WorkerHoldsRow, HeldIsOwn, Accounted, Counted,
     InState, history
<1> QED BY <1>3, <1>4 DEF IInv

-----------------------------------------------------------------------------
(* The invariant *)

LEMMA NextInv ==
  ASSUME IInv, [Next]_vars
  PROVE  IInv'
<1>1. CASE \E m \in Msg, delayed \in BOOLEAN : SendMessage(m, delayed)
  BY <1>1, SendMessageInv
<1>2. CASE \E m \in Msg : Show(m) \/ LetGo(m)
  BY <1>2, UiInv
<1>3. CASE \E m \in Msg : Cancel(m)
  BY <1>3, CancelInv
<1>4. CASE \E m \in Msg : Discard(m)
  BY <1>4, DiscardInv
<1>5. CASE \E m \in Msg : Retry(m)
  BY <1>5, RetryInv
<1>6. CASE PruneSent
  BY <1>6, PruneSentInv
<1>7. CASE \E m \in Msg : BecomeDue(m)
  BY <1>7, BecomeDueInv
<1>8. CASE Start
  BY <1>8, StartInv
<1>9. CASE \E m \in Msg : Claim(m)
  BY <1>9, ClaimInv
<1>10. CASE Accept
  BY <1>10, AcceptInv
<1>11. CASE Reject
  BY <1>11, RejectInv
<1>12. CASE LoseReply
  BY <1>12, LoseReplyInv
<1>13. CASE AppendToSent
  BY <1>13, AppendToSentInv
<1>14. CASE MarkSent
  BY <1>14, MarkSentInv
<1>15. CASE MarkAttemptFailed
  BY <1>15, MarkAttemptFailedInv
<1>16. CASE MarkFails
  BY <1>16, MarkFailsInv
<1>17. CASE BeginSync \/ FetchBatch \/ EndSync
  BY <1>17, SyncInv
<1>18. CASE Crash
  BY <1>18, CrashInv
<1>19. CASE UNCHANGED vars
  <2>1. UNCHANGED <<rows, worker, syncMu, sync, held, budget, asked, removed, undone, sent, unclear, stranded>>
    BY <1>19 DEF vars, history
  <2>2. TypeOK'
    BY <2>1 DEF IInv, TypeOK
  <2>3. UniqueIds' /\ AttemptsLeft' /\ WorkerHoldsRow' /\ HeldIsOwn' /\ Accounted' /\ Counted'
    BY <2>1 DEF IInv, UniqueIds, AttemptsLeft, WorkerHoldsRow, HeldIsOwn, Accounted, Counted, InState
  <2> QED BY <2>2, <2>3 DEF IInv
<1> QED BY <1>1, <1>2, <1>3, <1>4, <1>5, <1>6, <1>7, <1>8, <1>9, <1>10, <1>11, <1>12, <1>13,
           <1>14, <1>15, <1>16, <1>17, <1>18, <1>19 DEF Next, User, Outcome

LEMMA InductiveInv == Spec => []IInv
<1>1. Init => IInv
  BY InitInv
<1>2. IInv /\ [Next]_vars => IInv'
  BY NextInv
<1> QED BY <1>1, <1>2, PTL DEF Spec

(* The table, the worker and the history have their types, and no row has   *)
(* used more attempts than MaxAttempts.                                     *)
THEOREM QueueTypes == Spec => []TypeOK
<1>1. IInv => TypeOK
  BY DEF IInv
<1> QED BY <1>1, InductiveInv, PTL

(* Whatever the user, the worker and a failing machine do, and however many *)
(* messages, attempts and crashes there are, a message is transmitted once  *)
(* unless the queue could not get to know that it had been.                 *)
THEOREM SentOnce == Spec => []SentOnceUnlessUnclear
<1>1. IInv => SentOnceUnlessUnclear
  BY DEF IInv, TypeOK, Counted, SentOnceUnlessUnclear
<1> QED BY <1>1, InductiveInv, PTL

-----------------------------------------------------------------------------
(* The refinement: every step moves the status of one message at most, and  *)
(* as SendQueue allows, but for an undo that takes another message.         *)

Moves == {<<"unsent", "waiting">>, <<"waiting", "delivered">>, <<"waiting", "refused">>,
          <<"refused", "waiting">>, <<"waiting", "withdrawn">>, <<"refused", "withdrawn">>}

\* One message moves, the others stay.
LEMMA OneMove ==
  ASSUME NEW m \in Msg,
         \A n \in Msg \ {m} : StatusOf(n)' = StatusOf(n),
         StatusOf(m)' = StatusOf(m) \/ <<StatusOf(m), StatusOf(m)'>> \in Moves
  PROVE  [Queue!Next]_Statuses
<1> DEFINE to == StatusOf(m)'
<1>1. Statuses' = [Statuses EXCEPT ![m] = to] /\ Statuses[m] = StatusOf(m)
  BY DEF Statuses
<1>2. CASE to = StatusOf(m)
  BY <1>2 DEF Statuses
<1>3. CASE <<StatusOf(m), to>> \in Moves
  <2>1. \/ Statuses[m] = "unsent" /\ to = "waiting"
        \/ Statuses[m] = "waiting" /\ to = "delivered"
        \/ Statuses[m] = "waiting" /\ to = "refused"
        \/ Statuses[m] = "refused" /\ to = "waiting"
        \/ Statuses[m] \in {"waiting", "refused"} /\ to = "withdrawn"
    BY <1>1, <1>3 DEF Moves
  <2> HIDE DEF to
  <2>2. Queue!Submit(m) \/ Queue!Deliver(m) \/ Queue!Refuse(m) \/ Queue!Resubmit(m) \/ Queue!Withdraw(m)
    BY <1>1, <2>1 DEF Statuses, Queue!Submit, Queue!Deliver, Queue!Refuse, Queue!Resubmit,
       Queue!Withdraw, Queue!Move
  <2> QED BY <2>2 DEF Queue!Next
<1> QED BY <1>2, <1>3

\* A step that touches no row and sends nothing moves no message.
LEMMA NoMove ==
  ASSUME UNCHANGED <<rows, asked, removed, sent>>
  PROVE  [Queue!Next]_Statuses
BY DEF Statuses, StatusOf, InState

LEMMA SendMessageMove ==
  ASSUME IInv, NEW m \in Msg, NEW delayed \in BOOLEAN, SendMessage(m, delayed)
  PROVE  [Queue!Next]_Statuses
<1>1. StatusOf(m) = "unsent"
  BY DEF SendMessage, StatusOf
<1>2. sent[m] = 0
  BY DEF SendMessage, IInv, Accounted
<1>3. rows'[m] # NoRow /\ rows'[m].state = "queued"
  <2>1. [id |-> FreshId, state |-> "queued", attempts |-> 0, due |-> ~delayed] \in Row
    BY FreshIdIsFresh DEF Row, State, IInv
  <2> QED BY <2>1, QueueAssumption DEF SendMessage, IInv, TypeOK
<1>4. StatusOf(m)' = "waiting"
  BY <1>2, <1>3 DEF SendMessage, StatusOf, InState
<1>5. \A n \in Msg \ {m} : StatusOf(n)' = StatusOf(n)
  BY DEF SendMessage, StatusOf, InState, IInv, TypeOK
<1> QED BY <1>1, <1>4, <1>5, OneMove DEF Moves

\* A row taken out: its message is withdrawn, unless it had been delivered, when it is
\* the one meant, and lost when it is another.
LEMMA TakeOutMove ==
  ASSUME IInv, NEW m \in Msg, NEW ms \in SUBSET InState({"queued", "failed"}),
         ms \subseteq WithId(held[m]), NEW n \in ms, held[m] # 0,
         Delete(ms), removed' = removed \cup (ms \cap {m}), UNCHANGED <<asked, sent>>
  PROVE  [Queue!Next \/ TakesAnother]_Statuses
<1>1. n \in Msg /\ rows[n] # NoRow /\ rows[n].state \in {"queued", "failed"}
  BY DEF InState
<1>2. ms = {n}
  <2>1. WithId(held[m]) = {n}
    BY OneRowWithId DEF IInv
  <2> QED BY <2>1
<1>3. \A o \in Msg : rows'[o] = IF o = n THEN NoRow ELSE rows[o]
  BY <1>2 DEF Delete
<1>4. n \in asked /\ sent[n] \in Nat /\ n \notin removed
  BY <1>1 DEF IInv, TypeOK, HeldIsOwn, Accounted
<1>5. \A o \in Msg \ {n} : StatusOf(o)' = StatusOf(o)
  BY <1>2, <1>3 DEF StatusOf, InState
<1>6. CASE sent[n] > 0
  <2>1. StatusOf(n)' = StatusOf(n)
    BY <1>4, <1>6 DEF StatusOf
  <2> QED BY <1>1, <1>5, <2>1, OneMove
<1>7. CASE ~(sent[n] > 0)
  <2>1. StatusOf(n) \in {"waiting", "refused"}
    BY <1>1, <1>4, <1>7 DEF StatusOf, InState
  <2>2. CASE n = m
    <3>1. StatusOf(n)' = "withdrawn"
      BY <1>2, <1>3, <1>4, <1>7, <2>2 DEF StatusOf, InState
    <3> QED BY <1>1, <1>5, <2>1, <3>1, OneMove DEF Moves
  <2>3. CASE n # m
    <3>1. StatusOf(n)' = "lost"
      BY <1>2, <1>3, <1>4, <1>7, <2>3 DEF StatusOf, InState
    <3>2. rows[m] = NoRow /\ m \in asked /\ m \notin removed
      BY <2>3, OwnRow DEF IInv, HeldIsOwn
    <3>3. StatusOf(m) \in {"delivered", "lost"}
      BY <3>2 DEF StatusOf, InState
    <3>4. Statuses' = [Statuses EXCEPT ![n] = "lost"]
      BY <1>1, <1>5, <3>1 DEF Statuses
    <3> QED BY <1>1, <2>1, <2>3, <3>3, <3>4 DEF TakesAnother
  <2> QED BY <2>2, <2>3
<1> QED BY <1>6, <1>7

LEMMA CancelMove ==
  ASSUME IInv, NEW m \in Msg, Cancel(m) \/ Discard(m)
  PROVE  [Queue!Next \/ TakesAnother]_Statuses
<1>1. PICK ms \in SUBSET InState({"queued", "failed"}) :
        /\ ms \subseteq WithId(held[m]) /\ ms # {} /\ held[m] # 0
        /\ Delete(ms) /\ removed' = removed \cup (ms \cap {m})
  <2>1. CASE Cancel(m)
    <3> DEFINE ms == WithId(held[m]) \cap InState({"queued"})
    <3>1. ms \in SUBSET InState({"queued", "failed"})
      BY DEF InState
    <3> QED BY <2>1, <3>1 DEF Cancel
  <2>2. CASE Discard(m)
    <3> DEFINE ms == WithId(held[m]) \cap InState({"failed"})
    <3>1. ms \in SUBSET InState({"queued", "failed"})
      BY DEF InState
    <3> QED BY <2>2, <3>1 DEF Discard
  <2> QED BY <2>1, <2>2
<1>2. PICK n \in ms : TRUE
  BY <1>1
<1>3. UNCHANGED <<asked, sent>>
  BY DEF Cancel, Discard
<1> QED BY <1>1, <1>2, <1>3, TakeOutMove

\* An update of one row: into "queued" and back its message waits, in "failed"
\* it is refused; the "sent" state is only ever written for a delivered one.
LEMMA WriteMove ==
  ASSUME IInv, IInv', NEW m \in Msg, rows[m] # NoRow, rows'[m] # NoRow,
         rows[m].state \in {"queued", "sending", "failed"},
         rows[m].state = "failed" => rows'[m].state = "queued",
         \A n \in Msg \ {m} : rows'[n] = rows[n],
         UNCHANGED <<asked, removed, sent>>
  PROVE  [Queue!Next]_Statuses
<1>1. m \in asked /\ sent[m] \in Nat
  BY DEF IInv, TypeOK, Accounted
<1>2. \A n \in Msg \ {m} : StatusOf(n)' = StatusOf(n)
  BY DEF StatusOf, InState
<1>3. CASE sent[m] > 0
  <2>1. StatusOf(m)' = StatusOf(m)
    BY <1>1, <1>3 DEF StatusOf
  <2> QED BY <1>2, <2>1, OneMove
<1>4. CASE ~(sent[m] > 0)
  <2>1. rows'[m].state \in {"queued", "sending", "failed"}
    BY <1>4 DEF IInv, TypeOK, Accounted, InState, Row, State
  <2>2. \/ StatusOf(m) = "waiting" /\ StatusOf(m)' \in {"waiting", "refused"}
        \/ StatusOf(m) = "refused" /\ StatusOf(m)' = "waiting"
    BY <1>1, <1>4, <2>1 DEF StatusOf, InState
  <2> QED BY <1>2, <2>2, OneMove DEF Moves
<1> QED BY <1>3, <1>4

LEMMA RetryMove ==
  ASSUME IInv, IInv', NEW m \in Msg, Retry(m)
  PROVE  [Queue!Next]_Statuses
<1> DEFINE ms == WithId(held[m]) \cap InState({"failed"})
<1>1. PICK n \in ms : TRUE
  BY DEF Retry
<1>2. ms = {n} /\ n \in Msg /\ rows[n] # NoRow /\ rows[n].state = "failed"
  BY <1>1, OneRowWithId DEF IInv, InState
<1>3. Update({n}, "queued", 0, TRUE) /\ UNCHANGED <<asked, removed, sent>>
  BY <1>2 DEF Retry, history
<1> HIDE DEF ms
<1> DEFINE one == {n}
<1>4. TypeOK /\ one \in SUBSET Msg /\ \A o \in one : rows[o] # NoRow
  BY <1>2 DEF IInv
<1>6. Update(one, "queued", 0, TRUE)
  BY <1>3
<1>7. "queued" \in State /\ 0 \in 0..MaxAttempts
  BY QueueAssumption DEF State
<1> HIDE DEF one
<1>5. /\ \A o \in Msg : rows'[o] # NoRow <=> rows[o] # NoRow
      /\ \A o \in one : rows'[o].state = "queued"
      /\ \A o \in Msg \ one : rows'[o] = rows[o]
  BY <1>4, <1>6, <1>7, UpdateRows
<1> QED BY <1>2, <1>3, <1>5, WriteMove DEF one

\* The rows a start changes stay in the queue.
LEMMA StartMove ==
  ASSUME IInv, Start
  PROVE  [Queue!Next]_Statuses
<1>1. UNCHANGED <<asked, removed, sent>>
  BY DEF Start
<1>2. CASE UNCHANGED rows
  BY <1>1, <1>2, NoMove
<1>3. CASE rows' = [m \in Msg |-> IF m \in InState({"sending"})
                                   THEN [rows[m] EXCEPT !.state = "queued"] ELSE rows[m]]
  <2>1. SUFFICES ASSUME NEW m \in Msg PROVE StatusOf(m)' = StatusOf(m)
    BY DEF Statuses
  <2>2. CASE m \in InState({"sending"})
    <3>1. rows[m] \in Row /\ rows[m].state = "sending"
      BY <2>2 DEF InState, IInv, TypeOK
    <3>2. rows'[m] \in Row /\ rows'[m].state = "queued"
      BY <1>3, <2>2, <3>1 DEF Row, State
    <3>3. rows'[m] # NoRow /\ rows[m] # NoRow
      BY <3>1, <3>2, QueueAssumption
    <3> QED BY <1>1, <3>1, <3>2, <3>3 DEF StatusOf, InState
  <2>3. CASE m \notin InState({"sending"})
    BY <1>1, <1>3, <2>3 DEF StatusOf, InState
  <2> QED BY <2>2, <2>3
<1> QED BY <1>2, <1>3 DEF Start

\* Pruning takes out rows of delivered messages.
LEMMA PruneSentMove ==
  ASSUME IInv, PruneSent
  PROVE  [Queue!Next]_Statuses
<1>1. SUFFICES ASSUME NEW m \in Msg PROVE StatusOf(m)' = StatusOf(m)
  BY DEF Statuses
<1>2. UNCHANGED <<asked, removed, sent>>
  BY DEF PruneSent, history
<1>3. CASE m \in InState({"sent"})
  <2>1. sent[m] > 0 /\ m \in asked
    BY <1>3 DEF IInv, Accounted, InState
  <2> QED BY <1>2, <2>1 DEF StatusOf
<1>4. CASE m \notin InState({"sent"})
  BY <1>2, <1>4 DEF PruneSent, Delete, StatusOf, InState
<1> QED BY <1>3, <1>4

\* A transmission: the message in hand is delivered.
LEMMA DeliverMove ==
  ASSUME IInv, worker.at = "transmit", sent' = [sent EXCEPT ![worker.msg] = @ + 1],
         UNCHANGED <<rows, asked, removed>>
  PROVE  [Queue!Next]_Statuses
<1>0. PICK m \in Msg : m = worker.msg
  BY DEF IInv, WorkerHoldsRow
<1>1. m \in Msg /\ rows[m] # NoRow /\ rows[m].state = "sending" /\ m \in asked
  BY <1>0 DEF IInv, WorkerHoldsRow, Accounted
<1>2. sent[m] \in Nat /\ sent'[m] = sent[m] + 1 /\ \A n \in Msg \ {m} : sent'[n] = sent[n]
  BY <1>0, <1>1 DEF IInv, TypeOK
<1>3. \A n \in Msg \ {m} : StatusOf(n)' = StatusOf(n)
  BY <1>2 DEF StatusOf, InState
<1>4. StatusOf(m)' = "delivered"
  BY <1>1, <1>2 DEF StatusOf
<1>5. StatusOf(m) = "delivered" \/ StatusOf(m) = "waiting"
  BY <1>1 DEF StatusOf, InState
<1>6. StatusOf(m)' = StatusOf(m) \/ <<StatusOf(m), StatusOf(m)'>> \in Moves
  BY <1>4, <1>5 DEF Moves
<1> QED BY <1>1, <1>3, <1>6, OneMove

\* The write that ends a transmission.
LEMMA OutcomeMove ==
  ASSUME IInv, IInv', worker.at \notin {"down", "poll"},
         NEW state \in State, NEW attempts \in 0..MaxAttempts, NEW due \in BOOLEAN,
         Update(WithId(worker.id), state, attempts, due),
         UNCHANGED <<asked, removed, sent>>
  PROVE  [Queue!Next]_Statuses
<1> DEFINE m == worker.msg
           ms == {m}
<1>1. m \in Msg /\ rows[m] # NoRow /\ rows[m].state = "sending" /\ WithId(worker.id) = ms
  BY WorkerWritesItsRow DEF IInv, WorkerHoldsRow
<1>2. TypeOK /\ ms \in SUBSET Msg /\ \A n \in ms : rows[n] # NoRow
  BY <1>1 DEF IInv
<1>3. Update(ms, state, attempts, due)
  BY <1>1
<1> HIDE DEF ms, m
<1>4. /\ \A n \in Msg : rows'[n] # NoRow <=> rows[n] # NoRow
      /\ \A n \in Msg \ ms : rows'[n] = rows[n]
  BY <1>2, <1>3, UpdateRows
<1> QED BY <1>1, <1>4, WriteMove DEF ms

LEMMA MarkAttemptFailedMove ==
  ASSUME IInv, IInv', MarkAttemptFailed
  PROVE  [Queue!Next]_Statuses
<1> DEFINE attempts == worker.attempts + 1
<1>1. attempts \in 0..MaxAttempts
  BY QueueAssumption DEF IInv, TypeOK, WorkerHoldsRow, MarkAttemptFailed
<1>2. \/ Update(WithId(worker.id), "failed", attempts, TRUE)
      \/ Update(WithId(worker.id), "queued", attempts, FALSE)
  BY DEF MarkAttemptFailed
<1>3. worker.at = "rejected" /\ UNCHANGED <<asked, removed, sent>> /\ {"failed", "queued"} \in SUBSET State
  BY DEF MarkAttemptFailed, history, State
<1> HIDE DEF attempts
<1> QED BY <1>1, <1>2, <1>3, OutcomeMove

LEMMA ClaimMove ==
  ASSUME IInv, IInv', NEW m \in Msg, Claim(m) \/ BecomeDue(m)
  PROVE  [Queue!Next]_Statuses
<1>1. rows[m] \in Row /\ rows[m] # NoRow /\ rows[m].state = "queued"
  BY DEF Claim, BecomeDue, InState, IInv, TypeOK
<1>2. PICK row \in Row : rows' = [rows EXCEPT ![m] = row]
  <2>1. [rows[m] EXCEPT !.state = "sending"] \in Row /\ [rows[m] EXCEPT !.due = TRUE] \in Row
    BY <1>1 DEF Row, State
  <2> QED BY <2>1 DEF Claim, BecomeDue
<1>3. rows'[m] # NoRow /\ \A n \in Msg \ {m} : rows'[n] = rows[n]
  BY <1>2, QueueAssumption DEF IInv, TypeOK
<1>4. UNCHANGED <<asked, removed, sent>>
  BY DEF Claim, BecomeDue, history
<1> QED BY <1>1, <1>3, <1>4, WriteMove

LEMMA StepSimulation ==
  ASSUME IInv, [Next]_vars
  PROVE  [Queue!Next \/ TakesAnother]_Statuses
<1>a. IInv'
  BY NextInv
<1>1. CASE \E m \in Msg, delayed \in BOOLEAN : SendMessage(m, delayed)
  BY <1>1, SendMessageMove
<1>2. CASE \E m \in Msg : Cancel(m) \/ Discard(m)
  BY <1>2, CancelMove
<1>3. CASE \E m \in Msg : Retry(m)
  BY <1>3, <1>a, RetryMove
<1>4. CASE PruneSent
  BY <1>4, PruneSentMove
<1>5. CASE Start
  BY <1>5, StartMove
<1>6. CASE \E m \in Msg : Claim(m) \/ BecomeDue(m)
  BY <1>6, <1>a, ClaimMove
<1>7. CASE Accept \/ LoseReply
  BY <1>7, DeliverMove DEF Accept, LoseReply
<1>8. CASE MarkSent
  <2> 0 \in 0..MaxAttempts /\ "sent" \in State
    BY QueueAssumption DEF State
  <2> QED BY <1>8, <1>a, OutcomeMove DEF MarkSent, history
<1>9. CASE MarkAttemptFailed
  BY <1>9, <1>a, MarkAttemptFailedMove
<1>10. CASE (\E m \in Msg : Show(m) \/ LetGo(m)) \/ Reject \/ AppendToSent \/ MarkFails
              \/ BeginSync \/ FetchBatch \/ EndSync \/ Crash \/ UNCHANGED vars
  <2>1. UNCHANGED <<rows, asked, removed, sent>>
    BY <1>10 DEF Show, LetGo, Reject, AppendToSent, MarkFails, BeginSync, FetchBatch, EndSync,
       Crash, vars, history
  <2> QED BY <2>1, NoMove
<1> QED BY <1>1, <1>2, <1>3, <1>4, <1>5, <1>6, <1>7, <1>8, <1>9, <1>10 DEF Next, User, Outcome

(* The outbox implements SendQueue but for one kind of step: no message the *)
(* user pressed send on leaves the queue unsent unless it was taken back or *)
(* an undo for another, with its id, took it instead; and one that was      *)
(* taken back is never sent.                                                *)
THEOREM OutboxImplementsSendQueue == Spec => ImplementsSendQueue
<1>1. Init => Queue!Init
  BY DEF Init, Queue!Init, Statuses, StatusOf
<1>2. IInv /\ [Next]_vars => [Queue!Next \/ TakesAnother]_Statuses
  BY StepSimulation
<1> QED BY <1>1, <1>2, InductiveInv, PTL DEF Spec, ImplementsSendQueue

=============================================================================
