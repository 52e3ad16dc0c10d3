------------------------------ MODULE MailWindow ------------------------------
(***************************************************************************)
(* What the user does to the rows of the list: picks them                  *)
(* (stores/listselect.ts, stores/selectall.ts), opens one                  *)
(* (stores/selection.ts), deletes them one by one (lib/messageactions.ts)  *)
(* and takes a deletion back (stores/undodelete.ts).  All of it runs       *)
(* between and during the loads of MailList.                               *)
(***************************************************************************)
EXTENDS MailList

CONSTANTS NoMessage, NoBatch

ASSUME WindowAssumption == NoMessage \notin Id

VARIABLES
  picked,    \* selectedIds
  open,      \* openMessageId
  batch,     \* the deletion that is running: bulkTrash, or trashMessage of one
  undoable,  \* the stack of deleted batches
  restoring, \* what an undo that is running has yet to restore
  (* history, read by no action *)
  restored,  \* rows an undo put into the list
  lost       \* messages whose undo failed

window == <<picked, open, batch, undoable, restoring, restored, lost>>
vars   == <<listVars, window>>

Batch == [todo : Seq(Id), all : SUBSET Id, done : Seq(Id)]

ASSUME NoBatchAssumption == NoBatch \notin Batch

TypeOK ==
  /\ ListTypeOK
  /\ picked \in SUBSET Id
  /\ open \in Id \cup {NoMessage}
  /\ batch \in Batch \cup {NoBatch}
  /\ undoable \in Seq(Seq(Id))
  /\ restoring \in Seq(Id)
  /\ restored \in SUBSET Id /\ lost \in SUBSET Id

Init ==
  /\ ListInit
  /\ picked = {} /\ open = NoMessage
  /\ batch = NoBatch /\ undoable = <<>> /\ restoring = <<>>
  /\ restored = {} /\ lost = {}

Rows == IF list.data = NoData THEN <<>> ELSE list.data.items

-----------------------------------------------------------------------------
(* Picking and opening *)

\* Some clicks with a modifier, or the header checkbox.
Pick(ms) ==
  /\ Step
  /\ picked' = (picked \ ToSet(Rows)) \cup ms
  /\ UNCHANGED <<backend, list, at, failed, bar, calls, derailed>>
  /\ UNCHANGED <<open, batch, undoable, restoring, restored, lost>>

\* expandSelection: the ids behind what is listed or searched for right now.
ExpandSelection ==
  /\ Step
  /\ ~ \E c \in calls : c.kind = "ids"
  /\ calls' = calls \cup
       {Call("ids", 0, IF at.search = NoQuery THEN at.place ELSE at.search, 0)}
  /\ UNCHANGED <<backend, list, at, failed, bar, derailed, window>>

ReadIds ==
  \E c \in Unanswered({"ids"}) :
    /\ Reply(c, Done(IF c.of \in Query THEN Keep(Hits(c.of), cached)
                                       ELSE NewestFirst(Listed(c.of)), 0, FALSE))
    /\ UNCHANGED <<backend, list, at, failed, bar, left, derailed, window>>

IdsArrive ==
  \E c \in Answered({"ids"}) :
    /\ calls' = calls \ {c}
    /\ picked' = IF c.got = Failed THEN picked ELSE ToSet(c.got.rows)
    /\ UNCHANGED <<backend, list, at, failed, bar, left, derailed>>
    /\ UNCHANGED <<open, batch, undoable, restoring, restored, lost>>

Open(m) ==
  /\ Step
  /\ m \in ToSet(Rows)
  /\ open' = m /\ picked' = {}
  /\ UNCHANGED <<backend, list, at, failed, bar, calls, derailed>>
  /\ UNCHANGED <<batch, undoable, restoring, restored, lost>>

-----------------------------------------------------------------------------
(* Deleting *)

Without(rows, m) == Keep(rows, Id \ {m})

RemoveFromList(m) ==
  list' = IF list.status # "ready" THEN list
          ELSE [list EXCEPT
                  !.data.items = Without(@, m),
                  !.data.total = IF m \in ToSet(Rows) THEN Max({0, @ - 1}) ELSE @]

\* neighbourInList: the nearest surviving row below m, or else above it.
Neighbour(m, going) ==
  LET here  == {i \in DOMAIN Rows : Rows[i] = m}
      stays == Id \ (going \cup {m})
      below == Keep(SubSeq(Rows, Min(here) + 1, Len(Rows)), stays)
      above == Keep(SubSeq(Rows, 1, Min(here) - 1), stays)
  IN  IF list.status # "ready" \/ here = {} THEN NoMessage
      ELSE IF below # <<>> THEN Head(below)
      ELSE IF above # <<>> THEN Last(above)
      ELSE NoMessage

DropDeleted(m) ==
  /\ open' = IF open = m THEN Neighbour(m, batch.all) ELSE open
  /\ RemoveFromList(m)

\* Bound: one deletion runs at a time.
Delete(ms) ==
  /\ Step
  /\ batch = NoBatch /\ ms # <<>>
  /\ batch' = [todo |-> Tail(ms), all |-> ToSet(ms), done |-> <<>>]
  /\ calls' = calls \cup {Call("delete", 0, Head(ms), 0)}
  /\ UNCHANGED <<backend, list, at, failed, bar, derailed>>
  /\ UNCHANGED <<open, undoable, restoring, restored, lost>>

\* The picked rows that are loaded, or the one the menu or the pane is about.
DeletePicked == Delete(Keep(Rows, picked)) /\ picked' = {}

DeleteOne(m) ==
  /\ m \in ToSet(Rows) \cup {open}
  /\ Delete(<<m>>)
  /\ UNCHANGED picked

\* A mark for a row that a sync has dropped.
MarkAnyRow ==
  \E c \in Unanswered({"delete"}) :
    /\ pending' = pending \cup {c.of} /\ Reply(c, Done(<<>>, 0, FALSE))
    /\ UNCHANGED <<cached, expunged, list, at, failed, bar, left, derailed, window>>

\* DeleteMessage marks the row; a row that is gone is an error.
MarkDeletePending ==
  \E c \in Unanswered({"delete"}) :
    /\ IF c.of \in cached
         THEN pending' = pending \cup {c.of} /\ Reply(c, Done(<<>>, 0, FALSE))
         ELSE UNCHANGED pending /\ Reply(c, Failed)
    /\ UNCHANGED <<cached, expunged, list, at, failed, bar, left, derailed, window>>

\* An undo step is recorded when nothing failed.
RecordIfAll(done) == IF Len(done) = Cardinality(batch.all) THEN Append(undoable, done) ELSE undoable

\* recordDeletedBatch
Record(done) == IF done = <<>> THEN undoable ELSE Append(undoable, done)

DeleteArrives ==
  \E c \in Answered({"delete"}) :
    LET done == IF c.got = Failed THEN batch.done ELSE Append(batch.done, c.of)
    IN  /\ IF c.got = Failed THEN UNCHANGED <<list, open>> ELSE DropDeleted(c.of)
        /\ IF batch.todo = <<>>
             THEN /\ batch' = NoBatch
                  /\ undoable' = Record(done)
                  /\ calls' = calls \ {c}
             ELSE /\ batch' = [batch EXCEPT !.todo = Tail(@), !.done = done]
                  /\ calls' = (calls \ {c}) \cup {Call("delete", 0, Head(batch.todo), 0)}
                  /\ UNCHANGED undoable
        /\ UNCHANGED <<backend, at, failed, bar, left, derailed>>
        /\ UNCHANGED <<picked, restoring, restored, lost>>

-----------------------------------------------------------------------------
(* Undo *)

\* Bound: one undo runs at a time.
UndoDelete ==
  /\ Step
  /\ undoable # <<>> /\ restoring = <<>>
  /\ undoable' = Front(undoable)
  /\ restoring' = Last(undoable)
  /\ calls' = calls \cup {Call("undo", 0, Head(Last(undoable)), 0)}
  /\ UNCHANGED <<backend, list, at, failed, bar, derailed>>
  /\ UNCHANGED <<picked, open, batch, restored, lost>>

ClearDeletePending ==
  \E c \in Unanswered({"undo"}) :
    /\ IF c.of \in cached
         THEN pending' = pending \ {c.of} /\ Reply(c, Done(<<>>, 0, FALSE))
         ELSE UNCHANGED pending /\ Reply(c, Failed)
    /\ UNCHANGED <<cached, expunged, list, at, failed, bar, left, derailed, window>>

RestoreToList(m) ==
  list' = IF list.status # "ready" \/ m \in ToSet(Rows) THEN list
          ELSE [list EXCEPT !.data.items = Sorted(Append(@, m)), !.data.total = @ + 1]

\* One that fails does not hold back the rest.
UndoArrives ==
  \E c \in Answered({"undo"}) :
    /\ IF c.got = Failed
         THEN lost' = lost \cup {c.of} /\ UNCHANGED <<list, restored>>
         ELSE RestoreToList(c.of) /\ restored' = restored \cup {c.of} /\ UNCHANGED lost
    /\ restoring' = Tail(restoring)
    /\ calls' = (calls \ {c}) \cup
         (IF Len(restoring) = 1 THEN {} ELSE {Call("undo", 0, restoring[2], 0)})
    /\ UNCHANGED <<backend, at, failed, bar, left, derailed>>
    /\ UNCHANGED <<picked, open, batch, undoable>>

-----------------------------------------------------------------------------
\* What navigation does besides moving the list.
Move ==
  \/ \E place \in Place :
       /\ Choose(place)
       /\ open' = NoMessage
       /\ picked' = IF place # bar.place THEN {} ELSE picked
       /\ UNCHANGED <<batch, undoable, restoring, restored, lost>>
  \/ \E query \in Query \cup {NoQuery} :
       /\ Type(query)
       /\ picked' = {}
       /\ UNCHANGED <<open, batch, undoable, restoring, restored, lost>>

Loads == (Refresh \/ Scroll \/ LoadOlder \/ World \/ Deliver) /\ UNCHANGED window

User ==
  \/ Move
  \/ (\E ms \in SUBSET ToSet(Rows) : Pick(ms))
  \/ ExpandSelection
  \/ (\E m \in Id : Open(m) \/ DeleteOne(m))
  \/ DeletePicked
  \/ UndoDelete

Answers == ReadIds \/ IdsArrive \/ MarkDeletePending \/ DeleteArrives
             \/ ClearDeletePending \/ UndoArrives

Next == User \/ Loads \/ Answers

Spec == Init /\ [][Next]_vars

\* A call to the backend comes back.
FairSpec ==
  /\ Spec
  /\ WF_vars(Loads /\ (Read \/ FetchOlder \/ FetchOlderUnreachable \/ CallFails))
  /\ WF_vars(Loads /\ Deliver)
  /\ WF_vars(Answers)

-----------------------------------------------------------------------------
(* The list renders its rows by id, "which a duplicate would break          *)
(* outright": mail that arrives between two pages, a search that pages, a   *)
(* row an undo puts back, never show one message twice.                     *)
NoRowTwice == IsInjective(Rows)

(* What is on screen, once nothing is on its way, is the place or the       *)
(* search that was asked for last, however late the answers of earlier ones *)
(* came; but for a row an undo put back into whatever list was shown, and   *)
(* for a failed page of an earlier search that let the list page on in the  *)
(* middle of a load.                                                        *)
LastLoadWins ==
  Settled /\ ~derailed =>
    /\ list.data.searching <=> at.search # NoQuery
    /\ ToSet(Rows) \ restored \subseteq
         IF at.search = NoQuery THEN Contents[at.place] ELSE Matches[at.search]

(* A message the lists leave out because the user deleted it can be taken   *)
(* back until a sync expunges it: it is in a batch that is running, on the  *)
(* stack, being restored, or its undo failed.                               *)
EveryDeletionCanBeUndone ==
  \A m \in pending :
    \/ batch # NoBatch /\ m \in batch.all
    \/ \E i \in DOMAIN undoable : m \in ToSet(undoable[i])
    \/ m \in ToSet(restoring) \cup lost

(* Neither the list nor the older mail at its end waits for ever: every     *)
(* load and every page comes to an end, also one that was overtaken.        *)
ListSettles ==
  []<>(list.status # "loading" /\ (list.data # NoData => ~list.data.backfilling))

=============================================================================
