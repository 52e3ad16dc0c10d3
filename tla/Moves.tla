--------------------------------- MODULE Moves ---------------------------------
(***************************************************************************)
(* Archiving, moving and marking as spam, and the undo of all three.  The  *)
(* frontend works through a selection one message at a time                *)
(* (lib/messageactions.ts, MoveDialog.svelte) and keeps what it moved on a *)
(* stack (stores/undoarchive.ts); the backend moves each message on the    *)
(* server under syncMu (desktop/bind_archive.go, bind_spam.go,             *)
(* imap/move.go) and forgets its row.  What it is to move it has read      *)
(* before it waits for syncMu.                                             *)
(***************************************************************************)
EXTENDS Integers, SequencesExt

CONSTANTS
  Msg,                   \* the messages, and their Message-IDs
  Inbox, Archive, Junk,  \* the folders
  Action,                \* what can be under way at once
  NoAction, NoFolder,
  Extensions,            \* whether a server may have MOVE, and may lack it
  Filtered,              \* the messages that its filter has put in Junk
  KeepsJunk,             \* the folders whose PERMANENTFLAGS keep $Junk,
  KeepsNotJunk,          \* and $NotJunk
  Steps,                 \* bound: actions of the user and troubles, all told
  Troubles               \* bound: moves by other clients, changes of a UIDVALIDITY,
                         \* broken sessions, exits, and failures that are only logged

Folder == {Inbox, Archive, Junk}

ASSUME MovesAssumption ==
  /\ NoAction \notin Action /\ NoFolder \notin Folder
  /\ Cardinality(Folder) = 3 /\ IsFiniteSet(Msg)
  /\ Extensions \subseteq BOOLEAN /\ Filtered \subseteq Msg
  /\ {Steps, Troubles} \subseteq Nat

ASSUME KeepsAssumption == KeepsJunk \subseteq Folder /\ KeepsNotJunk \subseteq Folder

VARIABLES
  (* the server *)
  hasMove,      \* the MOVE extension
  copies,       \* what is in its folders
  uidValidity,
  uidNext,
  (* the store *)
  rows,         \* messages; a row is known by its copy and that one's validity
  spamOrigins,
  (* the program *)
  syncMu,       \* the action that holds it
  actions,
  archived,     \* the undo stack
  left,         \* what is left of the bounds
  (* history, read by no action *)
  home,         \* where each message was, and under which keywords
  markedIn,     \* for one in Junk: the folder it was marked as spam in
  torn,         \* messages copied whose original may be left
  astray,       \* messages deleted by a uid of an earlier validity
  phantom,      \* messages moved by a uid that had left the folder
  moot,         \* messages whose undo the model does not vouch for: those that two
                \* actions had in hand at once, or whose session broke, that another
                \* client moved, or were reached by a uid of an earlier validity, and
                \* all of them once Pelton has quit
  stuck,        \* the keywords that an undo was to take off, and could not
  unrecorded    \* messages whose last spam mark got its origin not recorded

server  == <<hasMove, copies, uidValidity, uidNext>>
store   == <<rows, spamOrigins>>
history == <<home, markedIn, torn, astray, phantom, moot, stuck, unrecorded>>
vars    == <<server, store, syncMu, actions, archived, left, history>>

Keyword == {"$Junk", "$NotJunk"}

Copy == [msg : Msg, folder : Folder, uid : Nat, keywords : SUBSET Keyword]
Row  == [msg : Msg, folder : Folder, uid : Nat, validity : Nat]
Task == [msg : Msg, folder : Folder, uid : Nat, validity : Nat, to : Folder]

\* done: the tasks that succeeded.
Act ==
  [op : {"none", "move", "spam", "notSpam", "undo"},
   at : {"idle", "read", "lock", "move", "remove", "drop", "note"},
   todo : Seq(Task), done : Seq(Task)]

TypeOK ==
  /\ hasMove \in Extensions
  /\ copies \subseteq Copy
  /\ \A c, d \in copies : c.folder = d.folder /\ c.uid = d.uid => c = d
  /\ uidValidity \in [Folder -> Nat] /\ uidNext \in [Folder -> Nat]
  /\ rows \subseteq Row
  /\ spamOrigins \in [Msg -> Folder \cup {NoFolder}]
  /\ syncMu \in Action \cup {NoAction}
  /\ actions \in [Action -> Act]
  /\ \A a \in Action : actions[a].op = "none" <=> actions[a].todo = <<>>
  /\ archived \in Seq(Seq(Task))
  /\ left \in [steps : 0..Steps, troubles : 0..Troubles]
  /\ home \in [Msg -> [folder : Folder, keywords : SUBSET Keyword]]
  /\ markedIn \in [Msg -> Folder \cup {NoFolder}]
  /\ torn \subseteq Msg /\ astray \subseteq Msg /\ phantom \subseteq Msg /\ moot \subseteq Msg
  /\ stuck \in [Msg -> SUBSET Keyword] /\ unrecorded \subseteq Msg

Idle == [op |-> "none", at |-> "idle", todo |-> <<>>, done |-> <<>>]

RowOf(c) == [msg |-> c.msg, folder |-> c.folder, uid |-> c.uid,
             validity |-> uidValidity[c.folder]]

RowsIn(f) == {RowOf(c) : c \in {d \in copies : d.folder = f}}

\* The mail of the inbox and of Junk, all of it cached.
Init ==
  /\ hasMove \in Extensions
  /\ home = [m \in Msg |-> IF m \in Filtered
                            THEN [folder |-> Junk, keywords |-> {"$Junk"}]
                            ELSE [folder |-> Inbox, keywords |-> {}]]
  /\ LET uid == CHOOSE f \in [Msg -> 1..Cardinality(Msg)] : IsInjective(f)
     IN  copies = {[msg |-> m, folder |-> home[m].folder, uid |-> uid[m],
                    keywords |-> home[m].keywords] : m \in Msg}
  /\ uidValidity = [f \in Folder |-> 1]
  /\ uidNext = [f \in Folder |-> Cardinality(Msg) + 1]
  /\ rows = UNION {RowsIn(f) : f \in Folder}
  /\ spamOrigins = [m \in Msg |-> NoFolder]
  /\ syncMu = NoAction
  /\ actions = [a \in Action |-> Idle]
  /\ archived = <<>>
  /\ left = [steps |-> Steps, troubles |-> Troubles]
  /\ markedIn = [m \in Msg |-> NoFolder]
  /\ torn = {} /\ astray = {} /\ phantom = {} /\ moot = {}
  /\ stuck = [m \in Msg |-> {}] /\ unrecorded = {}

Step == left.steps > 0 /\ left' = [left EXCEPT !.steps = @ - 1]
Trouble ==
  /\ left.steps > 0 /\ left.troubles > 0
  /\ left' = [steps |-> left.steps - 1, troubles |-> left.troubles - 1]

MsgsOf(tasks) == {tasks[i].msg : i \in DOMAIN tasks}

\* Those that another action has in hand.
InHand(a) ==
  UNION {MsgsOf(actions[b].todo \o actions[b].done) : b \in Action \ {a}}

-----------------------------------------------------------------------------
(* The user *)

Start(a, op, at, tasks) ==
  /\ Step
  /\ actions[a] = Idle /\ a = CHOOSE b \in Action : actions[b] = Idle
  /\ actions' = [actions EXCEPT ![a] = [op |-> op, at |-> at, todo |-> tasks, done |-> <<>>]]
  /\ moot' = moot \cup (MsgsOf(tasks) \cap InHand(a))
  /\ UNCHANGED <<server, store, syncMu, home, markedIn, torn, astray, phantom, stuck, unrecorded>>

TaskFor(r, to) == [msg |-> r.msg, folder |-> r.folder, uid |-> r.uid,
                   validity |-> r.validity, to |-> to]

\* archive and bulkArchive on rows of the list, and the move dialog, which leaves
\* out those that are there.
MoveRows(a, to) ==
  \E rs \in (SUBSET {r \in rows : to = Archive \/ r.folder # to}) \ {{}} :
    /\ Start(a, "move", "read", [i \in 1..Cardinality(rs) |-> TaskFor(SetToSeq(rs)[i], to)])
    /\ UNCHANGED archived

\* toggleSpam
ToggleSpam(a) ==
  \E r \in rows :
    /\ Start(a, IF r.folder = Junk THEN "notSpam" ELSE "spam", "read", <<TaskFor(r, Junk)>>)
    /\ UNCHANGED archived

Back(t) == [t EXCEPT !.folder = t.to, !.to = t.folder, !.uid = 0, !.validity = 0]

\* triggerUndoArchive
UndoArchive(a) ==
  /\ archived # <<>>
  /\ Start(a, "undo", "lock", [i \in DOMAIN Last(archived) |-> Back(Last(archived)[i])])
  /\ archived' = Front(archived)

-----------------------------------------------------------------------------
(* A message at a time *)

Now(a) == Head(actions[a].todo)

At(a, at) == actions[a].at = at

Goes(a, at) == actions' = [actions EXCEPT ![a].at = at]

\* One message too many.
FinishLate(a, done) ==
  LET act == actions[a]
  IN  IF Len(act.todo) > 0
        THEN /\ actions' = [actions EXCEPT ![a] =
                  [op |-> act.op, at |-> IF act.op = "undo" THEN "lock" ELSE "read",
                   todo |-> Tail(act.todo), done |-> done]]
             /\ UNCHANGED archived
        ELSE /\ actions' = [actions EXCEPT ![a] = Idle]
             /\ archived' = IF act.op = "undo" \/ done = <<>> THEN archived
                            ELSE Append(archived, done)

\* The next message, or the end: what was moved is one step to undo.
Finish(a, done) ==
  LET act == actions[a]
  IN  IF Len(act.todo) > 1
        THEN /\ actions' = [actions EXCEPT ![a] =
                  [op |-> act.op, at |-> IF act.op = "undo" THEN "lock" ELSE "read",
                   todo |-> Tail(act.todo), done |-> done]]
             /\ UNCHANGED archived
        ELSE /\ actions' = [actions EXCEPT ![a] = Idle]
             /\ archived' = IF act.op = "undo" \/ done = <<>> THEN archived
                            ELSE Append(archived, done)

Succeeds(a) == Finish(a, Append(actions[a].done, Now(a)))
Fails(a)    == Finish(a, actions[a].done)

\* notSpamDestination
NotSpamDestination(m) ==
  IF spamOrigins[m] \in Folder \ {Junk} THEN spamOrigins[m] ELSE Inbox

Destination(a) ==
  IF actions[a].op = "notSpam" THEN NotSpamDestination(Now(a).msg) ELSE Now(a).to

Cached(t) == \E r \in rows : [t EXCEPT !.to = Junk] = TaskFor(r, Junk)

\* Without the check of the destination.
GetAnyMessage(a) ==
  /\ At(a, "read")
  /\ IF Cached(Now(a))
       THEN /\ actions' = [actions EXCEPT ![a].at = "lock",
                             ![a].todo = <<[Now(a) EXCEPT !.to = Destination(a)]>> \o Tail(@)]
            /\ UNCHANGED archived
       ELSE Fails(a)
  /\ UNCHANGED <<server, store, syncMu, left, history>>

\* What ArchiveMessage, MoveMessage, MarkSpam and MarkNotSpam read, up to the lock.
GetMessage(a) ==
  /\ At(a, "read")
  /\ IF Cached(Now(a)) /\ Destination(a) # Now(a).folder
       THEN /\ actions' = [actions EXCEPT ![a].at = "lock",
                             ![a].todo = <<[Now(a) EXCEPT !.to = Destination(a)]>> \o Tail(@)]
            /\ UNCHANGED archived
       ELSE Fails(a)
  /\ UNCHANGED <<server, store, syncMu, left, history>>

\* The lock is had with the first command under it.
Lock(a) == At(a, "lock") /\ syncMu = NoAction /\ syncMu' = a

Unlock(a) == syncMu' = NoAction

\* The copy a uid names in the folder that is selected, whatever its validity.
Named(t) == {c \in copies : c.folder = t.folder /\ c.uid = t.uid}

\* The uid is of an earlier validity; only an undo looks for its own.
Stale(a) == actions[a].op # "undo" /\ Now(a).validity # uidValidity[Now(a).folder]

KeepsKeyword(f, k) == f \in IF k = "$Junk" THEN KeepsJunk ELSE KeepsNotJunk

\* Those of kw that are stored: a keyword that the mailbox does not keep is
\* skipped, and a STORE that fails is only logged.
Stored(kw, f, failed) == {k \in kw \ failed : KeepsKeyword(f, k)}

StoreKeywords(cs, add, remove, failed) ==
  copies' = (copies \ cs) \cup
    {[c EXCEPT !.keywords = (@ \ Stored(remove, c.folder, failed))
                              \cup Stored(add, c.folder, failed)] : c \in cs}

\* Something fails, and the call goes on.
LoggedIf(failure) == IF failure THEN Trouble ELSE UNCHANGED left

\* storeKeywords of a mark.
TagVerdict(a) ==
  /\ actions[a].op \in {"spam", "notSpam"} /\ Lock(a)
  /\ \E failed \in SUBSET Keyword :
       /\ IF actions[a].op = "spam"
            THEN StoreKeywords(Named(Now(a)), {"$Junk"}, {"$NotJunk"}, failed)
            ELSE StoreKeywords(Named(Now(a)), {"$NotJunk"}, {"$Junk"}, failed)
       /\ LoggedIf(failed # {})
  /\ Goes(a, "move")
  /\ moot' = IF Stale(a) THEN moot \cup {c.msg : c \in Named(Now(a))} ELSE moot
  /\ UNCHANGED <<hasMove, uidValidity, uidNext, store, archived>>
  /\ UNCHANGED <<home, markedIn, torn, astray, phantom, stuck, unrecorded>>

Newest(cs) == CHOOSE c \in cs : \A d \in cs : d.uid <= c.uid

\* The last message of the folder, not the one looked for.
SearchAny(t) == {c \in copies : c.folder = t.folder}

SearchByMessageID(t) == {c \in copies : c.folder = t.folder /\ c.msg = t.msg}

\* Without the keyword that is taken back.
SearchOnly(a) ==
  LET found == SearchByMessageID(Now(a))
      c     == Newest(found)
  IN  /\ actions[a].op = "undo" /\ found # {} /\ Lock(a)
      /\ spamOrigins' = IF c.folder = Junk THEN [spamOrigins EXCEPT ![Now(a).msg] = NoFolder]
                                           ELSE spamOrigins
      /\ actions' = [actions EXCEPT ![a].at = "move",
                       ![a].todo = <<[Now(a) EXCEPT !.uid = c.uid]>> \o Tail(@)]
      /\ UNCHANGED <<server, rows, archived, left, history>>

\* The keyword of the verdict that an undo withdraws.
Withdrawn(t) == IF t.folder = Junk THEN {"$Junk"}
                ELSE IF t.to = Junk THEN {"$NotJunk"} ELSE {}

\* RestoreMessage, up to its Move.  ForgetSpamOrigin too may fail, and is logged.
Search(a) ==
  LET found == SearchByMessageID(Now(a))
      c     == Newest(found)
      kw    == Withdrawn(Now(a))
  IN  /\ actions[a].op = "undo" /\ found # {} /\ Lock(a)
      /\ \E failed \in SUBSET kw, forgotten \in {TRUE, Now(a).folder # Junk} :
           /\ StoreKeywords({c}, {}, kw, failed)
           /\ stuck' = [stuck EXCEPT ![c.msg] =
                @ \cup ((kw \cap c.keywords) \ Stored(kw, c.folder, failed))]
           /\ spamOrigins' = IF Now(a).folder = Junk /\ forgotten
                THEN [spamOrigins EXCEPT ![Now(a).msg] = NoFolder] ELSE spamOrigins
           /\ LoggedIf(failed # {} \/ ~forgotten)
      /\ actions' = [actions EXCEPT ![a].at = "move",
                       ![a].todo = <<[Now(a) EXCEPT !.uid = c.uid]>> \o Tail(@)]
      /\ UNCHANGED <<hasMove, uidValidity, uidNext, rows, archived>>
      /\ UNCHANGED <<home, markedIn, torn, astray, phantom, moot, unrecorded>>

\* "moved message not found to restore"
NotFound(a) ==
  /\ actions[a].op = "undo" /\ At(a, "lock") /\ syncMu = NoAction
  /\ SearchByMessageID(Now(a)) = {}
  /\ Fails(a)
  /\ UNCHANGED <<server, store, syncMu, left, history>>

Landed(cs, to) ==
  {[c EXCEPT !.folder = to, !.uid = uidNext[to]] : c \in cs}

Noted(a, hit) ==
  /\ moot' = IF Stale(a) THEN moot \cup {Now(a).msg} \cup {c.msg : c \in hit} ELSE moot
  /\ markedIn' = [m \in Msg |->
       IF m \notin {c.msg : c \in hit} THEN markedIn[m]
       ELSE IF actions[a].op = "spam" THEN Now(a).folder ELSE NoFolder]
  /\ phantom' = IF hit = {} THEN phantom \cup {Now(a).msg} ELSE phantom
  /\ UNCHANGED <<home, torn, astray, stuck, unrecorded>>

\* A COPY that failed is taken for one that did not.
MoveOrNot(a) ==
  LET hit == Named(Now(a))
      to  == Now(a).to
  IN  /\ \/ At(a, "move") /\ UNCHANGED syncMu
         \/ actions[a].op = "move" /\ Lock(a)
      /\ \E landed \in {hit, {}} :
           /\ copies' = (IF hasMove THEN copies \ hit ELSE copies) \cup Landed(landed, to)
           /\ uidNext' = [uidNext EXCEPT ![to] = @ + Cardinality(landed)]
      /\ Noted(a, hit)
      /\ Goes(a, IF hasMove THEN "drop" ELSE "remove")
      /\ UNCHANGED <<hasMove, uidValidity, store, archived, left>>

\* MoveMessages: MOVE, or the COPY of the two that stand for it.  A uid that is
\* not there is no error.
MoveMessage(a) ==
  LET hit == Named(Now(a))
      to  == Now(a).to
  IN  /\ \/ At(a, "move") /\ UNCHANGED syncMu
         \/ actions[a].op = "move" /\ Lock(a)
      /\ copies' = (IF hasMove THEN copies \ hit ELSE copies) \cup Landed(hit, to)
      /\ uidNext' = [uidNext EXCEPT ![to] = @ + Cardinality(hit)]
      /\ Noted(a, hit)
      /\ Goes(a, IF hasMove THEN "drop" ELSE "remove")
      /\ UNCHANGED <<hasMove, uidValidity, store, archived, left>>

\* The original is marked, but not expunged.
MarkDeleted(a) ==
  /\ At(a, "remove")
  /\ Goes(a, "drop")
  /\ UNCHANGED <<server, store, syncMu, archived, left, history>>

Copied(a) == IF At(a, "remove") THEN {c.msg : c \in Named(Now(a))} ELSE {}

\* DeleteMessages of the original, or of what has got its uid since the COPY.
DeleteMessages(a) ==
  /\ At(a, "remove")
  /\ copies' = copies \ Named(Now(a))
  /\ astray' = IF Stale(a) THEN astray \cup Copied(a) ELSE astray
  /\ Goes(a, "drop")
  /\ UNCHANGED <<hasMove, uidValidity, uidNext, store, syncMu, archived, left>>
  /\ UNCHANGED <<home, markedIn, torn, phantom, moot, stuck, unrecorded>>

\* The move is over for an undo; otherwise the row goes, and a row that has gone
\* already is an error.
DropRow(a) ==
  LET gone == {r \in rows : TaskFor(r, Now(a).to) = Now(a)}
  IN  /\ At(a, "drop") /\ Unlock(a)
      /\ rows' = rows \ gone
      /\ IF actions[a].op # "undo" /\ gone = {}
           THEN Fails(a)
         ELSE IF actions[a].op \in {"spam", "notSpam"}
           THEN Goes(a, "note") /\ UNCHANGED archived
         ELSE Succeeds(a)
      /\ UNCHANGED <<server, spamOrigins, left, history>>

\* The folder it is in now, not the one it came from.
NoteDestination(a) ==
  /\ At(a, "note")
  /\ spamOrigins' = [spamOrigins EXCEPT ![Now(a).msg] =
       IF actions[a].op = "spam" THEN Now(a).to ELSE NoFolder]
  /\ Succeeds(a)
  /\ UNCHANGED <<server, rows, syncMu, left, history>>

\* RecordSpamOrigin and ForgetSpamOrigin, after the lock is released; either may
\* fail, and the mark succeeds all the same.
NoteOrigin(a) ==
  LET m == Now(a).msg
  IN  /\ At(a, "note")
      /\ \/ /\ spamOrigins' = [spamOrigins EXCEPT ![m] =
                   IF actions[a].op = "spam" THEN Now(a).folder ELSE NoFolder]
            /\ unrecorded' = unrecorded \ {m}
            /\ UNCHANGED left
         \/ /\ Trouble
            /\ unrecorded' = IF actions[a].op = "spam" THEN unrecorded \cup {m}
                                                       ELSE unrecorded
            /\ UNCHANGED spamOrigins
      /\ Succeeds(a)
      /\ UNCHANGED <<server, rows, syncMu>>
      /\ UNCHANGED <<home, markedIn, torn, astray, phantom, moot, stuck>>

\* A broken session whose lock nobody gives back.
BreakHolding(a) ==
  /\ actions[a].at \in {"lock", "move", "remove"}
  /\ Trouble
  /\ Fails(a) /\ UNCHANGED syncMu
  /\ torn' = torn \cup Copied(a) /\ moot' = moot \cup {Now(a).msg} \cup Copied(a)
  /\ UNCHANGED <<server, store, home, markedIn, astray, phantom, stuck, unrecorded>>

\* The session breaks, or the server refuses; an answer that is lost leaves what
\* the command did.
Break(a) ==
  /\ actions[a].at \in {"lock", "move", "remove", "drop"}
  /\ Trouble
  /\ Fails(a)
  /\ IF syncMu = a THEN Unlock(a) ELSE UNCHANGED syncMu
  /\ torn' = torn \cup Copied(a) /\ moot' = moot \cup {Now(a).msg} \cup Copied(a)
  /\ UNCHANGED <<server, store, home, markedIn, astray, phantom, stuck, unrecorded>>

-----------------------------------------------------------------------------
(* Everybody else *)

\* A whole sync of a folder (FolderSync): renumbered rows are purged.
Sync(f) ==
  /\ syncMu = NoAction
  /\ rows' = {r \in rows : r.folder # f} \cup RowsIn(f)
  /\ rows' # rows
  /\ UNCHANGED <<server, spamOrigins, syncMu, actions, archived, left, history>>

\* Another client, or the server's filter, moves a message.
MoveElsewhere(c, to) ==
  /\ Trouble
  /\ to # c.folder
  /\ copies' = (copies \ {c}) \cup Landed({c}, to)
  /\ uidNext' = [uidNext EXCEPT ![to] = @ + 1]
  /\ moot' = moot \cup {c.msg}
  /\ markedIn' = [markedIn EXCEPT ![c.msg] = NoFolder]
  /\ torn' = torn \cup ((UNION {Copied(a) : a \in Action}) \cap {c.msg})
  /\ UNCHANGED <<hasMove, uidValidity, store, syncMu, actions, archived>>
  /\ UNCHANGED <<home, astray, phantom, stuck, unrecorded>>

\* The server drops the sessions that have the folder selected.
Renumber(f) ==
  LET old == {c \in copies : c.folder = f}
      n   == Cardinality(old)
  IN  /\ Trouble
      /\ old # {}
      /\ syncMu # NoAction => Now(syncMu).folder # f
      /\ \E uid \in [old -> 1..n] :
           /\ IsInjective(uid)
           /\ copies' = (copies \ old) \cup {[c EXCEPT !.uid = uid[c]] : c \in old}
      /\ uidValidity' = [uidValidity EXCEPT ![f] = @ + 1]
      /\ uidNext' = [uidNext EXCEPT ![f] = n + 1]
      /\ UNCHANGED <<hasMove, store, syncMu, actions, archived, history>>

\* Pelton quits and starts again.
Quit ==
  /\ Trouble
  /\ actions' = [a \in Action |-> Idle] /\ archived' = <<>>
  /\ syncMu' = NoAction
  /\ torn' = torn \cup UNION {Copied(a) : a \in Action}
  /\ moot' = Msg
  /\ UNCHANGED <<server, store, home, markedIn, astray, phantom, stuck, unrecorded>>

-----------------------------------------------------------------------------
User(a) == (\E to \in Folder : MoveRows(a, to)) \/ ToggleSpam(a) \/ UndoArchive(a)

Work(a) == GetMessage(a) \/ TagVerdict(a) \/ Search(a) \/ NotFound(a)
             \/ MoveMessage(a) \/ DeleteMessages(a) \/ DropRow(a) \/ NoteOrigin(a)

Next ==
  \/ \E a \in Action : User(a) \/ Work(a) \/ Break(a)
  \/ \E f \in Folder : Sync(f) \/ Renumber(f)
  \/ \E c \in copies, to \in Folder : MoveElsewhere(c, to)
  \/ Quit

Spec == Init /\ [][Next]_vars

\* What is under way goes on; syncMu, free again and again, is had in turn.
FairSpec == Spec /\ \A a \in Action : SF_vars(Work(a))

-----------------------------------------------------------------------------
CopiesOf(m) == {c \in copies : c.msg = m}

(* "If this fails nothing has been removed, and the mail is still where it  *)
(* was" (MoveMessages): wherever moves, undos and sessions break off, every *)
(* message is somewhere on the server.  But for one that in a renumbered     *)
(* folder gets the uid that was copied in vain, before it is deleted.       *)
NothingLost == \A m \in Msg \ astray : CopiesOf(m) # {}

(* And it is there once, but between the two halves of a move without MOVE  *)
(* and after one that broke off there.                                      *)
NothingDoubled ==
  \A m \in Msg \ torn :
    Cardinality(CopiesOf(m)) > 1 => \E a \in Action : At(a, "remove") /\ Named(Now(a)) # {}

(* A message leaves a folder by Pelton's doing only if it is the one the    *)
(* user clicked or takes back, however long the call waited for syncMu and  *)
(* whatever syncs, other clients and undos did meanwhile; but for a folder  *)
(* renumbered since its row was cached, whose uid moveMessageTo uses as it  *)
(* is.                                                                      *)
MovesTheOneMeant ==
  [][\A a \in Action :
       actions[a].at \in {"lock", "move"} /\ actions'[a].at \in {"remove", "drop"} =>
         Stale(a) \/ \A c \in Named(Now(a)) : c.msg = Now(a).msg]_vars

(* "Reporting [success] for a move that never happened made the message     *)
(* look deleted until the next sync brought it back" (moveMessageTo): a row *)
(* is dropped only when the message is no longer in the row's folder.  But  *)
(* for a message once moved by a uid that had left: an undo leaves the row  *)
(* in the folder it takes the message from, and a move of that row succeeds.*)
DroppedOnlyWhenMoved ==
  [][\A a \in Action : At(a, "drop") =>
       \A r \in rows \ rows' :
         r.validity = uidValidity[r.folder] /\ r.msg \notin moot \cup phantom =>
           \A c \in CopiesOf(r.msg) : c.folder # r.folder]_vars

(* "Move the last one back to where it came from" (undoarchive.ts): with    *)
(* all that was moved taken back, every message is where it was, and "the   *)
(* server's filter is not left learning from a verdict the user withdrew"   *)
(* (RestoreMessage): it has no keyword more than it had, but for one that   *)
(* the undo could not take off (a folder that does not keep it, a STORE     *)
(* that failed: storeKeywords skips and logs), which the move brings home.  *)
(* Not for the messages that are moot: above all, an undo that overlaps     *)
(* another action on the same message may send it anywhere.  Nor for those  *)
(* once moved by a uid that had left: a move of a row that an undo left     *)
(* behind is on the stack, and never happened.                              *)
UndoneIsHome ==
  (\A a \in Action : actions[a] = Idle) =>
    \A m \in Msg \ (moot \cup phantom) :
      (\A i \in DOMAIN archived : m \notin MsgsOf(archived[i])) =>
        \A c \in CopiesOf(m) :
          /\ c.folder = home[m].folder
          /\ c.keywords \subseteq home[m].keywords \cup stuck[m]

(* A message marked as spam goes back "to the folder it was marked as spam  *)
(* from when that was recorded here" (MarkNotSpam): from a mark until it is *)
(* taken out of Junk, that folder is on record whenever nothing is under    *)
(* way, but for a record that failed (unrecorded), which is only logged.    *)
(* Not for the messages that are moot: the origin is written after syncMu   *)
(* is released, and a rescue and a mark of one message that are under way   *)
(* together may write theirs in the wrong order.  Nor for marks on a row    *)
(* that an undo left behind.  A rescue that is undone puts the message back *)
(* in Junk without its origin, which RestoreMessage does not restore: it    *)
(* counts as not marked from then on (markedIn).                            *)
OriginRemembered ==
  (\A a \in Action : actions[a] = Idle) =>
    \A m \in Msg \ (moot \cup phantom \cup unrecorded) :
      markedIn[m] # NoFolder => NotSpamDestination(m) = markedIn[m]

(* Every action comes to an end, and with it what it keeps from the syncs.  *)
ActionsEnd == []<>(\A a \in Action : actions[a] = Idle)

=============================================================================
