------------------------------ MODULE FolderSync ------------------------------
(***************************************************************************)
(* One folder's sync, step by step, as the engine runs it (sync/sync.go,   *)
(* pull.go, push.go), against a mailbox that other clients use and a cache *)
(* the user changes meanwhile.  The user's operations take no lock, so     *)
(* they fall between any two of the engine's store writes and server       *)
(* commands; syncMu only keeps two syncs apart.                            *)
(*                                                                         *)
(* The mailbox (uidValidity, mailbox, uidNext) is external: an IMAP server *)
(* as the engine's client uses it.  A server that renumbers a mailbox      *)
(* drops the connections that have it selected.                            *)
(***************************************************************************)
EXTENDS Reconcile

CONSTANTS
  InitialLimit,   \* Engine.InitialLimit, 0 for no limit
  BackfillBatch,  \* the batch of a BackfillFolder
  FetchBatch,     \* fetchBatch: bodies asked for in one command
  MaxValidity,    \* bound: how often the server renumbers the mailbox
  UserOps,        \* bound: what the user does
  RemoteOps,      \* bound: what other clients and the mail server do
  Faults          \* bound: failed calls, cancellations and crashes

ASSUME BoundAssumption ==
  /\ InitialLimit \in Nat /\ BackfillBatch \in Nat
  /\ FetchBatch \in Nat \ {0}
  /\ MaxValidity \in Nat \ {0}
  /\ UserOps \in Nat /\ RemoteOps \in Nat /\ Faults \in Nat

None == 0   \* no uid, no validity: both are positive on a server

Validity == 1..MaxValidity

\* A cached row.  validity is history: the UIDVALIDITY its uid belongs to.
Row == [flags : SUBSET Flag, pendingFlags : BOOLEAN, pendingDelete : BOOLEAN,
        validity : Validity]

ASSUME RowAssumption == Absent \notin Row

VARIABLES
  (* the server *)
  uidValidity, mailbox, uidNext,
  (* the store *)
  messages,   \* the folder's rows, by uid
  folder,     \* the folder's row: uidValidity, lastSeenUID, syncFloorUID
  (* the engine *)
  pc,         \* what the running sync does next, "idle" when none runs
  sel,        \* the UIDVALIDITY its SELECT returned
  st,         \* FolderSyncState, and the floor the row held at the start
  backfill,   \* how many older messages this sync admits
  locals,     \* the snapshot of ListMessageStates
  servers,    \* the snapshot of FetchAllFlags
  floor,      \* the window of this sync
  todo,       \* uids left in the current pass over the plan
  (* callers that loaded the folder row before their turn *)
  idle,       \* the INBOX row an idle session holds, and what it selected
  older,      \* the row a FetchOlderMessages holds
  edit,       \* a flag change between its read and its write
  (* bounds *)
  budget,
  (* history, read by no action *)
  want,       \* flags the user set that the server has not had since
  raced,      \* uids whose last flag change fell into a sync's window
  touched,    \* uids anyone else changed since the sync's snapshot
  faulty      \* whether the running sync skipped anything

server  == <<uidValidity, mailbox, uidNext>>
store   == <<messages, folder>>
engine  == <<pc, sel, st, backfill, locals, servers, floor, todo>>
callers == <<idle, older, edit>>
history == <<want, raced, touched, faulty>>
vars    == <<server, store, engine, callers, budget, history>>

Empty == [u \in Uid |-> Absent]

-----------------------------------------------------------------------------
Phase == {"idle", "purge", "stamp", "zero", "list", "view", "apply", "add",
          "clear", "fetch", "delete", "drop", "finish"}

SyncState == [lastSeen : Uid \cup {None}, floor : Uid \cup {None},
              storedFloor : Uid \cup {None}]

FolderRow == [uidValidity : Validity \cup {None}, lastSeenUID : Uid \cup {None},
              syncFloorUID : Uid \cup {None}]

Edit == [uid : Uid, flag : Flag, on : BOOLEAN, read : SUBSET Flag]

TypeOK ==
  /\ uidValidity \in Validity
  /\ mailbox \in ServerViews
  /\ uidNext \in Nat
  /\ messages \in [Uid -> Row \cup {Absent}]
  /\ folder \in FolderRow
  /\ pc \in Phase
  /\ sel \in Validity \cup {None}
  /\ st \in SyncState
  /\ backfill \in {0, BackfillBatch}
  /\ locals \in LocalViews
  /\ servers \in ServerViews
  /\ floor \in Uid \cup {None}
  /\ todo \in SUBSET Uid
  /\ idle \in {Absent} \cup [validity : Validity \cup {None}, sel : Validity]
  /\ older \in Validity \cup {None}
  /\ edit \in {Absent} \cup Edit
  /\ budget \in [user : Nat, remote : Nat, fault : Nat]
  /\ want \in [Uid -> SUBSET Flag]
  /\ raced \in SUBSET Uid
  /\ touched \in SUBSET Uid
  /\ faulty \in BOOLEAN

NoSyncState == [lastSeen |-> None, floor |-> None, storedFloor |-> None]

\* A mailbox's messages counted afresh, from the first uid on.
Numbered(uids) == \A u \in uids, v \in Uid : v < u => v \in uids

Unread(uids) == [u \in Uid |-> IF u \in uids THEN [flags |-> {}] ELSE Absent]

\* A folder the account just discovered, and a mailbox of any size.
Init ==
  /\ uidValidity = 1
  /\ \E uids \in SUBSET Uid : /\ Numbered(uids)
                              /\ mailbox = Unread(uids)
                              /\ uidNext = HighestUID(uids) + 1
  /\ messages = Empty
  /\ folder = [uidValidity |-> None, lastSeenUID |-> None, syncFloorUID |-> None]
  /\ pc = "idle" /\ sel = None /\ st = NoSyncState /\ backfill = 0
  /\ locals = Empty /\ servers = Empty /\ floor = None /\ todo = {}
  /\ idle = Absent /\ older = None /\ edit = Absent
  /\ budget = [user |-> UserOps, remote |-> RemoteOps, fault |-> Faults]
  /\ want = [u \in Uid |-> {}] /\ raced = {} /\ touched = {} /\ faulty = FALSE

-----------------------------------------------------------------------------
(* Helpers of the steps *)

\* ListMessageStates and localView: a row as reconcile sees it.
AsLocal(row) == [flags |-> row.flags, pendingFlags |-> row.pendingFlags,
                 pendingDelete |-> row.pendingDelete]

LocalView(rows) == [u \in Uid |-> IF rows[u] = Absent THEN Absent ELSE AsLocal(rows[u])]

Plan == BuildPlan(locals, servers, floor)

\* The session still has the mailbox it selected.
Connected == sel = uidValidity

\* A server that gains flags satisfies what the user wanted of them.
StillWanted(u, flags) == [want EXCEPT ![u] = @ \ flags]

\* Rows gone take with them what the user wanted of them, and an edit that has
\* only been read: its write will find no row.
RowsGone(gone) ==
  /\ messages' = [u \in Uid |-> IF u \in gone THEN Absent ELSE messages[u]]
  /\ want' = [u \in Uid |-> IF u \in gone THEN {} ELSE want[u]]
  /\ edit' = IF edit # Absent /\ edit.uid \in gone THEN Absent ELSE edit

\* A call that fails, as long as the run has failures left.
Fault == budget.fault > 0 /\ budget' = [budget EXCEPT !.fault = @ - 1]

EngineIdle ==
  /\ pc' = "idle" /\ sel' = None /\ st' = NoSyncState /\ backfill' = 0
  /\ locals' = Empty /\ servers' = Empty /\ floor' = None /\ todo' = {}

-----------------------------------------------------------------------------
(* The sync *)

\* A backfill that takes the folder's validity for granted.
BeginTrusting(stored, n) ==
  /\ pc = "idle"
  /\ sel' = uidValidity
  /\ st' = [lastSeen |-> folder.lastSeenUID, floor |-> folder.syncFloorUID,
            storedFloor |-> folder.syncFloorUID]
  /\ backfill' = n
  /\ pc' = IF stored = uidValidity \/ n > 0 THEN "list"
           ELSE IF stored = None THEN "stamp" ELSE "purge"
  /\ faulty' = FALSE
  /\ UNCHANGED <<server, store, locals, servers, floor, todo, budget, want, raced, touched>>

\* SELECT, then the state of the folder; stored is the UIDVALIDITY in the
\* folder value the caller passed, which need not be what the row holds now.
Begin(stored, n) ==
  /\ pc = "idle"
  /\ sel' = uidValidity
  /\ st' = [lastSeen |-> folder.lastSeenUID, floor |-> folder.syncFloorUID,
            storedFloor |-> folder.syncFloorUID]
  /\ backfill' = n
  /\ pc' = IF stored = uidValidity THEN "list"
           ELSE IF stored = None THEN "stamp" ELSE "purge"
  /\ faulty' = FALSE
  /\ UNCHANGED <<server, store, locals, servers, floor, todo, budget, want, raced, touched>>

\* syncFolders: the rows are listed under syncMu.
SyncFolder == Begin(folder.uidValidity, 0) /\ UNCHANGED callers

\* idleSession: on every push, with the row it found when it connected.
IdlePush ==
  /\ idle # Absent /\ idle.sel = uidValidity
  /\ Begin(idle.validity, 0)
  /\ UNCHANGED callers

\* backfillAccount: with the row read before syncMu was taken.
BackfillFolder ==
  /\ older # None
  /\ Begin(older, BackfillBatch)
  /\ older' = None
  /\ UNCHANGED <<idle, edit>>

\* handleUIDValidity, the cache of another generation.
PurgeSettledMessages ==   \* what waits to be pushed outlives the purge
  /\ pc = "purge"
  /\ RowsGone({u \in Uid : messages[u] # Absent /\ ~messages[u].pendingFlags})
  /\ raced' = {}
  /\ st' = [st EXCEPT !.lastSeen = None, !.floor = None]
  /\ pc' = "stamp"
  /\ UNCHANGED <<server, folder, sel, backfill, locals, servers, floor, todo,
                 idle, older, budget, touched, faulty>>

PurgeFolderMessages ==
  /\ pc = "purge"
  /\ RowsGone(Uid)
  /\ raced' = {}
  /\ st' = [st EXCEPT !.lastSeen = None, !.floor = None]
  /\ pc' = "stamp"
  /\ UNCHANGED <<server, folder, sel, backfill, locals, servers, floor, todo,
                 idle, older, budget, touched, faulty>>

SetFolderUIDValidity ==
  /\ pc = "stamp"
  /\ folder' = [folder EXCEPT !.uidValidity = sel]
  /\ pc' = "zero"
  /\ UNCHANGED <<server, messages, sel, st, backfill, locals, servers, floor, todo,
                 callers, budget, history>>

ZeroLastSeenUID ==
  /\ pc = "zero"
  /\ folder' = [folder EXCEPT !.lastSeenUID = None]
  /\ pc' = "list"
  /\ UNCHANGED <<server, messages, sel, st, backfill, locals, servers, floor, todo,
                 callers, budget, history>>

ListMessageStates ==
  /\ pc = "list"
  /\ locals' = LocalView(messages)
  /\ touched' = {}
  /\ pc' = "view"
  /\ UNCHANGED <<server, store, sel, st, backfill, servers, floor, todo,
                 callers, budget, want, raced, faulty>>

\* loadServerView, the window and the plan.  The passes of executePlan that
\* only sort decisions into lists change nothing and are not steps.
LoadServerView ==
  /\ pc = "view" /\ Connected
  /\ servers' = mailbox
  /\ floor' = WindowFloor(st.lastSeen, st.floor, Present(mailbox), Present(locals),
                          InitialLimit, backfill)
  /\ folder' = [folder EXCEPT !.syncFloorUID = IF floor' # st.storedFloor THEN floor' ELSE @]
  /\ todo' = WithAction(BuildPlan(locals, mailbox, floor'),
               {"DeleteLocal", "AdoptServerFlags", "PushFlags", "ClearPending"})
  /\ pc' = "apply"
  /\ UNCHANGED <<server, messages, sel, st, backfill, locals, callers, budget, history>>

-----------------------------------------------------------------------------
(* executePlan, newest first *)

Deciding(u, actions) ==
  /\ todo # {} /\ u = Max(todo)
  /\ Plan[u].action \in actions

DeleteLocal(u) ==
  /\ pc = "apply" /\ Deciding(u, {"DeleteLocal"})
  /\ RowsGone({u})
  /\ raced' = raced \ {u}
  /\ todo' = todo \ {u}
  /\ UNCHANGED <<server, folder, pc, sel, st, backfill, locals, servers, floor,
                 idle, older, budget, touched, faulty>>

AdoptServerFlags(u) ==
  /\ pc = "apply" /\ Deciding(u, {"AdoptServerFlags"})
  /\ messages' = [messages EXCEPT ![u].flags = Plan[u].flags]
  /\ todo' = todo \ {u}
  /\ UNCHANGED <<server, folder, pc, sel, st, backfill, locals, servers, floor,
                 callers, budget, history>>

\* The mark cleared with the store, before the server has the flags.
StoreAndClear(u) ==
  /\ pc = "apply" /\ Deciding(u, {"PushFlags", "ClearPending"})
  /\ messages' = [messages EXCEPT ![u].flags = Plan[u].flags, ![u].pendingFlags = FALSE]
  /\ pc' = IF Plan[u].action = "PushFlags" /\ Plan[u].flags # {} THEN "add" ELSE "clear"
  /\ UNCHANGED <<server, folder, sel, st, backfill, locals, servers, floor, todo,
                 callers, budget, history>>

\* pushFlags and clearPending both store the merge first.
StoreMergedFlags(u) ==
  /\ pc = "apply" /\ Deciding(u, {"PushFlags", "ClearPending"})
  /\ messages' = [messages EXCEPT ![u].flags = Plan[u].flags]
  /\ pc' = IF Plan[u].action = "PushFlags" /\ Plan[u].flags # {} THEN "add" ELSE "clear"
  /\ UNCHANGED <<server, folder, sel, st, backfill, locals, servers, floor, todo,
                 callers, budget, history>>

\* A STORE +FLAGS; on a uid the mailbox no longer has it does nothing.
AddFlags(u) ==
  /\ pc = "add" /\ Deciding(u, {"PushFlags"}) /\ Connected
  /\ IF mailbox[u] = Absent
       THEN UNCHANGED <<mailbox, want>>
       ELSE /\ mailbox' = [mailbox EXCEPT ![u].flags = @ \cup Plan[u].flags]
            /\ want' = StillWanted(u, Plan[u].flags)
  /\ pc' = "clear"
  /\ UNCHANGED <<uidValidity, uidNext, store, sel, st, backfill, locals, servers, floor,
                 todo, callers, budget, raced, touched, faulty>>

ClearFlagsPending(u) ==
  /\ pc = "clear" /\ Deciding(u, {"PushFlags", "ClearPending"})
  /\ messages' = [messages EXCEPT ![u].pendingFlags = FALSE]
  /\ pc' = "apply"
  /\ todo' = todo \ {u}
  /\ UNCHANGED <<server, folder, sel, st, backfill, locals, servers, floor,
                 callers, budget, history>>

\* A decision that fails is logged and skipped.
SkipDecision(u) ==
  /\ pc \in {"apply", "add", "clear"} /\ Deciding(u, Action)
  /\ IF pc = "add" /\ ~Connected THEN UNCHANGED budget ELSE Fault
  /\ pc' = "apply"
  /\ todo' = todo \ {u}
  /\ faulty' = TRUE
  /\ UNCHANGED <<server, store, sel, st, backfill, locals, servers, floor,
                 callers, want, raced, touched>>

EndDecisions ==
  /\ pc = "apply" /\ todo = {}
  /\ pc' = "fetch"
  /\ todo' = WithAction(Plan, {"FetchNew"})
  /\ UNCHANGED <<server, store, sel, st, backfill, locals, servers, floor,
                 callers, budget, history>>

-----------------------------------------------------------------------------
(* fetchNew, pushDeletes and the end of syncFolder *)

\* The next command asks for the newest uids left.
Batch == Newest(todo, FetchBatch)

\* New mail taken for unread mail.
StoreUnread(got) ==
  messages' = [u \in Uid |->
    IF u \in got THEN [flags |-> {}, pendingFlags |-> FALSE,
                       pendingDelete |-> FALSE, validity |-> sel]
                 ELSE messages[u]]

\* Bodies come with the flags the server holds now; a uid that is gone by now
\* is simply not in the answer.
Store(got) ==
  messages' = [u \in Uid |->
    IF u \in got THEN [flags |-> mailbox[u].flags, pendingFlags |-> FALSE,
                       pendingDelete |-> FALSE, validity |-> sel]
                 ELSE messages[u]]

FetchMessages ==
  /\ pc = "fetch" /\ todo # {} /\ Connected
  /\ Store(Batch \cap Present(mailbox))
  /\ todo' = todo \ Batch
  /\ UNCHANGED <<server, folder, pc, sel, st, backfill, locals, servers, floor,
                 callers, budget, history>>

\* Some of a batch is skipped (a message that does not parse, a row that does
\* not insert), or the command fails and the rest of the folder waits for the
\* next sync.
FetchMessagesFails ==
  /\ pc = "fetch" /\ todo # {}
  /\ IF Connected
       THEN /\ Fault
            /\ \E got \in SUBSET (Batch \cap Present(mailbox)) : Store(got)
            /\ todo' \in {todo \ Batch, {}}
       ELSE /\ todo' = {}
            /\ UNCHANGED <<messages, budget>>
  /\ faulty' = TRUE
  /\ UNCHANGED <<server, folder, pc, sel, st, backfill, locals, servers, floor,
                 callers, want, raced, touched>>

PendingDeletes == WithAction(Plan, {"PushDelete"})

EndFetch ==
  /\ pc = "fetch" /\ todo = {}
  /\ pc' = IF PendingDeletes = {} THEN "finish" ELSE "delete"
  /\ UNCHANGED <<server, store, sel, st, backfill, locals, servers, floor, todo,
                 callers, budget, history>>

\* MoveMessages to the trash, or DeleteMessages: the uids leave the mailbox.
PushDeletes ==
  /\ pc = "delete" /\ Connected
  /\ mailbox' = [u \in Uid |-> IF u \in PendingDeletes THEN Absent ELSE mailbox[u]]
  /\ pc' = "drop"
  /\ UNCHANGED <<uidValidity, uidNext, store, sel, st, backfill, locals, servers, floor,
                 todo, callers, budget, history>>

PushDeletesFails ==
  /\ pc = "delete"
  /\ IF Connected THEN Fault ELSE UNCHANGED budget
  /\ pc' = "finish"
  /\ faulty' = TRUE
  /\ UNCHANGED <<server, store, sel, st, backfill, locals, servers, floor, todo,
                 callers, want, raced, touched>>

\* The rows go one after the other; one that cannot be deleted ends the pass.
DropDeleted ==
  /\ pc = "drop"
  /\ \/ /\ RowsGone(PendingDeletes)
        /\ raced' = raced \ PendingDeletes
        /\ UNCHANGED <<budget, faulty>>
     \/ /\ Fault
        /\ faulty' = TRUE
        /\ \E gone \in SUBSET PendingDeletes :
             /\ gone # PendingDeletes
             /\ RowsGone(gone)
             /\ raced' = raced \ gone
  /\ pc' = "finish"
  /\ UNCHANGED <<server, folder, sel, st, backfill, locals, servers, floor, todo,
                 idle, older, touched>>

SetFolderLastSeenUID ==
  /\ pc = "finish"
  /\ folder' = [folder EXCEPT !.lastSeenUID = Max({HighestUID(Present(servers)), st.lastSeen})]
  /\ EngineIdle
  /\ UNCHANGED <<server, messages, callers, budget, history>>

\* An error return, or a cancelled context: the sync stops where it is.
Abort ==
  /\ pc # "idle"
  /\ IF pc = "view" /\ ~Connected THEN UNCHANGED budget ELSE Fault
  /\ EngineIdle
  /\ UNCHANGED <<server, store, callers, history>>

\* The app goes down: what the database holds is all that is left.
Crash ==
  /\ Fault
  /\ EngineIdle
  /\ idle' = Absent /\ older' = None /\ edit' = Absent
  /\ UNCHANGED <<server, store, history>>

-----------------------------------------------------------------------------
(* Callers that hold a folder row *)

\* idleSession connects: it finds the INBOX row, then selects it.
IdleConnect ==
  /\ idle = Absent
  /\ idle' = [validity |-> folder.uidValidity, sel |-> uidValidity]
  /\ UNCHANGED <<server, store, engine, older, edit, budget, history>>

IdleDisconnect ==
  /\ idle # Absent
  /\ idle' = Absent
  /\ UNCHANGED <<server, store, engine, older, edit, budget, history>>

\* FetchOlderMessages: foldersWithOlder, before syncMu is taken.
FetchOlderMessages ==
  /\ older = None /\ folder.syncFloorUID # None
  /\ older' = folder.uidValidity
  /\ UNCHANGED <<server, store, engine, idle, edit, budget, history>>

-----------------------------------------------------------------------------
(* The user, without any lock *)

UserActs == budget.user > 0 /\ budget' = [budget EXCEPT !.user = @ - 1]

\* updateFlag reads the mask, then writes the whole mask back.
ReadFlags(u, f, on) ==
  /\ edit = Absent /\ messages[u] # Absent
  /\ UserActs
  /\ edit' = [uid |-> u, flag |-> f, on |-> on, read |-> messages[u].flags]
  /\ UNCHANGED <<server, store, engine, idle, older, history>>

\* Between the snapshot and the decision on u, what the sync writes of u was
\* decided without this change.
InWindow(u) == pc = "view" \/ (pc \in {"apply", "add", "clear"} /\ u \in todo)

\* The flags the message lacks on the server, as far as it is there.
Missing(u, flags) ==
  IF mailbox[u] # Absent /\ messages[u].validity = uidValidity
    THEN flags \ mailbox[u].flags ELSE {}

MarkFlagsPending ==
  /\ edit # Absent
  /\ LET u     == edit.uid
         flags == IF edit.on THEN edit.read \cup {edit.flag} ELSE edit.read \ {edit.flag}
         kept  == (IF u \in raced THEN {} ELSE want[u]) \ {edit.flag}
     IN  /\ messages' = [messages EXCEPT ![u].flags = flags, ![u].pendingFlags = TRUE]
         /\ want' = [want EXCEPT ![u] =
                       kept \cup (IF edit.on THEN Missing(u, {edit.flag}) ELSE {})]
         /\ raced' = IF InWindow(u) THEN raced \cup {u} ELSE raced \ {u}
         /\ touched' = touched \cup {u}
  /\ edit' = Absent
  /\ UNCHANGED <<server, folder, engine, idle, older, budget, faulty>>

MarkDeletePending(u) ==
  /\ messages[u] # Absent /\ ~messages[u].pendingDelete
  /\ UserActs
  /\ messages' = [messages EXCEPT ![u].pendingDelete = TRUE]
  /\ touched' = touched \cup {u}
  /\ UNCHANGED <<server, folder, engine, callers, want, raced, faulty>>

ClearDeletePending(u) ==
  /\ messages[u] # Absent /\ messages[u].pendingDelete
  /\ UserActs
  /\ messages' = [messages EXCEPT ![u].pendingDelete = FALSE]
  /\ touched' = touched \cup {u}
  /\ UNCHANGED <<server, folder, engine, callers, want, raced, faulty>>

-----------------------------------------------------------------------------
(* Other clients and the mail server *)

Remote == budget.remote > 0 /\ budget' = [budget EXCEPT !.remote = @ - 1]

Deliver ==
  /\ Remote /\ uidNext \in Uid
  /\ mailbox' = [mailbox EXCEPT ![uidNext] = [flags |-> {}]]
  /\ uidNext' = uidNext + 1
  /\ touched' = touched \cup {uidNext}
  /\ UNCHANGED <<uidValidity, store, engine, callers, want, raced, faulty>>

RemoteFlags(u, flags) ==
  /\ mailbox[u] # Absent /\ mailbox[u].flags # flags
  /\ Remote
  /\ mailbox' = [mailbox EXCEPT ![u].flags = flags]
  /\ want' = StillWanted(u, flags)
  /\ touched' = touched \cup {u}
  /\ UNCHANGED <<uidValidity, uidNext, store, engine, callers, raced, faulty>>

RemoteExpunge(u) ==
  /\ mailbox[u] # Absent
  /\ Remote
  /\ mailbox' = [mailbox EXCEPT ![u] = Absent]
  /\ touched' = touched \cup {u}
  /\ UNCHANGED <<uidValidity, uidNext, store, engine, callers, want, raced, faulty>>

\* The mailbox comes back under another UIDVALIDITY, its uids counted afresh.
Renumber ==
  /\ uidValidity < MaxValidity
  /\ uidValidity' = uidValidity + 1
  /\ \E uids \in SUBSET Uid : /\ Numbered(uids)
                              /\ mailbox' = Unread(uids)
                              /\ uidNext' = HighestUID(uids) + 1
  /\ want' = [u \in Uid |-> {}]
  /\ touched' = Uid
  /\ UNCHANGED <<store, engine, callers, budget, raced, faulty>>

-----------------------------------------------------------------------------
SyncStep ==
  \/ PurgeFolderMessages \/ SetFolderUIDValidity \/ ZeroLastSeenUID
  \/ ListMessageStates \/ LoadServerView
  \/ \E u \in Uid : DeleteLocal(u) \/ AdoptServerFlags(u) \/ StoreMergedFlags(u)
                    \/ AddFlags(u) \/ ClearFlagsPending(u)
  \/ EndDecisions \/ FetchMessages \/ EndFetch \/ PushDeletes \/ DropDeleted
  \/ SetFolderLastSeenUID

Failure ==
  \/ \E u \in Uid : SkipDecision(u)
  \/ FetchMessagesFails \/ PushDeletesFails \/ Abort \/ Crash

User ==
  \/ \E u \in Uid, f \in Flag, on \in BOOLEAN : ReadFlags(u, f, on)
  \/ MarkFlagsPending
  \/ \E u \in Uid : MarkDeletePending(u) \/ ClearDeletePending(u)

OtherClients ==
  \/ Deliver \/ Renumber
  \/ \E u \in Uid : RemoteExpunge(u) \/ \E flags \in SUBSET Flag : RemoteFlags(u, flags)

Next ==
  \/ SyncFolder \/ IdlePush \/ BackfillFolder
  \/ SyncStep \/ Failure
  \/ IdleConnect \/ IdleDisconnect \/ FetchOlderMessages
  \/ User \/ OtherClients

Spec == Init /\ [][Next]_vars

\* The user's second half of an edit comes, a sync under way goes on, a lost
\* connection is noticed, and the auto sync loop starts another sync when none
\* runs.  Nothing obliges anybody else to act.
NoticeLoss == ~Connected /\ Failure

FairSpec ==
  /\ Spec
  /\ WF_vars(MarkFlagsPending)
  /\ WF_vars(SyncStep)
  /\ WF_vars(NoticeLoss)
  /\ WF_vars(SyncFolder)

-----------------------------------------------------------------------------
(* The cache never mixes UIDVALIDITY generations: every row was fetched     *)
(* under the validity its folder row holds, whichever caller started a      *)
(* sync, with however stale a folder value, and wherever a sync stopped.    *)
(* (handleUIDValidity purges before it writes the new validity.)            *)
RowsOfStoredValidity ==
  \A u \in Uid : messages[u] # Absent => messages[u].validity = folder.uidValidity

(* What the engine changes on the server is the message the user has in     *)
(* front of them: the uid it names is cached, under the validity the        *)
(* server's mailbox has now, and it takes away only what is marked for      *)
(* deletion or was, until the user undid it during this very sync.          *)
ServerChangesHitTheCachedMessage ==
  [][\A u \in Uid : mailbox'[u] # mailbox[u] /\ pc' # pc =>
       /\ messages[u] # Absent /\ messages[u].validity = uidValidity
       /\ mailbox'[u] = Absent => messages[u].pendingDelete \/ u \in touched]_vars

(* A flag the user set stays set in the cache and stays marked pending      *)
(* until the server has had it, over failed pushes, skipped decisions,      *)
(* cancelled syncs, restarts and whatever other clients do to the same      *)
(* message, as long as the change did not land inside the window of a       *)
(* running sync (pushFlags clears the mark last).                           *)
KeptUntilPushed ==
  \A u \in Uid : mailbox[u] # Absent /\ want[u] # {} /\ u \notin raced =>
    /\ messages[u] # Absent
    /\ want[u] \subseteq messages[u].flags
    /\ messages[u].pendingFlags

(* The union policy note of reconcile.go says of every flag change what     *)
(* KeptUntilPushed says of those outside a sync's window: "it guarantees    *)
(* we never lose a "seen" state".  Between syncs a flag the user set and    *)
(* the server has not had is still in the cache.                            *)
NeverLosesAFlag ==
  \A u \in Uid : pc = "idle" /\ mailbox[u] # Absent /\ want[u] # {} =>
    messages[u] # Absent /\ want[u] \subseteq messages[u].flags

(* A sync in which nothing was skipped leaves every message that nobody     *)
(* else touched meanwhile exactly where the reconciler's plan puts it, on   *)
(* both sides: the interleaved engine keeps the promise of the atomic one.  *)
CleanSyncKeepsPromise ==
  pc = "finish" /\ ~faulty =>
    \A u \in Uid \ touched :
      /\ LocalView(messages)[u] = LocalAfter(locals, servers, floor)[u]
      /\ mailbox[u] = ServerAfter(locals, servers, floor)[u]

(* The two sides agree on everything inside the window.                     *)
InSync ==
  /\ pc = "idle"
  /\ \A u \in Uid :
       /\ messages[u] # Absent => mailbox[u] # Absent
       /\ mailbox[u] # Absent /\ u >= folder.syncFloorUID =>
            /\ messages[u] # Absent
            /\ messages[u].flags = mailbox[u].flags
            /\ ~messages[u].pendingFlags /\ ~messages[u].pendingDelete

(* Once failures and changes stop for long enough the cache and the server  *)
(* agree again, from wherever a failed, cancelled or crashed sync, a        *)
(* renumbered mailbox or the user left them, with nothing left pending.     *)
AgreesAgain == []<>InSync

=============================================================================
