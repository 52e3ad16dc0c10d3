--------------------------- MODULE FolderSyncProofs ---------------------------
(***************************************************************************)
(* Proofs about FolderSync for every set of uids and flags, every limit    *)
(* and every number of user actions, remote changes and failures.          *)
(***************************************************************************)
EXTENDS FolderSync, ReconcileLemmas

\* The phases in which the plan of the running sync stands.
Applying == {"apply", "add", "clear"}
Planning == Applying \cup {"fetch", "delete"}

\* The passes over the plan look at decisions of the kinds they handle.
TodoFitsPhase ==
  /\ pc \in Applying => todo \subseteq WithAction(Plan,
       {"DeleteLocal", "AdoptServerFlags", "PushFlags", "ClearPending"})
  /\ pc = "fetch" => todo \subseteq WithAction(Plan, {"FetchNew"})

\* A row that something is about to be written to is there: nobody but the
\* engine removes rows, and it removes none between the snapshot and its use.
RowsThere ==
  /\ edit # Absent => messages[edit.uid] # Absent
  /\ pc = "view" => \A u \in Uid : locals[u] # Absent =>
       /\ messages[u] # Absent
       /\ locals[u].pendingDelete => messages[u].pendingDelete \/ u \in touched
  /\ pc \in Applying => \A u \in todo :
       Plan[u].action # "DeleteLocal" => messages[u] # Absent
  /\ pc \in Planning => \A u \in PendingDeletes :
       /\ messages[u] # Absent
       /\ messages[u].pendingDelete \/ u \in touched

\* How the validities held by the engine and its callers relate to the row's.
Generations ==
  /\ folder.uidValidity <= uidValidity
  /\ idle # Absent => /\ idle.sel <= uidValidity
                      /\ idle.validity <= folder.uidValidity
                      /\ idle.validity = None =>
                           messages = Empty \/ idle.sel <= folder.uidValidity
  /\ older <= folder.uidValidity
  /\ sel <= uidValidity
  /\ pc # "idle" => folder.uidValidity <= sel
  /\ pc \notin {"idle", "purge", "stamp"} => folder.uidValidity = sel
  /\ pc = "stamp" => messages = Empty \/ folder.uidValidity = sel

IInv == TypeOK /\ TodoFitsPhase /\ RowsThere /\ RowsOfStoredValidity /\ Generations

-----------------------------------------------------------------------------
(* Facts the steps share *)

USE DEF server, store

\* The plan of the running sync: its decisions, and what each presupposes.
LEMMA PlanDecides ==
  ASSUME TypeOK, NEW u \in DOMAIN Plan
  PROVE  /\ u \in Uid
         /\ Plan[u] \in Decision
         /\ Plan[u].action = "FetchNew" <=> locals[u] = Absent
         /\ Plan[u].action = "DeleteLocal" <=> locals[u] # Absent /\ servers[u] = Absent
         /\ Plan[u].action = "PushDelete" =>
              locals[u] # Absent /\ servers[u] # Absent /\ locals[u].pendingDelete
<1>1. u \in Uid /\ Plan[u] = ReconcileOne(locals[u], servers[u])
  BY DEF Plan, BuildPlan, Planned, Present
<1>2. locals[u] \in Local \cup {Absent} /\ servers[u] \in Server \cup {Absent}
  BY <1>1 DEF TypeOK, LocalViews, ServerViews
<1> QED BY <1>1, <1>2, ReconcileOneDecides

LEMMA WithActionPlanned ==
  ASSUME NEW actions
  PROVE  WithAction(Plan, actions) \subseteq Uid
BY DEF WithAction, Plan, BuildPlan, Planned, Present

\* The decision taken next is one of those left over.
LEMMA DecidingFromTodo ==
  ASSUME TypeOK, NEW u, NEW actions, Deciding(u, actions)
  PROVE  u \in todo /\ u \in Uid
BY MaxOfUids DEF TypeOK, Deciding

\* A decision that writes to a row finds the row there.
LEMMA DecidingFindsRow ==
  ASSUME TypeOK, TodoFitsPhase, RowsThere, pc \in Applying,
         NEW u, NEW actions, Deciding(u, actions), "DeleteLocal" \notin actions
  PROVE  /\ u \in Uid /\ u \in todo
         /\ messages[u] \in Row
         /\ u \in DOMAIN Plan
         /\ Plan[u].flags \in SUBSET Flag
<1>1. u \in todo /\ u \in Uid
  BY DecidingFromTodo
<1>2. u \in DOMAIN Plan /\ Plan[u].action \in actions
  BY <1>1 DEF TodoFitsPhase, WithAction, Deciding
<1>3. messages[u] # Absent
  BY <1>1, <1>2 DEF RowsThere
<1>4. Plan[u] \in Decision
  BY <1>2, PlanDecides
<1> QED BY <1>1, <1>2, <1>3, <1>4 DEF TypeOK, Decision

\* Views and rows the steps build.
LEMMA EmptyView ==
  Empty \in LocalViews /\ Empty \in ServerViews
BY DEF Empty, LocalViews, ServerViews

LEMMA UnreadView ==
  ASSUME NEW uids \in SUBSET Uid
  PROVE  Unread(uids) \in ServerViews /\ HighestUID(uids) + 1 \in Nat
<1>1. Unread(uids) \in ServerViews
  BY DEF Unread, ServerViews, Server
<1>2. HighestUID(uids) \in uids \cup {0}
  BY HighestUIDIsUid
<1>3. HighestUID(uids) \in Nat
  <2>1. \A u \in uids \cup {0} : u \in Nat
    BY UidNatural
  <2> QED BY <1>2, <2>1
<1> QED BY <1>1, <1>3

LEMMA StoredRows ==
  ASSUME TypeOK, Connected, NEW got \in SUBSET Present(mailbox), Store(got)
  PROVE  /\ messages' \in [Uid -> Row \cup {Absent}]
         /\ \A u \in Uid : IF u \in got THEN messages'[u] \in Row ELSE messages'[u] = messages[u]
<1>1. \A u \in got : mailbox[u] \in Server
  BY DEF TypeOK, ServerViews, Present
<1>2. ASSUME NEW u \in got
      PROVE  [flags |-> mailbox[u].flags, pendingFlags |-> FALSE,
              pendingDelete |-> FALSE, validity |-> sel] \in Row
  BY <1>1 DEF TypeOK, Connected, Row, Server
<1>3. messages \in [Uid -> Row \cup {Absent}]
  BY DEF TypeOK
<1>4. got \subseteq Uid
  BY DEF Present
<1> QED BY <1>2, <1>3, <1>4 DEF Store

LEMMA EngineIdleType ==
  ASSUME EngineIdle
  PROVE  /\ pc' \in Phase /\ sel' \in Validity \cup {None} /\ st' \in SyncState
         /\ backfill' \in {0, BackfillBatch} /\ locals' \in LocalViews
         /\ servers' \in ServerViews /\ floor' \in Uid \cup {None} /\ todo' \in SUBSET Uid
BY EmptyView DEF EngineIdle, Phase, NoSyncState, SyncState

LEMMA RowsGoneType ==
  ASSUME TypeOK, NEW gone, RowsGone(gone)
  PROVE  /\ messages' \in [Uid -> Row \cup {Absent}]
         /\ want' \in [Uid -> SUBSET Flag]
         /\ edit' \in {Absent} \cup Edit
BY DEF TypeOK, RowsGone

-----------------------------------------------------------------------------
(* Type correctness *)

LEMMA TypeInit == Init => TypeOK
<1> SUFFICES ASSUME Init PROVE TypeOK
  OBVIOUS
<1> USE BoundAssumption, UidNatural
<1>1. mailbox \in ServerViews /\ uidNext \in Nat
  BY UnreadView DEF Init
<1>2. messages \in [Uid -> Row \cup {Absent}] /\ folder \in FolderRow
  BY DEF Init, Empty, FolderRow
<1>3. st \in SyncState /\ want \in [Uid -> SUBSET Flag]
      /\ budget \in [user : Nat, remote : Nat, fault : Nat]
  BY DEF Init, NoSyncState, SyncState
<1>4. uidValidity \in Validity
  BY DEF Init, Validity
<1>5. locals \in LocalViews /\ servers \in ServerViews
  BY EmptyView DEF Init
<1> QED BY <1>1, <1>2, <1>3, <1>4, <1>5 DEF Init, TypeOK, Phase

\* The steps of a sync keep every variable in its type.
LEMMA TypeSync ==
  ASSUME TypeOK, TodoFitsPhase, RowsThere, SyncStep
  PROVE  TypeOK'
<1> USE BoundAssumption, UidNatural, RowAssumption DEF TypeOK
<1>4. CASE PurgeFolderMessages
  BY <1>4 DEF PurgeFolderMessages, RowsGone, SyncState, Phase
<1>5. CASE SetFolderUIDValidity
  BY <1>5 DEF SetFolderUIDValidity, callers, history, FolderRow, Phase
<1>6. CASE ZeroLastSeenUID
  BY <1>6 DEF ZeroLastSeenUID, callers, history, FolderRow, Phase
<1>7. CASE ListMessageStates
  BY <1>7 DEF ListMessageStates, callers, LocalView, LocalViews, AsLocal, Local, Row, Phase
<1>8. CASE LoadServerView
  <2>1. floor' \in Uid \cup {None}
    <3>1. Present(mailbox) \in SUBSET Uid /\ st.floor \in Uid \cup {0}
          /\ InitialLimit \in Int /\ backfill \in Int
      BY DEF Present, SyncState, None
    <3> QED BY <1>8, <3>1, WindowFloorIsUid DEF LoadServerView, None
  <2>2. todo' \in SUBSET Uid
    BY <1>8 DEF LoadServerView, WithAction, BuildPlan, Planned, Present
  <2>3. folder' \in FolderRow
    BY <1>8, <2>1 DEF LoadServerView, FolderRow
  <2> QED BY <1>8, <2>1, <2>2, <2>3 DEF LoadServerView, callers, history, Phase
<1>9. ASSUME NEW u \in Uid, DeleteLocal(u)
      PROVE  TypeOK'
  BY <1>9 DEF DeleteLocal, RowsGone
<1>10. ASSUME NEW u \in Uid, AdoptServerFlags(u)
       PROVE  TypeOK'
  <2>1. messages[u] \in Row /\ Plan[u].flags \in SUBSET Flag
    BY <1>10, DecidingFindsRow DEF AdoptServerFlags, Applying
  <2> QED BY <1>10, <2>1 DEF AdoptServerFlags, callers, history, Row
<1>11. ASSUME NEW u \in Uid, StoreMergedFlags(u)
       PROVE  TypeOK'
  <2>1. messages[u] \in Row /\ Plan[u].flags \in SUBSET Flag
    BY <1>11, DecidingFindsRow DEF StoreMergedFlags, Applying
  <2> QED BY <1>11, <2>1 DEF StoreMergedFlags, callers, history, Row, Phase
<1>12. ASSUME NEW u \in Uid, AddFlags(u)
       PROVE  TypeOK'
  <2>1. Plan[u].flags \in SUBSET Flag
    BY <1>12, DecidingFindsRow DEF AddFlags, Applying
  <2> QED BY <1>12, <2>1 DEF AddFlags, StillWanted, callers, ServerViews, Server, Phase
<1>13. ASSUME NEW u \in Uid, ClearFlagsPending(u)
       PROVE  TypeOK'
  <2>1. messages[u] \in Row
    BY <1>13, DecidingFindsRow DEF ClearFlagsPending, Applying
  <2> QED BY <1>13, <2>1 DEF ClearFlagsPending, callers, history, Row, Phase
<1>14. CASE EndDecisions
  BY <1>14, WithActionPlanned DEF EndDecisions, callers, history, Phase
<1>15. CASE FetchMessages
  <2>1. Batch \cap Present(mailbox) \in SUBSET Present(mailbox)
    OBVIOUS
  <2>2. messages' \in [Uid -> Row \cup {Absent}]
    BY <1>15, <2>1, StoredRows DEF FetchMessages
  <2> QED BY <1>15, <2>2 DEF FetchMessages, callers, history
<1>16. CASE EndFetch
  BY <1>16 DEF EndFetch, callers, history, Phase
<1>17. CASE PushDeletes
  BY <1>17 DEF PushDeletes, callers, history, ServerViews, Phase
<1>18. CASE DropDeleted
  <2>1. PICK gone : RowsGone(gone)
    BY <1>18 DEF DropDeleted
  <2>2. raced' \in SUBSET Uid
    BY <1>18 DEF DropDeleted
  <2>3. faulty' \in BOOLEAN
    BY <1>18 DEF DropDeleted
  <2>4. budget' \in [user : Nat, remote : Nat, fault : Nat]
    BY <1>18 DEF DropDeleted, Fault
  <2> QED BY <1>18, <2>1, <2>2, <2>3, <2>4, RowsGoneType DEF DropDeleted, Phase
<1>19. CASE SetFolderLastSeenUID
  <2>1. Present(servers) \in SUBSET Uid
    BY DEF Present
  <2>2. HighestUID(Present(servers)) \in Uid \cup {0} /\ st.lastSeen \in Uid \cup {0}
    BY <2>1, HighestUIDIsUid DEF SyncState, None
  <2>3. folder' \in FolderRow
    BY <1>19, <2>2, MaxOfTwo DEF SetFolderLastSeenUID, FolderRow, None
  <2> QED BY <1>19, <2>3, EngineIdleType DEF SetFolderLastSeenUID, callers, history
<1> QED BY <1>4, <1>5, <1>6, <1>7, <1>8, <1>9, <1>10, <1>11, <1>12, <1>13, <1>14, <1>15,
           <1>16, <1>17, <1>18, <1>19 DEF SyncStep

\* So do failures, and everything the callers, the user and the server do.
LEMMA TypeFailure ==
  ASSUME TypeOK, TodoFitsPhase, RowsThere, Failure
  PROVE  TypeOK'
<1> USE BoundAssumption, UidNatural, RowAssumption DEF TypeOK
<1>1. ASSUME NEW u \in Uid, SkipDecision(u)
      PROVE  TypeOK'
  BY <1>1 DEF SkipDecision, Fault, callers, Phase
<1>2. CASE FetchMessagesFails
  <2>1. messages' \in [Uid -> Row \cup {Absent}]
    <3>1. CASE Connected
      <4>1. PICK got \in SUBSET (Batch \cap Present(mailbox)) : Store(got)
        BY <1>2, <3>1 DEF FetchMessagesFails
      <4>2. got \in SUBSET Present(mailbox)
        BY <4>1
      <4> QED BY <3>1, <4>1, <4>2, StoredRows
    <3>2. CASE ~Connected
      BY <1>2, <3>2 DEF FetchMessagesFails
    <3> QED BY <3>1, <3>2
  <2>2. todo' \in SUBSET Uid /\ budget' \in [user : Nat, remote : Nat, fault : Nat]
    BY <1>2 DEF FetchMessagesFails, Fault
  <2> QED BY <1>2, <2>1, <2>2 DEF FetchMessagesFails, callers
<1>3. CASE PushDeletesFails
  BY <1>3 DEF PushDeletesFails, Fault, callers, Phase
<1>4. CASE Abort
  BY <1>4, EngineIdleType DEF Abort, Fault, callers, history
<1>5. CASE Crash
  BY <1>5, EngineIdleType DEF Crash, Fault, history, None
<1> QED BY <1>1, <1>2, <1>3, <1>4, <1>5 DEF Failure

LEMMA TypeOthers ==
  ASSUME TypeOK, TodoFitsPhase, RowsThere,
         \/ SyncFolder \/ IdlePush \/ BackfillFolder
         \/ IdleConnect \/ IdleDisconnect \/ FetchOlderMessages \/ User \/ OtherClients
  PROVE  TypeOK'
<1> USE BoundAssumption, UidNatural, RowAssumption DEF TypeOK
<1>1. CASE SyncFolder
  BY <1>1 DEF SyncFolder, Begin, callers, SyncState, FolderRow, Phase
<1>2. CASE IdlePush
  BY <1>2 DEF IdlePush, Begin, callers, SyncState, FolderRow, Phase
<1>3. CASE BackfillFolder
  BY <1>3 DEF BackfillFolder, Begin, SyncState, FolderRow, Phase
<1>4. CASE IdleConnect
  BY <1>4 DEF IdleConnect, engine, history, FolderRow
<1>5. CASE IdleDisconnect
  BY <1>5 DEF IdleDisconnect, engine, history
<1>6. CASE FetchOlderMessages
  BY <1>6 DEF FetchOlderMessages, engine, history, FolderRow
<1>7. ASSUME NEW u \in Uid, NEW f \in Flag, NEW on \in BOOLEAN, ReadFlags(u, f, on)
      PROVE  TypeOK'
  BY <1>7 DEF ReadFlags, UserActs, engine, history, Row, Edit
<1>8. CASE MarkFlagsPending
  <2>1. edit \in Edit /\ messages[edit.uid] \in Row
    BY <1>8 DEF MarkFlagsPending, RowsThere, Edit
  <2>2. messages' \in [Uid -> Row \cup {Absent}]
    BY <1>8, <2>1 DEF MarkFlagsPending, Row, Edit
  <2>3. want' \in [Uid -> SUBSET Flag]
    BY <1>8, <2>1 DEF MarkFlagsPending, Missing, Edit
  <2>4. raced' \in SUBSET Uid /\ touched' \in SUBSET Uid
    BY <1>8, <2>1 DEF MarkFlagsPending, Edit
  <2> QED BY <1>8, <2>2, <2>3, <2>4 DEF MarkFlagsPending, engine
<1>9. ASSUME NEW u \in Uid, MarkDeletePending(u)
      PROVE  TypeOK'
  <2>1. messages[u] \in Row
    BY <1>9 DEF MarkDeletePending
  <2>2. messages' \in [Uid -> Row \cup {Absent}]
    BY <1>9, <2>1 DEF MarkDeletePending, Row
  <2>3. touched' \in SUBSET Uid /\ budget' \in [user : Nat, remote : Nat, fault : Nat]
    BY <1>9 DEF MarkDeletePending, UserActs
  <2> QED BY <1>9, <2>2, <2>3 DEF MarkDeletePending, engine, callers
<1>10. ASSUME NEW u \in Uid, ClearDeletePending(u)
       PROVE  TypeOK'
  <2>1. messages[u] \in Row
    BY <1>10 DEF ClearDeletePending
  <2>2. messages' \in [Uid -> Row \cup {Absent}]
    BY <1>10, <2>1 DEF ClearDeletePending, Row
  <2>3. touched' \in SUBSET Uid /\ budget' \in [user : Nat, remote : Nat, fault : Nat]
    BY <1>10 DEF ClearDeletePending, UserActs
  <2> QED BY <1>10, <2>2, <2>3 DEF ClearDeletePending, engine, callers
<1>11. CASE Deliver
  BY <1>11 DEF Deliver, Remote, engine, callers, ServerViews, Server
<1>12. CASE Renumber
  <2>1. mailbox' \in ServerViews /\ uidNext' \in Nat
    BY <1>12, UnreadView DEF Renumber
  <2>2. uidValidity' \in Validity
    BY <1>12 DEF Renumber, Validity
  <2> QED BY <1>12, <2>1, <2>2 DEF Renumber, engine, callers
<1>13. ASSUME NEW u \in Uid, RemoteExpunge(u)
       PROVE  TypeOK'
  BY <1>13 DEF RemoteExpunge, Remote, engine, callers, ServerViews
<1>14. ASSUME NEW u \in Uid, NEW flags \in SUBSET Flag, RemoteFlags(u, flags)
       PROVE  TypeOK'
  BY <1>14 DEF RemoteFlags, Remote, StillWanted, engine, callers, ServerViews, Server
<1> QED BY <1>1, <1>2, <1>3, <1>4, <1>5, <1>6, <1>7, <1>8, <1>9, <1>10, <1>11, <1>12,
           <1>13, <1>14 DEF User, OtherClients

LEMMA TypeStep ==
  ASSUME TypeOK, TodoFitsPhase, RowsThere, [Next]_vars
  PROVE  TypeOK'
<1>1. CASE SyncStep
  BY <1>1, TypeSync
<1>2. CASE Failure
  BY <1>2, TypeFailure
<1>3. CASE UNCHANGED vars
  BY <1>3 DEF vars, engine, callers, history, TypeOK
<1> QED BY <1>1, <1>2, <1>3, TypeOthers DEF Next

-----------------------------------------------------------------------------
(* The plan and the rows it is about *)

LEMMA TodoFitsPhaseStep ==
  ASSUME TypeOK, TodoFitsPhase, [Next]_vars
  PROVE  TodoFitsPhase'
<1> USE DEF TodoFitsPhase, Applying, Plan
<1>1. ASSUME pc' \notin Applying \cup {"fetch"}
      PROVE  TodoFitsPhase'
  BY <1>1
<1>2. CASE LoadServerView
  BY <1>2 DEF LoadServerView
<1>3. ASSUME NEW u \in Uid,
             DeleteLocal(u) \/ AdoptServerFlags(u) \/ StoreMergedFlags(u) \/ AddFlags(u)
             \/ ClearFlagsPending(u) \/ SkipDecision(u)
      PROVE  TodoFitsPhase'
  BY <1>3 DEF DeleteLocal, AdoptServerFlags, StoreMergedFlags, AddFlags, ClearFlagsPending,
              SkipDecision
<1>4. CASE EndDecisions
  BY <1>4 DEF EndDecisions
<1>5. CASE FetchMessages \/ FetchMessagesFails
  BY <1>5 DEF FetchMessages, FetchMessagesFails
<1>6. CASE UNCHANGED <<pc, locals, servers, floor, todo>>
  BY <1>6
<1>7. CASE SyncStep
  <2>1. CASE PurgeFolderMessages \/ SetFolderUIDValidity \/ ZeroLastSeenUID \/ ListMessageStates
             \/ EndFetch \/ PushDeletes \/ DropDeleted \/ SetFolderLastSeenUID
    BY <2>1 DEF PurgeFolderMessages, SetFolderUIDValidity, ZeroLastSeenUID, ListMessageStates,
                EndFetch, PushDeletes, DropDeleted, SetFolderLastSeenUID, EngineIdle
  <2> QED BY <1>2, <1>3, <1>4, <1>5, <1>7, <2>1 DEF SyncStep
<1>8. CASE Failure
  <2>1. CASE PushDeletesFails \/ Abort \/ Crash
    BY <2>1 DEF PushDeletesFails, Abort, Crash, EngineIdle
  <2> QED BY <1>3, <1>5, <1>8, <2>1 DEF Failure
<1>9. CASE SyncFolder \/ IdlePush \/ BackfillFolder
  BY <1>9 DEF SyncFolder, IdlePush, BackfillFolder, Begin
<1>10. CASE IdleConnect \/ IdleDisconnect \/ FetchOlderMessages \/ User \/ OtherClients
  BY <1>6, <1>10 DEF IdleConnect, IdleDisconnect, FetchOlderMessages, User, OtherClients, engine,
     ReadFlags, MarkFlagsPending, MarkDeletePending, ClearDeletePending, Deliver, Renumber,
     RemoteExpunge, RemoteFlags
<1>11. CASE UNCHANGED vars
  BY <1>6, <1>11 DEF vars, engine
<1> QED BY <1>7, <1>8, <1>9, <1>10, <1>11 DEF Next

RowsStay ==
  \A u \in Uid : messages[u] # Absent =>
    /\ messages'[u] # Absent
    /\ messages[u].pendingDelete => messages'[u].pendingDelete \/ u \in touched'

\* Rows that stay, with their delete marks, keep what the plan relies on.
LEMMA RowsKept ==
  ASSUME TypeOK, RowsThere, UNCHANGED <<locals, servers, floor>>,
         pc' = pc \/ {pc, pc'} \subseteq Applying,
         pc' \in Applying => todo' \subseteq todo,
         touched \subseteq touched',
         edit' \in {edit, Absent},
         RowsStay
  PROVE  RowsThere'
<1> USE DEF RowsStay, RowsThere, Applying, Planning, Plan, PendingDeletes
<1>1. (edit # Absent => messages[edit.uid] # Absent)'
  BY DEF TypeOK, Edit
<1>2. (pc = "view" => \A u \in Uid : locals[u] # Absent =>
        /\ messages[u] # Absent
        /\ locals[u].pendingDelete => messages[u].pendingDelete \/ u \in touched)'
  OBVIOUS
<1>3. (pc \in Applying => \A u \in todo : Plan[u].action # "DeleteLocal" => messages[u] # Absent)'
  BY DEF TypeOK
<1>4. (pc \in Planning => \A u \in PendingDeletes :
        messages[u] # Absent /\ (messages[u].pendingDelete \/ u \in touched))'
  BY WithActionPlanned
<1> QED BY <1>1, <1>2, <1>3, <1>4

\* A batch replaces no row: what is fetched was not there.
LEMMA FetchedRows ==
  ASSUME TypeOK, TodoFitsPhase, RowsThere, pc = "fetch", Connected,
         NEW got \in SUBSET (Batch \cap Present(mailbox)), Store(got),
         UNCHANGED <<locals, servers, floor, pc, edit, touched>>
  PROVE  RowsThere'
<1>1. got \in SUBSET Present(mailbox)
  OBVIOUS
<1>2. \A u \in Uid : IF u \in got THEN messages'[u] \in Row ELSE messages'[u] = messages[u]
  BY <1>1, StoredRows
<1>3. \A u \in PendingDeletes : u \notin got
  BY DEF Batch, Newest, TodoFitsPhase, WithAction, PendingDeletes
<1>4. \A u \in PendingDeletes : messages'[u] = messages[u]
  BY <1>2, <1>3, WithActionPlanned DEF PendingDeletes
<1>5. edit # Absent => messages'[edit.uid] # Absent
  BY <1>2, RowAssumption DEF RowsThere, TypeOK, Edit
<1> QED BY <1>4, <1>5 DEF RowsThere, Applying, Planning, Plan, PendingDeletes

LEMMA RowsThereSync ==
  ASSUME TypeOK, TodoFitsPhase, RowsThere, SyncStep
  PROVE  RowsThere'
<1> USE RowAssumption DEF RowsThere, Applying, Planning, Plan, PendingDeletes
<1>1. CASE PurgeFolderMessages
  BY <1>1 DEF PurgeFolderMessages, RowsGone, TypeOK, Edit
<1>2. CASE SetFolderUIDValidity \/ ZeroLastSeenUID
  BY <1>2 DEF SetFolderUIDValidity, ZeroLastSeenUID, callers
<1>3. CASE ListMessageStates
  BY <1>3 DEF ListMessageStates, LocalView, AsLocal, callers
<1>4. CASE LoadServerView
  <2>1. ASSUME NEW u \in DOMAIN BuildPlan(locals, mailbox, floor')
        PROVE  LET d == BuildPlan(locals, mailbox, floor')[u]
               IN  /\ u \in Uid
                   /\ d.action \in {"AdoptServerFlags", "PushFlags", "ClearPending"} => locals[u] # Absent
                   /\ d.action = "PushDelete" => locals[u] # Absent /\ locals[u].pendingDelete
    <3>1. u \in Uid /\ BuildPlan(locals, mailbox, floor')[u] = ReconcileOne(locals[u], mailbox[u])
      BY DEF BuildPlan, Planned, Present
    <3>2. locals[u] \in Local \cup {Absent} /\ mailbox[u] \in Server \cup {Absent}
      BY <3>1 DEF TypeOK, LocalViews, ServerViews
    <3>3. ReconcileOne(locals[u], mailbox[u]).action = "FetchNew" <=> locals[u] = Absent
      BY <3>2, ReconcileOneDecides
    <3>4. ReconcileOne(locals[u], mailbox[u]).action = "PushDelete" =>
            locals[u] # Absent /\ locals[u].pendingDelete
      BY <3>2, ReconcileOneDecides
    <3> QED BY <3>1, <3>3, <3>4
  <2> QED BY <1>4, <2>1 DEF LoadServerView, WithAction, callers, history
<1>5. ASSUME NEW v \in Uid, DeleteLocal(v)
      PROVE  RowsThere'
  <2>1. v \in todo /\ v \in DOMAIN Plan /\ Plan[v].action = "DeleteLocal"
    BY <1>5, DecidingFromTodo DEF DeleteLocal, Deciding, TodoFitsPhase, WithAction
  <2>2. v \notin PendingDeletes
    BY <2>1 DEF WithAction
  <2>3. \A u \in Uid : u # v => messages'[u] = messages[u]
    BY <1>5 DEF DeleteLocal, RowsGone
  <2>4. (edit # Absent => messages[edit.uid] # Absent)'
    BY <1>5, <2>3 DEF DeleteLocal, RowsGone, TypeOK, Edit
  <2>5. pc' = "apply" /\ UNCHANGED <<locals, servers, floor, touched>> /\ todo' = todo \ {v}
    BY <1>5 DEF DeleteLocal
  <2> QED BY <1>5, <2>2, <2>3, <2>4, <2>5, WithActionPlanned DEF DeleteLocal, TypeOK
<1>6. ASSUME NEW v \in Uid, AdoptServerFlags(v) \/ StoreMergedFlags(v) \/ ClearFlagsPending(v)
      PROVE  RowsThere'
  <2>1. messages[v] \in Row /\ Plan[v].flags \in SUBSET Flag
    BY <1>6, DecidingFindsRow DEF AdoptServerFlags, StoreMergedFlags, ClearFlagsPending
  <2>2. messages'[v] \in Row /\ messages'[v].pendingDelete = messages[v].pendingDelete
    <3>1. CASE AdoptServerFlags(v)
      BY <3>1, <2>1 DEF AdoptServerFlags, TypeOK, Row
    <3>2. CASE StoreMergedFlags(v)
      BY <3>2, <2>1 DEF StoreMergedFlags, TypeOK, Row
    <3>3. CASE ClearFlagsPending(v)
      BY <3>3, <2>1 DEF ClearFlagsPending, TypeOK, Row
    <3> QED BY <1>6, <3>1, <3>2, <3>3
  <2>3. \A u \in Uid : u # v => messages'[u] = messages[u]
    BY <1>6 DEF AdoptServerFlags, StoreMergedFlags, ClearFlagsPending, TypeOK
  <2>4. RowsStay
    BY <2>2, <2>3 DEF RowsStay
  <2> QED BY <1>6, <2>4, RowsKept
          DEF AdoptServerFlags, StoreMergedFlags, ClearFlagsPending, callers, history
<1>7. ASSUME NEW v \in Uid, AddFlags(v)
      PROVE  RowsThere'
  BY <1>7 DEF AddFlags, callers
<1>8. CASE EndDecisions \/ EndFetch \/ PushDeletes
  BY <1>8 DEF EndDecisions, EndFetch, PushDeletes, callers, history
<1>9. CASE FetchMessages
  <2>1. Batch \cap Present(mailbox) \in SUBSET (Batch \cap Present(mailbox))
    OBVIOUS
  <2> QED BY <1>9, <2>1, FetchedRows DEF FetchMessages, callers, history
<1>10. CASE DropDeleted
  BY <1>10 DEF DropDeleted, RowsGone, TypeOK, Edit
<1>11. CASE SetFolderLastSeenUID
  BY <1>11 DEF SetFolderLastSeenUID, EngineIdle, callers
<1> QED BY <1>1, <1>2, <1>3, <1>4, <1>5, <1>6, <1>7, <1>8, <1>9, <1>10, <1>11 DEF SyncStep

LEMMA RowsThereFailure ==
  ASSUME TypeOK, TodoFitsPhase, RowsThere, Failure
  PROVE  RowsThere'
<1> USE RowAssumption DEF RowsThere, Applying, Planning, Plan, PendingDeletes
<1>1. ASSUME NEW v \in Uid, SkipDecision(v)
      PROVE  RowsThere'
  BY <1>1 DEF SkipDecision, callers
<1>2. CASE FetchMessagesFails
  <2>1. CASE Connected
    <3>1. PICK got \in SUBSET (Batch \cap Present(mailbox)) : Store(got)
      BY <1>2, <2>1 DEF FetchMessagesFails
    <3> QED BY <1>2, <2>1, <3>1, FetchedRows DEF FetchMessagesFails, callers
  <2>2. CASE ~Connected
    BY <1>2, <2>2 DEF FetchMessagesFails, callers
  <2> QED BY <2>1, <2>2
<1>3. CASE PushDeletesFails
  BY <1>3 DEF PushDeletesFails, callers
<1>4. CASE Abort \/ Crash
  BY <1>4 DEF Abort, Crash, EngineIdle, callers
<1> QED BY <1>1, <1>2, <1>3, <1>4 DEF Failure

LEMMA RowsThereOthers ==
  ASSUME TypeOK, RowsThere,
         \/ SyncFolder \/ IdlePush \/ BackfillFolder
         \/ IdleConnect \/ IdleDisconnect \/ FetchOlderMessages \/ User \/ OtherClients
  PROVE  RowsThere'
<1> USE RowAssumption DEF RowsThere, Applying, Planning, Plan, PendingDeletes
<1>1. CASE SyncFolder \/ IdlePush \/ BackfillFolder
  BY <1>1 DEF SyncFolder, IdlePush, BackfillFolder, Begin, callers
<1>2. CASE IdleConnect \/ IdleDisconnect \/ FetchOlderMessages
  BY <1>2 DEF IdleConnect, IdleDisconnect, FetchOlderMessages, engine, history
<1>3. ASSUME NEW v \in Uid, NEW f \in Flag, NEW on \in BOOLEAN, ReadFlags(v, f, on)
      PROVE  RowsThere'
  BY <1>3 DEF ReadFlags, engine, history
<1>4. CASE MarkFlagsPending
  <2>1. edit \in Edit /\ messages[edit.uid] \in Row
    BY <1>4 DEF MarkFlagsPending, TypeOK, Edit
  <2>2. messages'[edit.uid] \in Row
        /\ messages'[edit.uid].pendingDelete = messages[edit.uid].pendingDelete
    BY <1>4, <2>1 DEF MarkFlagsPending, TypeOK, Row, Edit
  <2>3. \A u \in Uid : u # edit.uid => messages'[u] = messages[u]
    BY <1>4 DEF MarkFlagsPending, TypeOK
  <2>4. RowsStay
    BY <2>2, <2>3 DEF RowsStay
  <2> QED BY <1>4, <2>4, RowsKept DEF MarkFlagsPending, engine
<1>5. ASSUME NEW v \in Uid, MarkDeletePending(v) \/ ClearDeletePending(v)
      PROVE  RowsThere'
  <2>1. messages[v] \in Row
    BY <1>5 DEF MarkDeletePending, ClearDeletePending, TypeOK
  <2>2. messages'[v] \in Row /\ touched' = touched \cup {v}
    <3>1. CASE MarkDeletePending(v)
      BY <3>1, <2>1 DEF MarkDeletePending, TypeOK, Row
    <3>2. CASE ClearDeletePending(v)
      BY <3>2, <2>1 DEF ClearDeletePending, TypeOK, Row
    <3> QED BY <1>5, <3>1, <3>2
  <2>3. \A u \in Uid : u # v => messages'[u] = messages[u]
    BY <1>5 DEF MarkDeletePending, ClearDeletePending, TypeOK
  <2>4. RowsStay
    BY <2>2, <2>3 DEF RowsStay
  <2>5. /\ pc' = pc /\ todo' = todo /\ edit' = edit
        /\ locals' = locals /\ servers' = servers /\ floor' = floor
    BY <1>5 DEF MarkDeletePending, ClearDeletePending, engine, callers
  <2> QED BY <2>2, <2>4, <2>5, RowsKept
<1>6. CASE OtherClients
  <2>1. UNCHANGED <<messages, engine, callers>> /\ touched \subseteq touched'
    BY <1>6 DEF OtherClients, Deliver, Renumber, RemoteExpunge, RemoteFlags, TypeOK
  <2> QED BY <2>1, WithActionPlanned DEF engine, callers
<1> QED BY <1>1, <1>2, <1>3, <1>4, <1>5, <1>6 DEF User

LEMMA RowsThereStep ==
  ASSUME TypeOK, TodoFitsPhase, RowsThere, [Next]_vars
  PROVE  RowsThere'
<1>1. CASE UNCHANGED vars
  BY <1>1 DEF vars, engine, callers, history, RowsThere, Plan, PendingDeletes
<1> QED BY <1>1, RowsThereSync, RowsThereFailure, RowsThereOthers DEF Next

-----------------------------------------------------------------------------
(* The cache and its generation *)

\* What the steps below need of the types: every validity is a number.
LEMMA ValidityNumbers ==
  ASSUME TypeOK
  PROVE  /\ uidValidity \in Nat /\ uidValidity # None
         /\ folder.uidValidity \in Nat /\ sel \in Nat /\ older \in Nat
         /\ idle # Absent => idle.validity \in Nat /\ idle.sel \in Nat
         /\ \A u \in Uid : messages[u] # Absent => messages[u].validity \in Nat \ {None}
BY BoundAssumption DEF TypeOK, Validity, FolderRow, Row, None

\* A folder row without a validity has no messages.
LEMMA UnstampedIsEmpty ==
  ASSUME TypeOK, RowsOfStoredValidity, folder.uidValidity = None
  PROVE  messages = Empty
<1>1. \A u \in Uid : messages[u] = Absent
  BY ValidityNumbers DEF RowsOfStoredValidity
<1> QED BY <1>1 DEF TypeOK, Empty

Cached == RowsOfStoredValidity /\ Generations

\* A sync may start from any folder value a caller can hold.
LEMMA BeginCached ==
  ASSUME TypeOK, Cached, NEW stored \in Nat, NEW n, Begin(stored, n),
         stored <= folder.uidValidity,
         stored = None => messages = Empty \/ folder.uidValidity = uidValidity,
         idle' = idle, older' \in {older, None}
  PROVE  Cached'
<1>1. stored = uidValidity => folder.uidValidity = uidValidity
  BY ValidityNumbers DEF Cached, Generations
<1> QED BY <1>1, ValidityNumbers DEF Begin, Cached, RowsOfStoredValidity, Generations, None

LEMMA CachedBegins ==
  ASSUME TypeOK, Cached, SyncFolder \/ IdlePush \/ BackfillFolder
  PROVE  Cached'
<1>1. CASE SyncFolder
  BY <1>1, BeginCached, UnstampedIsEmpty, ValidityNumbers DEF SyncFolder, callers, Cached
<1>2. CASE IdlePush
  <2>1. idle.validity \in Nat /\ idle.validity <= folder.uidValidity /\ idle.sel = uidValidity
    BY <1>2, ValidityNumbers DEF IdlePush, Cached, Generations
  <2>2. idle.validity = None => messages = Empty \/ folder.uidValidity = uidValidity
    BY <1>2, <2>1, ValidityNumbers DEF IdlePush, Cached, Generations
  <2> QED BY <1>2, <2>1, <2>2, BeginCached DEF IdlePush, callers
<1>3. CASE BackfillFolder
  BY <1>3, BeginCached, ValidityNumbers DEF BackfillFolder, Cached, Generations
<1> QED BY <1>1, <1>2, <1>3

\* Removing rows keeps what is left of one generation.
LEMMA RowsGoneCached ==
  ASSUME TypeOK, Cached, NEW gone, RowsGone(gone),
         UNCHANGED <<uidValidity, folder, sel, idle, older>>,
         pc' = "stamp" => pc # "idle" /\ (pc = "stamp" \/ gone = Uid),
         pc' # "idle" => pc # "idle",
         pc' \notin {"idle", "purge", "stamp"} => pc \notin {"idle", "purge", "stamp"}
  PROVE  Cached'
<1>1. \A u \in Uid : messages'[u] # Absent => messages'[u] = messages[u]
  BY DEF RowsGone
<1>2. messages = Empty => messages' = Empty
  BY DEF RowsGone, Empty
<1>3. gone = Uid => messages' = Empty
  BY DEF RowsGone, Empty
<1>4. RowsOfStoredValidity'
  BY <1>1 DEF Cached, RowsOfStoredValidity
<1>5. Generations'
  BY <1>2, <1>3 DEF Cached, Generations
<1> QED BY <1>4, <1>5 DEF Cached

\* Rewriting a row's flags or marks keeps its generation.
LEMMA RowWrittenCached ==
  ASSUME TypeOK, Cached, NEW v \in Uid, messages[v] \in Row, messages'[v] \in Row,
         messages'[v].validity = messages[v].validity,
         messages' = [messages EXCEPT ![v] = messages'[v]],
         UNCHANGED <<uidValidity, folder, sel, idle, older>>,
         pc' = pc \/ {pc, pc'} \subseteq Applying
  PROVE  Cached'
<1>1. \A u \in Uid : u # v => messages'[u] = messages[u]
  BY DEF TypeOK
<1>2. messages # Empty
  BY RowAssumption DEF Empty
<1>3. RowsOfStoredValidity'
  BY <1>1, RowAssumption DEF Cached, RowsOfStoredValidity
<1>4. Generations'
  BY <1>2 DEF Cached, Generations, Applying
<1> QED BY <1>3, <1>4 DEF Cached

LEMMA StoreCached ==
  ASSUME TypeOK, Cached, pc = "fetch", Connected,
         NEW got \in SUBSET Present(mailbox), Store(got),
         UNCHANGED <<uidValidity, folder, sel, idle, older, pc>>
  PROVE  Cached'
<1>1. got \subseteq Uid
  BY DEF Present
<1>2. \A u \in Uid : IF u \in got THEN messages'[u].validity = sel ELSE messages'[u] = messages[u]
  BY <1>1 DEF Store
<1>3. folder.uidValidity = sel
  BY DEF Cached, Generations
<1>4. RowsOfStoredValidity'
  BY <1>2, <1>3 DEF Cached, RowsOfStoredValidity
<1>5. Generations'
  BY <1>3, ValidityNumbers DEF Cached, Generations, Connected
<1> QED BY <1>4, <1>5 DEF Cached

LEMMA CachedSync ==
  ASSUME TypeOK, TodoFitsPhase, RowsThere, Cached, SyncStep
  PROVE  Cached'
<1>1. CASE PurgeFolderMessages
  BY <1>1, RowsGoneCached DEF PurgeFolderMessages
<1>2. CASE SetFolderUIDValidity
  BY <1>2, ValidityNumbers
     DEF SetFolderUIDValidity, callers, Cached, RowsOfStoredValidity, Generations, Empty, TypeOK, FolderRow
<1>3. CASE ZeroLastSeenUID
  BY <1>3 DEF ZeroLastSeenUID, callers, Cached, RowsOfStoredValidity, Generations, TypeOK, FolderRow
<1>4. CASE ListMessageStates
  BY <1>4 DEF ListMessageStates, callers, Cached, RowsOfStoredValidity, Generations
<1>5. CASE LoadServerView
  BY <1>5 DEF LoadServerView, callers, Cached, RowsOfStoredValidity, Generations, TypeOK, FolderRow
<1>6. ASSUME NEW v \in Uid, DeleteLocal(v)
      PROVE  Cached'
  BY <1>6, RowsGoneCached DEF DeleteLocal
<1>7. ASSUME NEW v \in Uid, AdoptServerFlags(v) \/ StoreMergedFlags(v) \/ ClearFlagsPending(v)
      PROVE  Cached'
  <2>1. messages[v] \in Row /\ Plan[v].flags \in SUBSET Flag
    BY <1>7, DecidingFindsRow DEF AdoptServerFlags, StoreMergedFlags, ClearFlagsPending, Applying
  <2>2. /\ messages'[v] \in Row /\ messages'[v].validity = messages[v].validity
        /\ messages' = [messages EXCEPT ![v] = messages'[v]]
    <3>1. CASE AdoptServerFlags(v)
      BY <3>1, <2>1 DEF AdoptServerFlags, TypeOK, Row
    <3>2. CASE StoreMergedFlags(v)
      BY <3>2, <2>1 DEF StoreMergedFlags, TypeOK, Row
    <3>3. CASE ClearFlagsPending(v)
      BY <3>3, <2>1 DEF ClearFlagsPending, TypeOK, Row
    <3> QED BY <1>7, <3>1, <3>2, <3>3
  <2>3. UNCHANGED <<uidValidity, folder, sel, idle, older>>
    BY <1>7 DEF AdoptServerFlags, StoreMergedFlags, ClearFlagsPending, callers
  <2>4. pc' = pc \/ {pc, pc'} \subseteq Applying
    BY <1>7 DEF AdoptServerFlags, StoreMergedFlags, ClearFlagsPending, Applying
  <2> QED BY <2>1, <2>2, <2>3, <2>4, RowWrittenCached
<1>8. ASSUME NEW v \in Uid, AddFlags(v)
      PROVE  Cached'
  BY <1>8 DEF AddFlags, callers, Cached, RowsOfStoredValidity, Generations
<1>9. CASE EndDecisions \/ EndFetch \/ PushDeletes
  BY <1>9 DEF EndDecisions, EndFetch, PushDeletes, callers, Cached, RowsOfStoredValidity, Generations
<1>10. CASE FetchMessages
  <2>1. Batch \cap Present(mailbox) \in SUBSET Present(mailbox)
    OBVIOUS
  <2> QED BY <1>10, <2>1, StoreCached DEF FetchMessages, callers
<1>11. CASE DropDeleted
  <2>1. PICK gone : RowsGone(gone)
    BY <1>11 DEF DropDeleted
  <2> QED BY <1>11, <2>1, RowsGoneCached DEF DropDeleted
<1>12. CASE SetFolderLastSeenUID
  BY <1>12, ValidityNumbers
     DEF SetFolderLastSeenUID, EngineIdle, callers, Cached, RowsOfStoredValidity, Generations,
         TypeOK, FolderRow, None
<1> QED BY <1>1, <1>2, <1>3, <1>4, <1>5, <1>6, <1>7, <1>8, <1>9, <1>10, <1>11, <1>12 DEF SyncStep

LEMMA CachedFailure ==
  ASSUME TypeOK, Cached, Failure
  PROVE  Cached'
<1>1. ASSUME NEW v \in Uid, SkipDecision(v)
      PROVE  Cached'
  BY <1>1 DEF SkipDecision, callers, Cached, RowsOfStoredValidity, Generations
<1>2. CASE FetchMessagesFails
  <2>1. CASE Connected
    <3>1. PICK got \in SUBSET (Batch \cap Present(mailbox)) : Store(got)
      BY <1>2, <2>1 DEF FetchMessagesFails
    <3>2. got \in SUBSET Present(mailbox)
      BY <3>1
    <3> QED BY <1>2, <2>1, <3>1, <3>2, StoreCached DEF FetchMessagesFails, callers
  <2>2. CASE ~Connected
    BY <1>2, <2>2 DEF FetchMessagesFails, callers, Cached, RowsOfStoredValidity, Generations
  <2> QED BY <2>1, <2>2
<1>3. CASE PushDeletesFails
  BY <1>3 DEF PushDeletesFails, callers, Cached, RowsOfStoredValidity, Generations
<1>4. CASE Abort \/ Crash
  BY <1>4, ValidityNumbers
     DEF Abort, Crash, EngineIdle, callers, Cached, RowsOfStoredValidity, Generations, None
<1> QED BY <1>1, <1>2, <1>3, <1>4 DEF Failure

LEMMA CachedOthers ==
  ASSUME TypeOK, RowsThere, Cached,
         IdleConnect \/ IdleDisconnect \/ FetchOlderMessages \/ User \/ OtherClients
  PROVE  Cached'
<1>1. CASE IdleConnect
  BY <1>1, UnstampedIsEmpty, ValidityNumbers
     DEF IdleConnect, engine, Cached, RowsOfStoredValidity, Generations
<1>2. CASE IdleDisconnect \/ FetchOlderMessages
  BY <1>2, ValidityNumbers
     DEF IdleDisconnect, FetchOlderMessages, engine, Cached, RowsOfStoredValidity, Generations
<1>3. ASSUME NEW v \in Uid, NEW f \in Flag, NEW on \in BOOLEAN, ReadFlags(v, f, on)
      PROVE  Cached'
  BY <1>3 DEF ReadFlags, engine, Cached, RowsOfStoredValidity, Generations
<1>4. CASE MarkFlagsPending
  <2>1. edit \in Edit /\ messages[edit.uid] \in Row /\ edit.uid \in Uid
    BY <1>4 DEF MarkFlagsPending, RowsThere, TypeOK, Edit
  <2>2. /\ messages'[edit.uid] \in Row /\ messages'[edit.uid].validity = messages[edit.uid].validity
        /\ messages' = [messages EXCEPT ![edit.uid] = messages'[edit.uid]]
    BY <1>4, <2>1 DEF MarkFlagsPending, TypeOK, Row, Edit
  <2> QED BY <1>4, <2>1, <2>2, RowWrittenCached DEF MarkFlagsPending, engine
<1>5. ASSUME NEW v \in Uid, MarkDeletePending(v) \/ ClearDeletePending(v)
      PROVE  Cached'
  <2>1. messages[v] \in Row
    BY <1>5 DEF MarkDeletePending, ClearDeletePending, TypeOK
  <2>2. /\ messages'[v] \in Row /\ messages'[v].validity = messages[v].validity
        /\ messages' = [messages EXCEPT ![v] = messages'[v]]
    <3>1. CASE MarkDeletePending(v)
      BY <3>1, <2>1 DEF MarkDeletePending, TypeOK, Row
    <3>2. CASE ClearDeletePending(v)
      BY <3>2, <2>1 DEF ClearDeletePending, TypeOK, Row
    <3> QED BY <1>5, <3>1, <3>2
  <2>3. UNCHANGED <<uidValidity, folder, sel, idle, older, pc>>
    BY <1>5 DEF MarkDeletePending, ClearDeletePending, engine, callers
  <2> QED BY <2>1, <2>2, <2>3, RowWrittenCached
<1>6. CASE OtherClients
  <2>1. UNCHANGED <<messages, folder, pc, sel, idle, older>> /\ uidValidity <= uidValidity'
        /\ uidValidity' \in Nat
    BY <1>6, ValidityNumbers
       DEF OtherClients, Deliver, Renumber, RemoteExpunge, RemoteFlags, engine, callers
  <2> QED BY <2>1, ValidityNumbers DEF Cached, RowsOfStoredValidity, Generations
<1> QED BY <1>1, <1>2, <1>3, <1>4, <1>5, <1>6 DEF User

LEMMA CachedStep ==
  ASSUME TypeOK, TodoFitsPhase, RowsThere, Cached, [Next]_vars
  PROVE  Cached'
<1>1. CASE UNCHANGED vars
  BY <1>1 DEF vars, engine, callers, Cached, RowsOfStoredValidity, Generations
<1> QED BY <1>1, CachedBegins, CachedSync, CachedFailure, CachedOthers DEF Next

-----------------------------------------------------------------------------
(* The invariant *)

LEMMA InitInvariant == Init => IInv
<1> SUFFICES ASSUME Init PROVE IInv
  OBVIOUS
<1>1. TypeOK
  BY TypeInit
<1>2. TodoFitsPhase /\ RowsThere
  BY DEF Init, TodoFitsPhase, RowsThere, Applying, Planning
<1>3. RowsOfStoredValidity /\ Generations
  BY DEF Init, RowsOfStoredValidity, Generations, Empty, None
<1> QED BY <1>1, <1>2, <1>3 DEF IInv

LEMMA StepInvariant == IInv /\ [Next]_vars => IInv'
<1> SUFFICES ASSUME IInv, [Next]_vars PROVE IInv'
  OBVIOUS
<1>1. TypeOK' /\ TodoFitsPhase' /\ RowsThere'
  BY TypeStep, TodoFitsPhaseStep, RowsThereStep DEF IInv
<1>2. Cached'
  BY CachedStep DEF IInv, Cached
<1> QED BY <1>1, <1>2 DEF IInv, Cached

LEMMA Invariant == Spec => []IInv
BY InitInvariant, StepInvariant, PTL DEF Spec

(* Every variable keeps its type: in particular no flag write, fetch or     *)
(* merge of a sync ever lands on a row that is not there, and the window's  *)
(* floor and the high water mark are always uids of the folder.             *)
THEOREM TypeCorrect == Spec => []TypeOK
<1>1. IInv => TypeOK
  BY DEF IInv
<1> QED BY <1>1, Invariant, PTL

(* The cache never mixes UIDVALIDITY generations, whichever caller starts   *)
(* a sync, with however stale a folder row, and wherever a sync stops.      *)
THEOREM OneGeneration == Spec => []RowsOfStoredValidity
<1>1. IInv => RowsOfStoredValidity
  BY DEF IInv
<1> QED BY <1>1, Invariant, PTL

-----------------------------------------------------------------------------
(* The steps of the engine that change the mailbox are the flag push and    *)
(* the deletion; both know the message from a row of the present            *)
(* generation.                                                              *)
LEMMA PushHitsCachedMessage ==
  ASSUME IInv, Next, NEW u \in Uid, mailbox'[u] # mailbox[u], pc' # pc
  PROVE  /\ messages[u] # Absent /\ messages[u].validity = uidValidity
         /\ mailbox'[u] = Absent => messages[u].pendingDelete \/ u \in touched
<1> USE DEF IInv
<1>1. (\E v \in Uid : AddFlags(v)) \/ PushDeletes
  <2>1. CASE SyncStep
    BY <2>1 DEF SyncStep, PurgeFolderMessages, SetFolderUIDValidity, ZeroLastSeenUID,
       ListMessageStates, LoadServerView, DeleteLocal, AdoptServerFlags, StoreMergedFlags,
       ClearFlagsPending, EndDecisions, FetchMessages, EndFetch, DropDeleted, SetFolderLastSeenUID
  <2>2. CASE Failure
    BY <2>2 DEF Failure, SkipDecision, FetchMessagesFails, PushDeletesFails, Abort, Crash
  <2>3. CASE SyncFolder \/ IdlePush \/ BackfillFolder
    BY <2>3 DEF SyncFolder, IdlePush, BackfillFolder, Begin
  <2>4. CASE IdleConnect \/ IdleDisconnect \/ FetchOlderMessages \/ User \/ OtherClients
    BY <2>4 DEF IdleConnect, IdleDisconnect, FetchOlderMessages, User, OtherClients, engine,
       ReadFlags, MarkFlagsPending, MarkDeletePending, ClearDeletePending, Deliver, Renumber,
       RemoteExpunge, RemoteFlags
  <2> QED BY <2>1, <2>2, <2>3, <2>4 DEF Next
<1>2. ASSUME NEW v \in Uid, AddFlags(v)
      PROVE  /\ messages[u] # Absent /\ messages[u].validity = uidValidity
             /\ mailbox'[u] # Absent
  <2>1. messages[v] \in Row
    BY <1>2, DecidingFindsRow DEF AddFlags, Applying
  <2>2. u = v
    BY <1>2 DEF AddFlags, TypeOK, ServerViews
  <2>3. mailbox[u] # Absent /\ mailbox[u] \in Server /\ mailbox'[u] = [mailbox[u] EXCEPT !.flags = @ \cup Plan[u].flags]
    BY <1>2, <2>2 DEF AddFlags, TypeOK, ServerViews
  <2>4. Plan[u].flags \in SUBSET Flag
    BY <1>2, <2>2, DecidingFindsRow DEF AddFlags, Applying
  <2>5. mailbox'[u] \in Server
    BY <2>3, <2>4 DEF Server
  <2>6. messages[u] # Absent
    BY <2>1, <2>2, RowAssumption
  <2>7. messages[u].validity = folder.uidValidity /\ folder.uidValidity = sel /\ sel = uidValidity
    BY <1>2, <2>6 DEF AddFlags, RowsOfStoredValidity, Generations, Connected
  <2> QED BY <2>5, <2>6, <2>7, AbsentAssumption
<1>3. CASE PushDeletes
  <2>1. u \in PendingDeletes
    BY <1>3 DEF PushDeletes, TypeOK, ServerViews
  <2>2. messages[u] # Absent /\ (messages[u].pendingDelete \/ u \in touched)
    BY <1>3, <2>1 DEF PushDeletes, RowsThere, Planning
  <2>3. messages[u].validity = folder.uidValidity /\ folder.uidValidity = sel /\ sel = uidValidity
    BY <1>3, <2>2 DEF PushDeletes, RowsOfStoredValidity, Generations, Connected
  <2> QED BY <2>2, <2>3
<1> QED BY <1>1, <1>2, <1>3

(* What the engine changes on the server is always the message the user     *)
(* has in front of them, of the mailbox's present generation, and it takes  *)
(* away only what is marked for deletion or was when the sync began.        *)
THEOREM PushesHitCachedMessages == Spec => ServerChangesHitTheCachedMessage
<1>1. IInv /\ [Next]_vars =>
        [\A u \in Uid : mailbox'[u] # mailbox[u] /\ pc' # pc =>
           /\ messages[u] # Absent /\ messages[u].validity = uidValidity
           /\ mailbox'[u] = Absent => messages[u].pendingDelete \/ u \in touched]_vars
  BY PushHitsCachedMessage
<1> QED BY <1>1, Invariant, PTL DEF Spec, ServerChangesHitTheCachedMessage

-----------------------------------------------------------------------------
(* Flags that the user set and the server has not had.  Everything below is *)
(* said of one message; a step that is about another one leaves it alone.   *)

\* The server still holds the message, and no sync raced the user's last change.
Owed(u) == mailbox[u] # Absent /\ u \notin raced

\* The decision that the running sync takes now.
UpNext(u) == u \in todo /\ \A v \in todo : v <= u

\* What a sync is going to fetch, or may yet decide to: nothing is in its place.
ToBeFetched(u) ==
  \/ pc \in Applying \cup {"view"} /\ locals[u] = Absent
  \/ pc = "fetch" /\ u \in todo

InCache(u) ==
  Owed(u) /\ want[u] # {} =>
    messages[u] # Absent /\ want[u] \subseteq messages[u].flags /\ messages[u].pendingFlags

\* The snapshot a sync decides from has the flags too, and the server did not.
InSnapshot(u) ==
  InWindow(u) /\ Owed(u) /\ want[u] # {} =>
    /\ locals[u] # Absent /\ want[u] \subseteq locals[u].flags /\ locals[u].pendingFlags
    /\ pc # "view" /\ servers[u] # Absent => want[u] \cap servers[u].flags = {}

\* A change is kept; with what makes that inductive: the server lacks what is wanted,
\* nothing is wanted of a uid not given out, the mask an edit has read has the flags,
\* so has the snapshot, and the mark goes when the server has been told.
Kept(u) ==
  /\ InCache(u)
  /\ mailbox[u] # Absent => want[u] \cap mailbox[u].flags = {}
  /\ mailbox[u] # Absent \/ want[u] # {} => u < uidNext
  /\ edit # Absent /\ edit.uid = u /\ Owed(u) => want[u] \subseteq edit.read
  /\ InSnapshot(u)
  /\ pc = "clear" /\ UpNext(u) /\ Owed(u) => want[u] = {}
  /\ ToBeFetched(u) => messages[u] = Absent

\* The same row, but for its delete mark.
SameFlags(u) ==
  /\ messages[u] = Absent <=> messages'[u] = Absent
  /\ messages[u] # Absent => /\ messages'[u].flags = messages[u].flags
                             /\ messages'[u].pendingFlags = messages[u].pendingFlags

LEMMA DecidingIsNext ==
  ASSUME TypeOK, NEW v, NEW actions, Deciding(v, actions)
  PROVE  v \in Uid /\ UpNext(v) /\ \A u \in Uid : UpNext(u) => u = v
<1>1. v \in todo /\ \A u \in todo : u <= v
  BY MaxOfUids DEF TypeOK, Deciding
<1>2. \A u \in todo : u \in Nat
  BY UidNatural DEF TypeOK
<1>3. v \in Uid
  BY <1>1 DEF TypeOK
<1>4. ASSUME NEW u \in Uid, UpNext(u) PROVE u = v
  <2>1. u \in todo /\ v <= u
    BY <1>1, <1>4 DEF UpNext
  <2>2. u <= v /\ u \in Nat /\ v \in Nat
    BY <1>1, <1>2, <2>1
  <2> QED BY <2>1, <2>2
<1> QED BY <1>1, <1>3, <1>4 DEF UpNext

\* A step about other messages.
LEMMA KeptAside ==
  ASSUME NEW u \in Uid, Kept(u), SameFlags(u),
         mailbox'[u] = mailbox[u] \/ mailbox'[u] = Absent,
         want'[u] = want[u], uidNext' = uidNext, edit' \in {edit, Absent},
         u \in raced => u \in raced',
         InWindow(u)' => /\ InWindow(u) /\ locals'[u] = locals[u] /\ servers'[u] = servers[u]
                         /\ pc' # "view" => pc # "view",
         pc' = "clear" /\ UpNext(u)' => pc = "clear" /\ UpNext(u),
         ToBeFetched(u)' => ToBeFetched(u)
  PROVE  Kept(u)'
<1> USE DEF Kept, Owed
<1>1. InCache(u)'
  BY DEF InCache, SameFlags
<1>2. InSnapshot(u)'
  BY DEF InSnapshot
<1>3. (ToBeFetched(u) => messages[u] = Absent)'
  BY DEF SameFlags
<1> QED BY <1>1, <1>2, <1>3

\* A row that goes takes with it what was wanted of it.
LEMMA KeptGone ==
  ASSUME NEW u \in Uid, Kept(u), NEW gone, u \in gone, RowsGone(gone),
         mailbox'[u] = mailbox[u], uidNext' = uidNext
  PROVE  Kept(u)'
<1>1. messages'[u] = Absent /\ want'[u] = {}
  BY DEF RowsGone
<1> QED BY <1>1 DEF Kept, InCache, InSnapshot, RowsGone

\* What RowsGone leaves of the others.
LEMMA RowsGoneAside ==
  ASSUME NEW u \in Uid, NEW gone, u \notin gone, RowsGone(gone)
  PROVE  SameFlags(u) /\ want'[u] = want[u] /\ edit' \in {edit, Absent}
BY DEF RowsGone, SameFlags

\* The decision made of two sides keeps whatever either of them has set.
LEMMA PlanMerges ==
  ASSUME TypeOK, NEW u \in DOMAIN Plan
  PROVE  /\ Plan[u].action = "AdoptServerFlags" => ~locals[u].pendingFlags
         /\ Plan[u].action \in {"PushFlags", "ClearPending"} =>
              /\ locals[u] \in Local /\ servers[u] \in Server
              /\ Plan[u].flags = locals[u].flags \cup servers[u].flags
         /\ Plan[u].action = "ClearPending" => Plan[u].flags = servers[u].flags
<1> DEFINE l == locals[u]
           s == servers[u]
<1>1. u \in Uid /\ Plan[u] = ReconcileOne(l, s)
  BY DEF Plan, BuildPlan, Planned, Present
<1>2. l \in Local \cup {Absent} /\ s \in Server \cup {Absent}
  BY <1>1 DEF TypeOK, LocalViews, ServerViews
<1>3. CASE l = Absent \/ s = Absent
  <2>1. Plan[u].action \in {"FetchNew", "DeleteLocal"}
    BY <1>1, <1>3 DEF ReconcileOne, Decide
  <2> QED BY <2>1
<1>4. CASE l # Absent /\ s # Absent
  <2>1. l \in Local /\ s \in Server /\ Plan[u] = ReconcileBoth(l, s)
    BY <1>1, <1>2, <1>4 DEF ReconcileOne
  <2>2. l.pendingDelete \in BOOLEAN /\ l.pendingFlags \in BOOLEAN
    BY <2>1 DEF Local
  <2> HIDE DEF l, s
  <2>3. \/ Plan[u].action = "PushDelete"
        \/ Plan[u].action \in {"AdoptServerFlags", "None"} /\ ~l.pendingFlags
        \/ /\ Plan[u].action \in {"PushFlags", "ClearPending"}
           /\ Plan[u].flags = l.flags \cup s.flags
           /\ Plan[u].action = "ClearPending" => Plan[u].flags = s.flags
    <3>1. CASE l.pendingDelete
      BY <2>1, <3>1 DEF ReconcileBoth, Decide
    <3>2. CASE ~l.pendingDelete /\ l.pendingFlags
      BY <2>1, <3>2 DEF ReconcileBoth, ReconcilePending, MergeFlags, Decide
    <3>3. CASE ~l.pendingDelete /\ ~l.pendingFlags
      BY <2>1, <3>3 DEF ReconcileBoth, Decide
    <3> QED BY <2>2, <3>1, <3>2, <3>3
  <2> QED BY <2>1, <2>3 DEF l, s
<1> QED BY <1>3, <1>4 DEF l, s

\* The steps that take a decision, of the message it is about.
LEMMA KeptDecision ==
  ASSUME IInv, NEW u \in Uid, Kept(u),
         \/ AdoptServerFlags(u) \/ StoreMergedFlags(u) \/ AddFlags(u) \/ ClearFlagsPending(u)
  PROVE  Kept(u)'
<1>0. PICK actions : Deciding(u, actions) /\ "DeleteLocal" \notin actions
  BY DEF AdoptServerFlags, StoreMergedFlags, AddFlags, ClearFlagsPending
<1>1. pc \in Applying
  BY DEF AdoptServerFlags, StoreMergedFlags, AddFlags, ClearFlagsPending, Applying
<1>2. /\ u \in todo /\ messages[u] \in Row /\ u \in DOMAIN Plan /\ Plan[u].flags \in SUBSET Flag
      /\ UpNext(u)
  BY <1>0, <1>1, DecidingFindsRow, DecidingIsNext DEF IInv
<1>3. messages[u] # Absent
  BY <1>2, RowAssumption
<1>4. InWindow(u)
  BY <1>1, <1>2 DEF InWindow, Applying
<1>5. CASE AdoptServerFlags(u)
  <2>1. Plan[u].action = "AdoptServerFlags"
    BY <1>5 DEF AdoptServerFlags, Deciding
  <2>2. ~locals[u].pendingFlags
    BY <1>2, <2>1, PlanMerges DEF IInv
  <2>3. Owed(u) => want[u] = {}
    BY <1>4, <2>2 DEF Kept, InSnapshot
  <2>4. ~InWindow(u)' /\ pc' = "apply"
    BY <1>5 DEF AdoptServerFlags, InWindow
  <2>5. ToBeFetched(u)' => ToBeFetched(u)
    BY <1>5 DEF AdoptServerFlags, ToBeFetched, Applying
  <2>6. UNCHANGED <<mailbox, uidNext, want, raced, edit>>
    BY <1>5 DEF AdoptServerFlags, callers, history
  <2> QED BY <1>3, <2>3, <2>4, <2>5, <2>6 DEF Kept, InCache, InSnapshot, Owed
<1>6. CASE StoreMergedFlags(u)
  <2>1. Plan[u].action \in {"PushFlags", "ClearPending"}
    BY <1>6 DEF StoreMergedFlags, Deciding
  <2>2. /\ locals[u] \in Local /\ servers[u] \in Server
        /\ Plan[u].flags = locals[u].flags \cup servers[u].flags
        /\ Plan[u].action = "ClearPending" => Plan[u].flags = servers[u].flags
    BY <1>2, <2>1, PlanMerges DEF IInv
  <2>3. messages'[u].flags = Plan[u].flags /\ messages'[u].pendingFlags = messages[u].pendingFlags
        /\ messages'[u] \in Row
    BY <1>2, <1>6 DEF StoreMergedFlags, IInv, TypeOK, Row
  <2>4. messages'[u] # Absent
    BY <2>3, RowAssumption
  <2>5. /\ UNCHANGED <<mailbox, uidNext, want, raced, edit, locals, servers, todo>>
        /\ pc' \in {"add", "clear"} /\ pc = "apply"
        /\ pc' = "clear" => Plan[u].action = "ClearPending" \/ Plan[u].flags = {}
    BY <1>6, <2>1 DEF StoreMergedFlags, callers, history
  <2>6. servers[u] # Absent
    BY <2>2, AbsentAssumption
  <2>7. Owed(u) => want[u] \subseteq Plan[u].flags
    BY <1>4, <2>2 DEF Kept, InSnapshot
  <2>8. Owed(u) => want[u] \cap servers[u].flags = {}
    BY <1>4, <2>5, <2>6 DEF Kept, InSnapshot
  <2>9. pc' = "clear" /\ Owed(u) => want[u] = {}
    BY <2>2, <2>5, <2>7, <2>8
  <2>10. InCache(u)'
    BY <2>3, <2>4, <2>5, <2>7 DEF Kept, InCache, Owed
  <2>11. InSnapshot(u)'
    BY <1>4, <2>5 DEF Kept, InSnapshot, Owed
  <2>12. (ToBeFetched(u) => messages[u] = Absent)'
    BY <1>3, <2>5 DEF Kept, ToBeFetched, Applying
  <2> QED BY <2>5, <2>9, <2>10, <2>11, <2>12 DEF Kept, Owed
<1>7. CASE AddFlags(u)
  <2>1. Plan[u].action = "PushFlags"
    BY <1>7 DEF AddFlags, Deciding
  <2>2. /\ locals[u] \in Local /\ servers[u] \in Server
        /\ Plan[u].flags = locals[u].flags \cup servers[u].flags
    BY <1>2, <2>1, PlanMerges DEF IInv
  <2>3. Owed(u) => want[u] \subseteq Plan[u].flags
    BY <1>4, <2>2 DEF Kept, InSnapshot
  <2>4. UNCHANGED <<messages, uidNext, raced, edit, locals, servers, todo>>
        /\ pc' = "clear" /\ pc = "add"
    BY <1>7 DEF AddFlags, callers
  <2>5. CASE mailbox[u] = Absent
    <3>1. UNCHANGED <<mailbox, want>>
      BY <1>7, <2>5 DEF AddFlags
    <3> QED BY <1>3, <1>4, <2>4, <2>5, <3>1 DEF Kept, InCache, InSnapshot, Owed, ToBeFetched, Applying
  <2>6. CASE mailbox[u] # Absent
    <3>1. mailbox[u] \in Server
      BY <2>6 DEF IInv, TypeOK, ServerViews
    <3>2. mailbox'[u] = [mailbox[u] EXCEPT !.flags = @ \cup Plan[u].flags]
          /\ want'[u] = want[u] \ Plan[u].flags
      BY <1>7, <2>6 DEF AddFlags, StillWanted, IInv, TypeOK, ServerViews
    <3>3. mailbox'[u].flags = mailbox[u].flags \cup Plan[u].flags
      BY <3>1, <3>2 DEF Server
    <3>4. want'[u] \cap mailbox'[u].flags = {}
      BY <2>6, <3>2, <3>3 DEF Kept
    <3>5. Owed(u)' => want'[u] = {}
      BY <2>3, <2>4, <2>6, <3>2 DEF Owed
    <3>6. u < uidNext
      BY <2>6 DEF Kept
    <3> QED BY <1>3, <2>4, <3>4, <3>5, <3>6 DEF Kept, InCache, InSnapshot, ToBeFetched, Applying
  <2> QED BY <2>5, <2>6
<1>8. CASE ClearFlagsPending(u)
  <2>1. Owed(u) => want[u] = {}
    BY <1>2, <1>8 DEF ClearFlagsPending, Kept
  <2>2. UNCHANGED <<mailbox, uidNext, want, raced, edit, locals, servers>>
        /\ pc' = "apply" /\ u \notin todo'
    BY <1>8 DEF ClearFlagsPending, callers, history
  <2>3. ToBeFetched(u)' => ToBeFetched(u)
    BY <1>1, <2>2 DEF ToBeFetched, Applying
  <2> QED BY <1>3, <2>1, <2>2, <2>3 DEF Kept, InCache, InSnapshot, Owed, InWindow
<1> QED BY <1>5, <1>6, <1>7, <1>8

\* A batch goes where no row was.
LEMMA KeptFetched ==
  ASSUME TypeOK, NEW u \in Uid, Kept(u), pc = "fetch", pc' = "fetch", Connected,
         NEW got \in SUBSET (Batch \cap Present(mailbox)), Store(got), todo' \subseteq todo,
         got \cap todo' = {},
         UNCHANGED <<mailbox, uidNext, want, raced, edit>>
  PROVE  Kept(u)'
<1>1. got \subseteq todo /\ got \subseteq Uid
  BY DEF Batch, Newest, Present
<1>2. CASE u \in got
  <2>1. messages[u] = Absent
    BY <1>1, <1>2 DEF Kept, ToBeFetched
  <2>2. Owed(u) => want[u] = {}
    BY <2>1 DEF Kept, InCache
  <2>3. ~ToBeFetched(u)'
    BY <1>2 DEF ToBeFetched, Applying
  <2> QED BY <2>2, <2>3 DEF Kept, InCache, InSnapshot, Owed, InWindow
<1>3. CASE u \notin got
  <2>1. messages'[u] = messages[u]
    BY <1>3 DEF Store
  <2> QED BY <2>1, KeptAside DEF SameFlags, InWindow, ToBeFetched, Applying
<1> QED BY <1>2, <1>3

LEMMA KeptSync ==
  ASSUME IInv, NEW u \in Uid, Kept(u), SyncStep
  PROVE  Kept(u)'
<1> USE DEF IInv
<1>1. CASE PurgeFolderMessages
  <2>1. RowsGone(Uid) /\ UNCHANGED <<mailbox, uidNext>>
    BY <1>1 DEF PurgeFolderMessages
  <2> QED BY <2>1, KeptGone
<1>2. CASE SetFolderUIDValidity \/ ZeroLastSeenUID
  BY <1>2, KeptAside
     DEF SetFolderUIDValidity, ZeroLastSeenUID, callers, history, SameFlags, InWindow,
         ToBeFetched, Applying
<1>3. CASE ListMessageStates
  <2>1. /\ UNCHANGED <<mailbox, uidNext, messages, want, raced, edit>> /\ pc' = "view"
        /\ locals' = LocalView(messages)
    BY <1>3 DEF ListMessageStates, callers
  <2>2. /\ locals'[u] = Absent <=> messages[u] = Absent
        /\ messages[u] # Absent => /\ locals'[u].flags = messages[u].flags
                                   /\ locals'[u].pendingFlags = messages[u].pendingFlags
    <3>1. messages[u] # Absent => messages[u] \in Row
      BY DEF TypeOK
    <3>2. messages[u] # Absent => AsLocal(messages[u]) # Absent
      BY <3>1, AbsentAssumption DEF AsLocal, Local, Row
    <3> QED BY <2>1, <3>2 DEF LocalView, AsLocal
  <2>3. InSnapshot(u)'
    BY <2>1, <2>2 DEF Kept, InCache, InSnapshot, Owed
  <2>4. (ToBeFetched(u) => messages[u] = Absent)'
    BY <2>1, <2>2 DEF ToBeFetched, Applying
  <2> QED BY <2>1, <2>3, <2>4 DEF Kept, InCache, Owed
<1>4. CASE LoadServerView
  <2>1. /\ UNCHANGED <<mailbox, uidNext, messages, want, raced, edit, locals>>
        /\ pc = "view" /\ pc' = "apply" /\ servers' = mailbox
    BY <1>4 DEF LoadServerView, callers, history
  <2>2. InSnapshot(u)'
    BY <2>1 DEF Kept, InSnapshot, Owed, InWindow
  <2>3. (ToBeFetched(u) => messages[u] = Absent)'
    BY <2>1 DEF Kept, ToBeFetched, Applying
  <2> QED BY <2>1, <2>2, <2>3 DEF Kept, InCache, Owed
<1>5. ASSUME NEW v \in Uid, DeleteLocal(v)
      PROVE  Kept(u)'
  <2>1. /\ RowsGone({v}) /\ UNCHANGED <<mailbox, uidNext, locals, servers>>
        /\ raced' = raced \ {v} /\ todo' = todo \ {v} /\ pc = "apply" /\ pc' = "apply"
    BY <1>5 DEF DeleteLocal
  <2>2. CASE u = v
    BY <2>1, <2>2, KeptGone
  <2>3. CASE u # v
    BY <2>1, <2>3, KeptAside, RowsGoneAside DEF InWindow, ToBeFetched, Applying
  <2> QED BY <2>2, <2>3
<1>6. ASSUME NEW v \in Uid,
             AdoptServerFlags(v) \/ StoreMergedFlags(v) \/ AddFlags(v) \/ ClearFlagsPending(v)
      PROVE  Kept(u)'
  <2>1. CASE u = v
    BY <1>6, <2>1, KeptDecision
  <2>2. CASE u # v
    <3>1. PICK actions : Deciding(v, actions)
      BY <1>6 DEF AdoptServerFlags, StoreMergedFlags, AddFlags, ClearFlagsPending
    <3>2. ~UpNext(u)
      BY <2>2, <3>1, DecidingIsNext
    <3>3. todo' \subseteq todo /\ (pc' = "clear" => todo' = todo)
      BY <1>6 DEF AdoptServerFlags, StoreMergedFlags, AddFlags, ClearFlagsPending
    <3>4. ~(pc' = "clear" /\ UpNext(u)')
      BY <3>2, <3>3 DEF UpNext
    <3>5. messages'[u] = messages[u] /\ mailbox'[u] = mailbox[u] /\ want'[u] = want[u]
      BY <1>6, <2>2 DEF AdoptServerFlags, StoreMergedFlags, AddFlags, ClearFlagsPending,
         callers, history, StillWanted, TypeOK, ServerViews
    <3>6. UNCHANGED <<uidNext, raced, edit, locals, servers>> /\ {pc, pc'} \subseteq Applying
      BY <1>6 DEF AdoptServerFlags, StoreMergedFlags, AddFlags, ClearFlagsPending,
         callers, history, Applying
    <3>7. InWindow(u)' => InWindow(u) /\ (pc' # "view" => pc # "view")
      BY <3>3, <3>6 DEF InWindow, Applying
    <3>8. ToBeFetched(u)' => ToBeFetched(u)
      BY <3>6 DEF ToBeFetched, Applying
    <3> QED BY <3>4, <3>5, <3>6, <3>7, <3>8, KeptAside DEF SameFlags
  <2> QED BY <2>1, <2>2
<1>7. CASE EndDecisions
  <2>1. /\ UNCHANGED <<mailbox, uidNext, messages, want, raced, edit, locals, servers, floor>>
        /\ pc = "apply" /\ pc' = "fetch" /\ todo' = WithAction(Plan, {"FetchNew"})
    BY <1>7 DEF EndDecisions, callers, history
  <2>2. u \in todo' => locals[u] = Absent
    BY <2>1, PlanDecides DEF WithAction
  <2>3. ToBeFetched(u)' => ToBeFetched(u)
    BY <2>1, <2>2 DEF ToBeFetched, Applying
  <2> QED BY <2>1, <2>3, KeptAside DEF SameFlags, InWindow
<1>8. CASE EndFetch \/ PushDeletes \/ SetFolderLastSeenUID
  <2>1. /\ UNCHANGED <<uidNext, messages, want, raced, edit>>
        /\ mailbox'[u] = mailbox[u] \/ mailbox'[u] = Absent
        /\ pc' \in {"finish", "delete", "drop", "idle"}
    BY <1>8 DEF EndFetch, PushDeletes, SetFolderLastSeenUID, EngineIdle, callers, history
  <2> QED BY <2>1, KeptAside DEF SameFlags, InWindow, ToBeFetched, Applying
<1>9. CASE FetchMessages
  <2> DEFINE got == Batch \cap Present(mailbox)
  <2>1. got \in SUBSET (Batch \cap Present(mailbox)) /\ got \cap (todo \ Batch) = {}
    OBVIOUS
  <2>2. /\ pc = "fetch" /\ pc' = "fetch" /\ Connected /\ Store(got) /\ todo' = todo \ Batch
        /\ UNCHANGED <<mailbox, uidNext, want, raced, edit>>
    BY <1>9 DEF FetchMessages, callers, history
  <2> HIDE DEF got
  <2> QED BY <2>1, <2>2, KeptFetched
<1>10. CASE DropDeleted
  <2>1. PICK gone : RowsGone(gone) /\ raced' = raced \ gone
    BY <1>10 DEF DropDeleted
  <2>2. UNCHANGED <<mailbox, uidNext>> /\ pc' = "finish"
    BY <1>10 DEF DropDeleted
  <2>3. CASE u \in gone
    BY <2>1, <2>2, <2>3, KeptGone
  <2>4. CASE u \notin gone
    BY <2>1, <2>2, <2>4, KeptAside, RowsGoneAside DEF InWindow, ToBeFetched, Applying
  <2> QED BY <2>3, <2>4
<1> QED BY <1>1, <1>2, <1>3, <1>4, <1>5, <1>6, <1>7, <1>8, <1>9, <1>10 DEF SyncStep

LEMMA KeptFailure ==
  ASSUME IInv, NEW u \in Uid, Kept(u), Failure
  PROVE  Kept(u)'
<1> USE DEF IInv
<1>1. ASSUME NEW v \in Uid, SkipDecision(v)
      PROVE  Kept(u)'
  BY <1>1, KeptAside DEF SkipDecision, callers, SameFlags, InWindow, ToBeFetched, Applying
<1>2. CASE FetchMessagesFails
  <2>1. CASE Connected
    <3>1. PICK got \in SUBSET (Batch \cap Present(mailbox)) : Store(got)
      BY <1>2, <2>1 DEF FetchMessagesFails
    <3>2. /\ pc = "fetch" /\ pc' = "fetch" /\ todo' \in {todo \ Batch, {}}
          /\ UNCHANGED <<mailbox, uidNext, want, raced, edit>>
      BY <1>2, <2>1 DEF FetchMessagesFails, callers
    <3>3. todo' \subseteq todo /\ got \cap todo' = {}
      BY <3>1, <3>2
    <3> QED BY <2>1, <3>1, <3>2, <3>3, KeptFetched
  <2>2. CASE ~Connected
    BY <1>2, <2>2, KeptAside
       DEF FetchMessagesFails, callers, SameFlags, InWindow, ToBeFetched, Applying
  <2> QED BY <2>1, <2>2
<1>3. CASE PushDeletesFails \/ Abort \/ Crash
  <2>1. /\ UNCHANGED <<mailbox, uidNext, messages, want, raced>> /\ edit' \in {edit, Absent}
        /\ pc' \in {"finish", "idle"}
    BY <1>3 DEF PushDeletesFails, Abort, Crash, EngineIdle, callers, history
  <2> QED BY <2>1, KeptAside DEF SameFlags, InWindow, ToBeFetched, Applying
<1> QED BY <1>1, <1>2, <1>3 DEF Failure

\* The uids of a mailbox counted afresh have all been given out.
LEMMA UidBelowNext ==
  ASSUME NEW uids \in SUBSET Uid, NEW u \in uids
  PROVE  u < HighestUID(uids) + 1
<1>1. PICK h : h = HighestUID(uids)
  OBVIOUS
<1>2. u <= h /\ h \in Uid \cup {0}
  BY <1>1, HighestUIDIsUid
<1>3. u \in Nat /\ \A v \in Uid \cup {0} : v \in Nat
  BY UidNatural
<1>4. h \in Nat
  BY <1>2, <1>3
<1> QED BY <1>1, <1>2, <1>3, <1>4

\* The second half of an edit, of the message it is about.
LEMMA KeptEdited ==
  ASSUME IInv, MarkFlagsPending, NEW u \in Uid, edit.uid = u, Kept(u)
  PROVE  Kept(u)'
<1> USE DEF IInv
<1> DEFINE flags == IF edit.on THEN edit.read \cup {edit.flag} ELSE edit.read \ {edit.flag}
           had   == IF u \in raced THEN {} ELSE want[u]
           asked == IF edit.on THEN Missing(u, {edit.flag}) ELSE {}
<1>1. edit # Absent /\ edit \in Edit
  BY DEF MarkFlagsPending, TypeOK
<1>2. messages[u] \in Row
  BY <1>1 DEF RowsThere, TypeOK
<1>3. /\ messages' = [messages EXCEPT ![u].flags = flags, ![u].pendingFlags = TRUE]
      /\ want' = [want EXCEPT ![u] = (had \ {edit.flag}) \cup asked]
      /\ raced' = IF InWindow(u) THEN raced \cup {u} ELSE raced \ {u}
      /\ edit' = Absent
      /\ UNCHANGED <<mailbox, uidNext, pc, todo, locals, servers>>
  BY DEF MarkFlagsPending, engine
<1>4. /\ asked \subseteq {edit.flag} \cap flags
      /\ asked # {} => mailbox[u] # Absent
      /\ mailbox[u] # Absent => asked \cap mailbox[u].flags = {}
  BY DEF Missing
<1>5. flags \in SUBSET Flag
  BY <1>1 DEF Edit
<1>6. Owed(u) => had \ {edit.flag} \subseteq flags
  BY <1>1 DEF Kept, Owed
<1>7. mailbox[u] # Absent /\ u \in raced => had = {}
  OBVIOUS
<1>8. had \subseteq want[u]
  OBVIOUS
<1> HIDE DEF flags, had, asked
<1>9. messages'[u].flags = flags /\ messages'[u].pendingFlags /\ messages'[u] \in Row
  BY <1>2, <1>3, <1>5 DEF TypeOK, Row
<1>10. want'[u] = (had \ {edit.flag}) \cup asked
  BY <1>3 DEF TypeOK
<1>11. InCache(u)'
  <2>1. mailbox[u] # Absent => want'[u] \subseteq flags
    BY <1>4, <1>6, <1>7, <1>10 DEF Owed
  <2>2. messages'[u] # Absent
    BY <1>9, RowAssumption
  <2> QED BY <1>3, <1>9, <2>1, <2>2 DEF InCache, Owed
<1>12. InWindow(u)' => u \in raced'
  BY <1>3 DEF InWindow
<1>13. (mailbox[u] # Absent => want[u] \cap mailbox[u].flags = {})'
  BY <1>3, <1>4, <1>8, <1>10 DEF Kept
<1>14. (mailbox[u] # Absent \/ want[u] # {} => u < uidNext)'
  BY <1>3, <1>4, <1>8, <1>10 DEF Kept
<1>15. (pc = "clear" /\ UpNext(u) /\ Owed(u) => want[u] = {})'
  BY <1>3, <1>12 DEF UpNext, Owed, InWindow
<1>16. ~ToBeFetched(u)'
  BY <1>2, <1>3, RowAssumption DEF Kept, ToBeFetched
<1> QED BY <1>3, <1>11, <1>12, <1>13, <1>14, <1>15, <1>16 DEF Kept, InSnapshot, Owed

LEMMA KeptOthers ==
  ASSUME IInv, NEW u \in Uid, Kept(u),
         \/ SyncFolder \/ IdlePush \/ BackfillFolder
         \/ IdleConnect \/ IdleDisconnect \/ FetchOlderMessages \/ User \/ OtherClients
  PROVE  Kept(u)'
<1> USE DEF IInv
<1>1. CASE SyncFolder \/ IdlePush \/ BackfillFolder
  BY <1>1, KeptAside DEF SyncFolder, IdlePush, BackfillFolder, Begin, callers, SameFlags,
     InWindow, ToBeFetched, Applying
<1>2. CASE IdleConnect \/ IdleDisconnect \/ FetchOlderMessages
  BY <1>2, KeptAside DEF IdleConnect, IdleDisconnect, FetchOlderMessages, engine, history,
     SameFlags, InWindow, UpNext, ToBeFetched
<1>3. ASSUME NEW v \in Uid, NEW f \in Flag, NEW on \in BOOLEAN, ReadFlags(v, f, on)
      PROVE  Kept(u)'
  <2>1. /\ UNCHANGED <<mailbox, uidNext, messages, want, raced, pc, todo, locals, servers>>
        /\ edit'.uid = v /\ edit'.read = messages[v].flags /\ edit = Absent
    BY <1>3 DEF ReadFlags, engine, history
  <2>2. InCache(u)' /\ InSnapshot(u)'
    BY <2>1 DEF Kept, InCache, InSnapshot, Owed, InWindow
  <2>3. u = v /\ Owed(u) => want[u] \subseteq messages[u].flags
    BY DEF Kept, InCache
  <2> QED BY <2>1, <2>2, <2>3 DEF Kept, Owed, UpNext, ToBeFetched
<1>4. CASE MarkFlagsPending
  <2>1. CASE edit.uid = u
    BY <1>4, <2>1, KeptEdited
  <2>2. CASE edit.uid # u
    <3>1. messages'[u] = messages[u] /\ want'[u] = want[u] /\ (u \in raced => u \in raced')
      BY <1>4, <2>2 DEF MarkFlagsPending, TypeOK
    <3>2. UNCHANGED <<mailbox, uidNext, pc, todo, locals, servers>> /\ edit' = Absent
      BY <1>4 DEF MarkFlagsPending, engine
    <3> QED BY <3>1, <3>2, KeptAside DEF SameFlags, InWindow, UpNext, ToBeFetched
  <2> QED BY <2>1, <2>2
<1>5. ASSUME NEW v \in Uid, MarkDeletePending(v) \/ ClearDeletePending(v)
      PROVE  Kept(u)'
  <2>1. messages[v] \in Row
    BY <1>5 DEF MarkDeletePending, ClearDeletePending, TypeOK
  <2>2. messages'[v] \in Row /\ messages'[v].flags = messages[v].flags
        /\ messages'[v].pendingFlags = messages[v].pendingFlags
    <3>1. CASE MarkDeletePending(v)
      BY <2>1, <3>1 DEF MarkDeletePending, TypeOK, Row
    <3>2. CASE ClearDeletePending(v)
      BY <2>1, <3>2 DEF ClearDeletePending, TypeOK, Row
    <3> QED BY <1>5, <3>1, <3>2
  <2>3. u # v => messages'[u] = messages[u]
    BY <1>5 DEF MarkDeletePending, ClearDeletePending, TypeOK
  <2>4. SameFlags(u)
    BY <2>1, <2>2, <2>3, RowAssumption DEF SameFlags
  <2>5. UNCHANGED <<mailbox, uidNext, want, raced, edit, pc, todo, locals, servers>>
    BY <1>5 DEF MarkDeletePending, ClearDeletePending, engine, callers
  <2> QED BY <2>4, <2>5, KeptAside DEF InWindow, UpNext, ToBeFetched
<1>6. CASE Deliver
  <2>1. /\ UNCHANGED <<messages, want, raced, edit, pc, todo, locals, servers>>
        /\ uidNext \in Uid /\ uidNext' = uidNext + 1
        /\ mailbox' = [mailbox EXCEPT ![uidNext] = [flags |-> {}]]
    BY <1>6 DEF Deliver, engine, callers
  <2>2. u \in Nat /\ uidNext \in Nat
    BY <2>1, UidNatural
  <2>3. CASE u = uidNext
    <3>1. want[u] = {} /\ mailbox'[u].flags = {}
      BY <2>1, <2>2, <2>3 DEF Kept, TypeOK, ServerViews
    <3> QED BY <2>1, <2>2, <2>3, <3>1 DEF Kept, InCache, InSnapshot, Owed, UpNext, ToBeFetched
  <2>4. CASE u # uidNext
    <3>1. mailbox'[u] = mailbox[u]
      BY <2>1, <2>4 DEF TypeOK, ServerViews
    <3>2. u < uidNext => u < uidNext'
      BY <2>1, <2>2
    <3> QED BY <2>1, <3>1, <3>2 DEF Kept, InCache, InSnapshot, Owed, InWindow, UpNext, ToBeFetched
  <2> QED BY <2>3, <2>4
<1>7. CASE Renumber
  <2>1. PICK uids \in SUBSET Uid : mailbox' = Unread(uids) /\ uidNext' = HighestUID(uids) + 1
    BY <1>7 DEF Renumber
  <2>2. UNCHANGED <<messages, edit, pc, todo, locals, servers>> /\ want'[u] = {}
    BY <1>7 DEF Renumber, engine, callers
  <2>3. mailbox'[u] # Absent => u < uidNext'
    <3>1. SUFFICES ASSUME u \in uids PROVE u < uidNext'
      BY <2>1 DEF Unread
    <3> QED BY <2>1, <3>1, UidBelowNext
  <2> QED BY <2>2, <2>3 DEF Kept, InCache, InSnapshot, UpNext, ToBeFetched
<1>8. ASSUME NEW v \in Uid, RemoteExpunge(v)
      PROVE  Kept(u)'
  <2>1. /\ UNCHANGED <<messages, uidNext, want, raced, edit, pc, todo, locals, servers>>
        /\ mailbox'[u] = mailbox[u] \/ mailbox'[u] = Absent
    BY <1>8 DEF RemoteExpunge, engine, callers, TypeOK, ServerViews
  <2> QED BY <2>1, KeptAside DEF SameFlags, InWindow, UpNext, ToBeFetched
<1>9. ASSUME NEW v \in Uid, NEW flags \in SUBSET Flag, RemoteFlags(v, flags)
      PROVE  Kept(u)'
  <2>1. UNCHANGED <<messages, uidNext, raced, edit, pc, todo, locals, servers>>
    BY <1>9 DEF RemoteFlags, engine, callers
  <2>2. CASE u = v
    <3>1. /\ mailbox[u] # Absent /\ mailbox'[u].flags = flags
          /\ want'[u] = want[u] \ flags
      BY <1>9, <2>2 DEF RemoteFlags, StillWanted, TypeOK, ServerViews, Server
    <3>2. want'[u] \subseteq want[u] /\ want'[u] \cap mailbox'[u].flags = {}
      BY <3>1
    <3>3. (Owed(u) => Owed(u))' /\ (Owed(u)' => Owed(u)) /\ u < uidNext
      BY <2>1, <3>1 DEF Owed, Kept
    <3>4. InCache(u)'
      BY <2>1, <3>2, <3>3 DEF Kept, InCache
    <3>5. InSnapshot(u)'
      BY <2>1, <3>2, <3>3 DEF Kept, InSnapshot, InWindow
    <3> QED BY <2>1, <3>2, <3>3, <3>4, <3>5 DEF Kept, UpNext, ToBeFetched
  <2>3. CASE u # v
    <3>1. mailbox'[u] = mailbox[u] /\ want'[u] = want[u]
      BY <1>9, <2>3 DEF RemoteFlags, StillWanted, TypeOK, ServerViews
    <3> QED BY <2>1, <3>1, KeptAside DEF SameFlags, InWindow, UpNext, ToBeFetched
  <2> QED BY <2>2, <2>3
<1> QED BY <1>1, <1>2, <1>3, <1>4, <1>5, <1>6, <1>7, <1>8, <1>9 DEF User, OtherClients

LEMMA KeptInit == Init => \A u \in Uid : Kept(u)
<1> SUFFICES ASSUME Init, NEW u \in Uid PROVE Kept(u)
  OBVIOUS
<1>1. PICK uids \in SUBSET Uid : mailbox = Unread(uids) /\ uidNext = HighestUID(uids) + 1
  BY DEF Init
<1>2. mailbox[u] # Absent => u < uidNext
  <2>1. SUFFICES ASSUME u \in uids PROVE u < uidNext
    BY <1>1 DEF Unread
  <2> QED BY <1>1, <2>1, UidBelowNext
<1>3. want[u] = {} /\ pc = "idle" /\ edit = Absent
  BY DEF Init
<1> QED BY <1>2, <1>3 DEF Kept, InCache, InSnapshot, ToBeFetched, Applying

LEMMA KeptStep ==
  ASSUME IInv, NEW u \in Uid, Kept(u), [Next]_vars
  PROVE  Kept(u)'
<1>1. CASE UNCHANGED vars
  BY <1>1, KeptAside DEF vars, engine, callers, history, SameFlags, InWindow, UpNext, ToBeFetched
<1> QED BY <1>1, KeptSync, KeptFailure, KeptOthers DEF Next

(* A flag the user set stays in the cache, and marked, until the server has *)
(* had it, whatever fails, restarts, or changes the message elsewhere, but  *)
(* for a change made inside the window of a running sync.                   *)
THEOREM FlagsKept == Spec => []KeptUntilPushed
<1> DEFINE AllKept == \A u \in Uid : Kept(u)
<1>1. Init => AllKept
  BY KeptInit
<1>2. IInv /\ AllKept /\ [Next]_vars => AllKept'
  BY KeptStep
<1>3. AllKept => KeptUntilPushed
  BY DEF Kept, InCache, Owed, KeptUntilPushed
<1> HIDE DEF AllKept
<1> QED BY <1>1, <1>2, <1>3, Invariant, PTL DEF Spec

-----------------------------------------------------------------------------
(* The promise of a clean sync, again one message at a time: where the sync *)
(* has brought it so far.                                                   *)

View(u) == IF messages[u] = Absent THEN Absent ELSE AsLocal(messages[u])

\* What the plan is to leave of a message on either side.
LocalPlanned(u) ==
  IF u \in DOMAIN Plan THEN LocalLeft(locals[u], servers[u], Plan[u]) ELSE locals[u]
ServerPlanned(u) ==
  IF u \in DOMAIN Plan THEN ServerLeft(servers[u], Plan[u]) ELSE servers[u]

\* The decision on a message has not been carried out to its end.
Ahead(u) ==
  /\ u \in DOMAIN Plan
  /\ \/ pc \in Applying /\ (u \in todo \/ Plan[u].action \in {"FetchNew", "PushDelete"})
     \/ pc = "fetch" /\ (u \in todo \/ Plan[u].action = "PushDelete")
     \/ pc \in {"delete", "drop"} /\ Plan[u].action = "PushDelete"

\* The merge is stored and the mark still set.
Amid(u) == pc \in {"add", "clear"} /\ UpNext(u)

LocalSoFar(u) ==
  IF Amid(u) THEN [locals[u] EXCEPT !.flags = Plan[u].flags]
  ELSE IF Ahead(u) THEN locals[u] ELSE LocalPlanned(u)

ServerSoFar(u) ==
  IF Ahead(u) /\ pc # "drop" /\ ~(pc = "clear" /\ UpNext(u))
    THEN servers[u] ELSE ServerPlanned(u)

OnTrack(u) ==
  ~faulty /\ u \notin touched =>
    /\ pc = "view" => View(u) = locals[u]
    /\ pc \in Planning \cup {"drop", "finish"} =>
         View(u) = LocalSoFar(u) /\ mailbox[u] = ServerSoFar(u)

LEMMA ViewType ==
  ASSUME TypeOK, NEW u \in Uid
  PROVE  /\ View(u) \in Local \cup {Absent}
         /\ messages[u] = Absent <=> View(u) = Absent
<1>1. CASE messages[u] = Absent
  BY <1>1 DEF View
<1>2. CASE messages[u] # Absent
  <2>1. messages[u] \in Row
    BY <1>2 DEF TypeOK
  <2>2. AsLocal(messages[u]) \in Local
    BY <2>1 DEF AsLocal, Row, Local
  <2> QED BY <1>2, <2>2, AbsentAssumption DEF View
<1> QED BY <1>1, <1>2

\* Every message ends where LocalAfter and ServerAfter put it.
LEMMA PlannedIsAfter ==
  ASSUME TypeOK, NEW u \in Uid
  PROVE  /\ LocalPlanned(u) = LocalAfter(locals, servers, floor)[u]
         /\ ServerPlanned(u) = ServerAfter(locals, servers, floor)[u]
<1>1. locals \in LocalViews /\ servers \in ServerViews /\ floor \in Uid \cup {0}
  BY DEF TypeOK, None
<1>2. DOMAIN Plan = Planned(locals, servers, floor)
      /\ \A v \in DOMAIN Plan : Plan[v] = ReconcileOne(locals[v], servers[v])
  BY DEF Plan, BuildPlan
<1>3. CASE u \in DOMAIN Plan
  BY <1>1, <1>2, <1>3, Executed DEF LocalPlanned, ServerPlanned
<1>4. CASE u \notin DOMAIN Plan
  BY <1>1, <1>2, <1>4, Unplanned DEF LocalPlanned, ServerPlanned
<1> QED BY <1>3, <1>4

\* A step about other messages, or about none.
LEMMA AsideOnTrack ==
  ASSUME NEW u \in Uid, OnTrack(u), faulty => faulty', u \in touched => u \in touched',
         u \in touched' \/ (messages'[u] = messages[u] /\ mailbox'[u] = mailbox[u]),
         \/ pc' \notin Planning \cup {"view", "drop", "finish"}
         \/ /\ UNCHANGED <<locals, servers, floor>>
            /\ pc' = pc \/ {pc, pc'} \subseteq Planning \cup {"drop", "finish"}
            /\ Ahead(u)' <=> Ahead(u)
            /\ Amid(u)' <=> Amid(u)
            /\ Ahead(u) => (pc' = "drop" <=> pc = "drop")
            /\ Ahead(u) => (pc' = "clear" /\ UpNext(u)' <=> pc = "clear" /\ UpNext(u))
  PROVE  OnTrack(u)'
<1>1. CASE faulty' \/ u \in touched'
  BY <1>1 DEF OnTrack
<1>2. CASE pc' \notin Planning \cup {"view", "drop", "finish"}
  BY <1>2 DEF OnTrack
<1>3. CASE /\ ~faulty' /\ u \notin touched' /\ pc' \in Planning \cup {"view", "drop", "finish"}
  <2>1. UNCHANGED <<locals, servers, floor>> /\ View(u)' = View(u) /\ mailbox'[u] = mailbox[u]
    BY <1>3 DEF View
  <2>2. CASE pc' = "view"
    <3>1. pc = "view"
      BY <1>3, <2>2 DEF Planning, Applying
    <3> QED BY <1>3, <2>1, <2>2, <3>1 DEF OnTrack, Planning, Applying
  <2>3. CASE pc' # "view"
    <3>1. pc \in Planning \cup {"drop", "finish"} /\ pc' \in Planning \cup {"drop", "finish"}
      BY <1>3, <2>3
    <3>2. View(u) = LocalSoFar(u) /\ mailbox[u] = ServerSoFar(u)
      BY <1>3, <3>1 DEF OnTrack
    <3>3. /\ Ahead(u)' <=> Ahead(u)
          /\ Amid(u)' <=> Amid(u)
          /\ LocalPlanned(u)' = LocalPlanned(u) /\ ServerPlanned(u)' = ServerPlanned(u)
          /\ Plan' = Plan
      BY <1>3, <2>1 DEF LocalPlanned, ServerPlanned, Plan
    <3>4. LocalSoFar(u)' = LocalSoFar(u)
      BY <2>1, <3>3 DEF LocalSoFar
    <3>5. ServerSoFar(u)' = ServerSoFar(u)
      BY <1>3, <2>1, <3>3 DEF ServerSoFar
    <3> QED BY <2>1, <2>3, <3>2, <3>4, <3>5 DEF OnTrack
  <2> QED BY <2>2, <2>3
<1> QED BY <1>1, <1>2, <1>3

\* A record of a view or a row with other flags.
LEMMA ViewWithFlags ==
  ASSUME NEW row \in Row, NEW flags \in SUBSET Flag
  PROVE  /\ AsLocal([row EXCEPT !.flags = flags]) = [AsLocal(row) EXCEPT !.flags = flags]
         /\ AsLocal([row EXCEPT !.pendingFlags = FALSE]) =
              [AsLocal(row) EXCEPT !.pendingFlags = FALSE]
         /\ [row EXCEPT !.flags = flags] \in Row
         /\ [row EXCEPT !.pendingFlags = FALSE] \in Row
<1> DEFINE flagged == [row EXCEPT !.flags = flags]
           cleared == [row EXCEPT !.pendingFlags = FALSE]
<1>1. /\ flagged.flags = flags /\ flagged.pendingFlags = row.pendingFlags
      /\ flagged.pendingDelete = row.pendingDelete
  BY DEF Row
<1>2. /\ cleared.flags = row.flags /\ cleared.pendingFlags = FALSE
      /\ cleared.pendingDelete = row.pendingDelete
  BY DEF Row
<1>3. flagged \in Row
  BY DEF Row
<1>4. cleared \in Row
  BY DEF Row
<1>5. AsLocal(flagged) = [AsLocal(row) EXCEPT !.flags = flags]
  <2> HIDE DEF flagged
  <2> QED BY <1>1 DEF AsLocal
<1>6. AsLocal(cleared) = [AsLocal(row) EXCEPT !.pendingFlags = FALSE]
  <2>1. \A x : [AsLocal(row) EXCEPT !.pendingFlags = x] =
                 [flags |-> row.flags, pendingFlags |-> x, pendingDelete |-> row.pendingDelete]
    BY DEF AsLocal
  <2> HIDE DEF cleared
  <2> QED BY <1>2, <2>1 DEF AsLocal
<1> QED BY <1>3, <1>4, <1>5, <1>6

LEMMA LocalWithBoth ==
  ASSUME NEW l \in Local, NEW flags \in SUBSET Flag
  PROVE  [[l EXCEPT !.flags = flags] EXCEPT !.pendingFlags = FALSE] =
           [l EXCEPT !.flags = flags, !.pendingFlags = FALSE]
BY DEF Local

LEMMA MergedServer ==
  ASSUME NEW s \in Server, NEW flags \in SUBSET Flag
  PROVE  /\ [flags |-> MergeFlags(s.flags, flags)] = [s EXCEPT !.flags = @ \cup flags]
         /\ flags = {} => [flags |-> MergeFlags(s.flags, flags)] = s
BY DEF Server, MergeFlags

\* The message whose decision is being carried out.
LEMMA DecisionOnTrack ==
  ASSUME IInv, NEW u \in Uid, OnTrack(u), ~faulty', u \notin touched',
         \/ DeleteLocal(u) \/ AdoptServerFlags(u) \/ StoreMergedFlags(u) \/ AddFlags(u)
         \/ ClearFlagsPending(u)
  PROVE  OnTrack(u)'
<1> USE DEF IInv
<1>1. PICK actions : Deciding(u, actions)
  BY DEF DeleteLocal, AdoptServerFlags, StoreMergedFlags, AddFlags, ClearFlagsPending
<1>2. /\ u \in todo /\ UpNext(u) /\ u \in DOMAIN Plan /\ Plan[u] \in Decision
      /\ pc \in Applying /\ pc' \in Applying
      /\ Plan[u].action \in {"DeleteLocal", "AdoptServerFlags", "PushFlags", "ClearPending"}
  <2>1. pc \in Applying /\ pc' \in Applying
    BY DEF DeleteLocal, AdoptServerFlags, StoreMergedFlags, AddFlags, ClearFlagsPending, Applying
  <2>2. u \in todo /\ UpNext(u)
    BY <1>1, DecidingIsNext DEF UpNext
  <2>3. u \in WithAction(Plan, {"DeleteLocal", "AdoptServerFlags", "PushFlags", "ClearPending"})
    BY <2>1, <2>2 DEF TodoFitsPhase
  <2> QED BY <2>1, <2>2, <2>3, PlanDecides DEF WithAction
<1>3. /\ UNCHANGED <<locals, servers, floor, touched, faulty>>
      /\ pc = "apply" \/ todo' = todo \/ todo' = todo \ {u}
      /\ Plan' = Plan
  BY DEF DeleteLocal, AdoptServerFlags, StoreMergedFlags, AddFlags, ClearFlagsPending, callers,
     history, Plan
<1>4. /\ Ahead(u)
      /\ LocalPlanned(u) = LocalLeft(locals[u], servers[u], Plan[u])
      /\ ServerPlanned(u) = ServerLeft(servers[u], Plan[u])
      /\ LocalPlanned(u)' = LocalPlanned(u) /\ ServerPlanned(u)' = ServerPlanned(u)
  BY <1>2, <1>3 DEF Ahead, LocalPlanned, ServerPlanned
<1>5. View(u) = LocalSoFar(u) /\ mailbox[u] = ServerSoFar(u)
  BY <1>2, <1>3 DEF OnTrack, Planning
<1>6. u \notin todo' /\ pc' = "apply" => ~Ahead(u)' /\ ~Amid(u)'
  BY <1>2, <1>3 DEF Ahead, Amid, Applying
<1>7. SUFFICES View(u)' = LocalSoFar(u)' /\ mailbox'[u] = ServerSoFar(u)'
  BY <1>2 DEF OnTrack, Applying
<1>8. CASE DeleteLocal(u)
  <2>1. /\ messages'[u] = Absent /\ mailbox'[u] = mailbox[u] /\ u \notin todo'
        /\ pc = "apply" /\ pc' = "apply" /\ Plan[u].action = "DeleteLocal"
    BY <1>8 DEF DeleteLocal, RowsGone, Deciding
  <2>2. LocalPlanned(u) = Absent /\ ServerPlanned(u) = servers[u]
    BY <1>4, <2>1 DEF LocalLeft, ServerLeft
  <2>3. mailbox[u] = servers[u]
    BY <1>4, <1>5, <2>1 DEF ServerSoFar
  <2> QED BY <1>4, <1>6, <2>1, <2>2, <2>3 DEF View, LocalSoFar, ServerSoFar
<1>9. CASE \/ AdoptServerFlags(u) \/ StoreMergedFlags(u)
  <2>1. messages[u] \in Row /\ Plan[u].flags \in SUBSET Flag
    BY <1>9, DecidingFindsRow DEF AdoptServerFlags, StoreMergedFlags, Applying
  <2>2. /\ messages' = [messages EXCEPT ![u].flags = Plan[u].flags]
        /\ mailbox'[u] = mailbox[u] /\ pc = "apply"
    BY <1>9 DEF AdoptServerFlags, StoreMergedFlags, callers, history
  <2>3. View(u) = locals[u] /\ mailbox[u] = servers[u]
    BY <1>4, <1>5, <2>2 DEF LocalSoFar, ServerSoFar, Amid
  <2>4. messages'[u] = [messages[u] EXCEPT !.flags = Plan[u].flags] /\ messages'[u] \in Row
    BY <2>1, <2>2, ViewWithFlags DEF TypeOK
  <2>5. View(u)' = [locals[u] EXCEPT !.flags = Plan[u].flags]
    <3>1. messages[u] # Absent /\ messages'[u] # Absent
      BY <2>1, <2>4, RowAssumption
    <3>2. View(u) = AsLocal(messages[u]) /\ View(u)' = AsLocal(messages'[u])
      BY <3>1 DEF View
    <3>3. PICK row \in Row, flags \in SUBSET Flag : row = messages[u] /\ flags = Plan[u].flags
      BY <2>1
    <3>4. AsLocal([row EXCEPT !.flags = flags]) = [AsLocal(row) EXCEPT !.flags = flags]
      BY ViewWithFlags
    <3>5. messages'[u] = [row EXCEPT !.flags = flags]
      BY <2>4, <3>3
    <3> QED BY <2>3, <3>2, <3>3, <3>4, <3>5
  <2>6. CASE AdoptServerFlags(u)
    <3>1. u \notin todo' /\ pc' = "apply" /\ Plan[u].action = "AdoptServerFlags"
      BY <2>6 DEF AdoptServerFlags, Deciding
    <3>2. /\ LocalPlanned(u) = [locals[u] EXCEPT !.flags = Plan[u].flags]
          /\ ServerPlanned(u) = servers[u]
      BY <1>4, <3>1 DEF LocalLeft, ServerLeft
    <3> QED BY <1>4, <1>6, <2>2, <2>3, <2>5, <3>1, <3>2 DEF LocalSoFar, ServerSoFar
  <2>7. CASE StoreMergedFlags(u)
    <3>1. /\ todo' = todo /\ pc' \in {"add", "clear"}
          /\ Plan[u].action \in {"PushFlags", "ClearPending"}
          /\ pc' = "clear" => Plan[u].action = "ClearPending" \/ Plan[u].flags = {}
      BY <2>7 DEF StoreMergedFlags, Deciding
    <3>2. Amid(u)' /\ Ahead(u)' /\ UpNext(u)'
      BY <1>2, <1>3, <3>1 DEF Amid, Ahead, UpNext, Applying
    <3>3. servers[u] \in Server
      BY <1>2, <3>1, PlanMerges
    <3>4. pc' = "clear" => ServerPlanned(u) = servers[u]
      <4>1. Plan[u].action = "ClearPending" => ServerLeft(servers[u], Plan[u]) = servers[u]
        BY DEF ServerLeft
      <4>2. Plan[u].flags = {} => ServerLeft(servers[u], Plan[u]) = servers[u]
        BY <2>1, <3>1, <3>3, MergedServer DEF ServerLeft
      <4> QED BY <1>4, <3>1, <4>1, <4>2
    <3>5. LocalSoFar(u)' = [locals[u] EXCEPT !.flags = Plan[u].flags]
      BY <1>3, <3>2 DEF LocalSoFar
    <3>6. ServerSoFar(u)' = servers[u]
      BY <1>3, <1>4, <3>1, <3>2, <3>4 DEF ServerSoFar
    <3> QED BY <2>2, <2>3, <2>5, <3>5, <3>6
  <2> QED BY <1>9, <2>6, <2>7
<1>10. CASE AddFlags(u)
  <2>1. /\ pc = "add" /\ pc' = "clear" /\ todo' = todo /\ Plan[u].action = "PushFlags"
        /\ messages' = messages
    BY <1>10 DEF AddFlags, Deciding
  <2>2. mailbox[u] = servers[u] /\ servers[u] \in Server /\ Plan[u].flags \in SUBSET Flag
    BY <1>2, <1>4, <1>5, <2>1, PlanMerges DEF ServerSoFar, Decision
  <2>3. mailbox'[u] = [servers[u] EXCEPT !.flags = @ \cup Plan[u].flags]
    BY <1>10, <2>2, AbsentAssumption DEF AddFlags, TypeOK, ServerViews
  <2>4. mailbox'[u] = ServerPlanned(u)
    BY <1>4, <2>1, <2>2, <2>3, MergedServer DEF ServerLeft
  <2>5. Amid(u) /\ Amid(u)' /\ UpNext(u)'
    BY <1>2, <2>1 DEF Amid, UpNext
  <2>6. LocalSoFar(u)' = LocalSoFar(u) /\ View(u)' = View(u)
    BY <1>3, <2>1, <2>5 DEF LocalSoFar, View
  <2> QED BY <1>4, <1>5, <2>1, <2>4, <2>5, <2>6 DEF ServerSoFar
<1>11. CASE ClearFlagsPending(u)
  <2>1. /\ pc = "clear" /\ pc' = "apply" /\ u \notin todo' /\ mailbox' = mailbox
        /\ Plan[u].action \in {"PushFlags", "ClearPending"}
        /\ messages' = [messages EXCEPT ![u].pendingFlags = FALSE]
    BY <1>11 DEF ClearFlagsPending, Deciding, callers, history
  <2>2. /\ messages[u] \in Row /\ Plan[u].flags \in SUBSET Flag
    BY <1>11, DecidingFindsRow DEF ClearFlagsPending, Applying
  <2>3. locals[u] \in Local
    BY <1>2, <2>1, PlanMerges
  <2>4. View(u) = [locals[u] EXCEPT !.flags = Plan[u].flags] /\ mailbox[u] = ServerPlanned(u)
    BY <1>2, <1>5, <2>1 DEF Amid, LocalSoFar, ServerSoFar
  <2>5. messages'[u] = [messages[u] EXCEPT !.pendingFlags = FALSE] /\ messages'[u] \in Row
    BY <2>1, <2>2, ViewWithFlags DEF TypeOK
  <2>6. View(u)' = [locals[u] EXCEPT !.flags = Plan[u].flags, !.pendingFlags = FALSE]
    BY <2>2, <2>3, <2>4, <2>5, ViewWithFlags, LocalWithBoth, RowAssumption DEF View
  <2>7. LocalPlanned(u) = [locals[u] EXCEPT !.flags = Plan[u].flags, !.pendingFlags = FALSE]
    BY <1>4, <2>1 DEF LocalLeft
  <2> QED BY <1>4, <1>6, <2>1, <2>4, <2>6, <2>7 DEF LocalSoFar, ServerSoFar
<1> QED BY <1>8, <1>9, <1>10, <1>11

LEMMA TrackSync ==
  ASSUME IInv, NEW u \in Uid, OnTrack(u), SyncStep
  PROVE  OnTrack(u)'
<1> USE DEF IInv
<1>0. SUFFICES ASSUME ~faulty', u \notin touched', pc' \in Planning \cup {"view", "drop", "finish"}
               PROVE  OnTrack(u)'
  BY DEF OnTrack
<1>1. CASE \/ PurgeFolderMessages \/ SetFolderUIDValidity \/ ZeroLastSeenUID
           \/ SetFolderLastSeenUID
  BY <1>0, <1>1 DEF PurgeFolderMessages, SetFolderUIDValidity, ZeroLastSeenUID,
     SetFolderLastSeenUID, EngineIdle, Planning, Applying
<1>2. CASE ListMessageStates
  BY <1>2 DEF ListMessageStates, OnTrack, View, LocalView, Planning, Applying
<1>3. CASE LoadServerView
  <2>1. /\ pc = "view" /\ pc' = "apply" /\ servers' = mailbox
        /\ UNCHANGED <<messages, mailbox, locals, touched, faulty>>
        /\ Plan' = BuildPlan(locals, mailbox, floor')
        /\ todo' = WithAction(Plan', {"DeleteLocal", "AdoptServerFlags", "PushFlags", "ClearPending"})
    BY <1>3 DEF LoadServerView, callers, history, Plan
  <2>2. View(u)' = locals'[u] /\ mailbox'[u] = servers'[u]
    BY <1>0, <2>1 DEF OnTrack, View
  <2>3. ~Amid(u)'
    BY <2>1 DEF Amid
  <2>4. ~Ahead(u)' => LocalPlanned(u)' = locals'[u] /\ ServerPlanned(u)' = servers'[u]
    <3>1. SUFFICES ASSUME ~Ahead(u)', u \in DOMAIN Plan'
                   PROVE  LocalPlanned(u)' = locals'[u] /\ ServerPlanned(u)' = servers'[u]
      BY DEF LocalPlanned, ServerPlanned
    <3>2. Plan'[u] = ReconcileOne(locals[u], mailbox[u])
      BY <2>1, <3>1 DEF BuildPlan
    <3>3. locals[u] \in Local \cup {Absent} /\ mailbox[u] \in Server \cup {Absent}
      BY DEF TypeOK, LocalViews, ServerViews
    <3>4. Plan'[u].action \in Action
      BY <3>2, <3>3, ReconcileOneDecides DEF Decision
    <3>5. Plan'[u].action = "None"
      BY <2>1, <3>1, <3>4 DEF Ahead, Action, WithAction, Applying
    <3> QED BY <3>1, <3>5 DEF LocalPlanned, ServerPlanned, LocalLeft, ServerLeft
  <2>5. LocalSoFar(u)' = locals'[u] /\ ServerSoFar(u)' = servers'[u]
    BY <2>1, <2>3, <2>4 DEF LocalSoFar, ServerSoFar
  <2> QED BY <2>1, <2>2, <2>5 DEF OnTrack
<1>4. ASSUME NEW v \in Uid,
             \/ DeleteLocal(v) \/ AdoptServerFlags(v) \/ StoreMergedFlags(v) \/ AddFlags(v)
             \/ ClearFlagsPending(v)
      PROVE  OnTrack(u)'
  <2>1. CASE u = v
    BY <1>0, <1>4, <2>1, DecisionOnTrack
  <2>2. CASE u # v
    <3>1. PICK actions : Deciding(v, actions)
      BY <1>4 DEF DeleteLocal, AdoptServerFlags, StoreMergedFlags, AddFlags, ClearFlagsPending
    <3>2. ~UpNext(u)
      BY <2>2, <3>1, DecidingIsNext
    <3>3. messages'[u] = messages[u] /\ mailbox'[u] = mailbox[u]
      BY <1>4, <2>2 DEF DeleteLocal, RowsGone, AdoptServerFlags, StoreMergedFlags, AddFlags,
         ClearFlagsPending, TypeOK, ServerViews
    <3>4. /\ UNCHANGED <<locals, servers, floor, touched, faulty>> /\ Plan' = Plan
          /\ pc \in Applying /\ pc' \in Applying
          /\ todo' = todo \/ (todo' = todo \ {v} /\ pc' = "apply")
      BY <1>4 DEF DeleteLocal, AdoptServerFlags, StoreMergedFlags, AddFlags, ClearFlagsPending,
         callers, history, Plan, Applying
    <3>5. Ahead(u)' <=> Ahead(u)
      BY <2>2, <3>4 DEF Ahead, Applying
    <3>6. ~(pc' \in {"add", "clear"} /\ UpNext(u)')
      BY <3>2, <3>4 DEF UpNext
    <3> QED BY <3>2, <3>3, <3>4, <3>5, <3>6, AsideOnTrack DEF Amid, Planning, Applying
  <2> QED BY <2>1, <2>2
<1>5. CASE EndDecisions
  <2>1. /\ UNCHANGED <<messages, mailbox, locals, servers, floor, touched, faulty>> /\ Plan' = Plan
        /\ pc = "apply" /\ pc' = "fetch" /\ todo = {} /\ todo' = WithAction(Plan, {"FetchNew"})
    BY <1>5 DEF EndDecisions, callers, history, Plan
  <2>2. Ahead(u)' <=> Ahead(u)
    BY <2>1 DEF Ahead, Applying, WithAction
  <2> QED BY <2>1, <2>2, AsideOnTrack DEF Amid, Planning, Applying
<1>6. CASE FetchMessages
  <2>1. /\ UNCHANGED <<mailbox, locals, servers, floor, touched, faulty>> /\ Plan' = Plan
        /\ pc = "fetch" /\ pc' = "fetch" /\ todo' = todo \ Batch
        /\ Connected /\ Store(Batch \cap Present(mailbox))
    BY <1>6 DEF FetchMessages, callers, history, Plan
  <2>2. CASE u \in Batch
    <3>1. u \in todo /\ u \notin todo'
      BY <2>1, <2>2 DEF Batch, Newest
    <3>2. u \in DOMAIN Plan /\ Plan[u].action = "FetchNew"
      BY <2>1, <3>1 DEF TodoFitsPhase, WithAction
    <3>3. Ahead(u) /\ ~Ahead(u)' /\ ~Amid(u) /\ ~Amid(u)'
      BY <2>1, <3>1, <3>2 DEF Ahead, Amid, Applying
    <3>4. mailbox[u] = servers[u]
      BY <1>0, <2>1, <3>3 DEF OnTrack, ServerSoFar, Planning
    <3>5. locals[u] = Absent /\ servers[u] # Absent
      <4>1. locals[u] = Absent
        BY <3>2, PlanDecides
      <4> QED BY <3>2, <4>1 DEF Plan, BuildPlan, Planned, Present
    <3>6. u \in Batch \cap Present(mailbox)
      BY <2>2, <3>4, <3>5 DEF Present
    <3>7. messages'[u] # Absent
      <4>1. Batch \cap Present(mailbox) \in SUBSET Present(mailbox)
        OBVIOUS
      <4>2. messages'[u] \in Row
        BY <2>1, <3>6, <4>1, StoredRows
      <4> QED BY <4>2, RowAssumption
    <3>8. View(u)' = Fetched(servers[u])
      BY <2>1, <3>4, <3>6, <3>7 DEF View, Store, AsLocal, Fetched
    <3>9. LocalPlanned(u)' = Fetched(servers[u]) /\ ServerPlanned(u)' = servers[u]
      BY <2>1, <3>2 DEF LocalPlanned, ServerPlanned, LocalLeft, ServerLeft
    <3> QED BY <2>1, <3>3, <3>4, <3>8, <3>9 DEF OnTrack, LocalSoFar, ServerSoFar
  <2>3. CASE u \notin Batch
    <3>1. messages'[u] = messages[u]
      BY <2>1, <2>3 DEF Store
    <3>2. Ahead(u)' <=> Ahead(u)
      BY <2>1, <2>3 DEF Ahead, Applying
    <3> QED BY <2>1, <3>1, <3>2, AsideOnTrack DEF Amid, Planning, Applying
  <2> QED BY <2>2, <2>3
<1>7. CASE EndFetch
  <2>1. /\ UNCHANGED <<messages, mailbox, locals, servers, floor, touched, faulty>> /\ Plan' = Plan
        /\ pc = "fetch" /\ todo = {}
        /\ pc' = IF PendingDeletes = {} THEN "finish" ELSE "delete"
    BY <1>7 DEF EndFetch, callers, history, Plan
  <2>2. u \in DOMAIN Plan /\ Plan[u].action = "PushDelete" <=> u \in PendingDeletes
    BY DEF PendingDeletes, WithAction
  <2>3. Ahead(u)' <=> Ahead(u)
    BY <2>1, <2>2 DEF Ahead, Applying
  <2> QED BY <2>1, <2>3, AsideOnTrack DEF Amid, Planning, Applying
<1>8. CASE PushDeletes
  <2>1. /\ UNCHANGED <<messages, locals, servers, floor, touched, faulty>> /\ Plan' = Plan
        /\ pc = "delete" /\ pc' = "drop"
    BY <1>8 DEF PushDeletes, callers, history, Plan
  <2>0. mailbox'[u] = IF u \in PendingDeletes THEN Absent ELSE mailbox[u]
    BY <1>8 DEF PushDeletes
  <2>2. u \in DOMAIN Plan /\ Plan[u].action = "PushDelete" <=> u \in PendingDeletes
    BY DEF PendingDeletes, WithAction
  <2>3. (Ahead(u) <=> u \in PendingDeletes) /\ (Ahead(u)' <=> u \in PendingDeletes)
        /\ ~Amid(u) /\ ~Amid(u)'
    BY <2>1, <2>2 DEF Ahead, Amid, Applying
  <2>4. CASE u \in PendingDeletes
    <3>1. View(u)' = locals'[u]
      BY <1>0, <2>1, <2>3, <2>4 DEF OnTrack, LocalSoFar, View, Planning
    <3>2. ServerPlanned(u)' = Absent
      BY <2>1, <2>2, <2>4 DEF ServerPlanned, ServerLeft
    <3> QED BY <2>0, <2>1, <2>3, <2>4, <3>1, <3>2 DEF OnTrack, LocalSoFar, ServerSoFar
  <2>5. CASE u \notin PendingDeletes
    BY <2>0, <2>1, <2>3, <2>5, AsideOnTrack DEF Planning, Applying
  <2> QED BY <2>4, <2>5
<1>9. CASE DropDeleted
  <2>1. /\ UNCHANGED <<mailbox, locals, servers, floor, touched>> /\ Plan' = Plan
        /\ pc = "drop" /\ pc' = "finish" /\ RowsGone(PendingDeletes) /\ faulty' = faulty
    BY <1>0, <1>9 DEF DropDeleted, Plan
  <2>2. u \in DOMAIN Plan /\ Plan[u].action = "PushDelete" <=> u \in PendingDeletes
    BY DEF PendingDeletes, WithAction
  <2>3. (Ahead(u) <=> u \in PendingDeletes) /\ ~Ahead(u)' /\ ~Amid(u) /\ ~Amid(u)'
    BY <2>1, <2>2 DEF Ahead, Amid, Applying
  <2>4. CASE u \in PendingDeletes
    <3>1. View(u)' = Absent
      BY <2>1, <2>4 DEF View, RowsGone
    <3>2. LocalPlanned(u)' = Absent /\ ServerPlanned(u)' = ServerPlanned(u)
      BY <2>1, <2>2, <2>4 DEF LocalPlanned, ServerPlanned, LocalLeft
    <3>3. mailbox[u] = ServerPlanned(u)
      BY <1>0, <2>1 DEF OnTrack, ServerSoFar
    <3> QED BY <2>1, <2>3, <3>1, <3>2, <3>3 DEF OnTrack, LocalSoFar, ServerSoFar
  <2>5. CASE u \notin PendingDeletes
    <3>1. messages'[u] = messages[u]
      BY <2>1, <2>5 DEF RowsGone
    <3> QED BY <2>1, <2>3, <2>5, <3>1, AsideOnTrack DEF Planning, Applying
  <2> QED BY <2>4, <2>5
<1> QED BY <1>1, <1>2, <1>3, <1>4, <1>5, <1>6, <1>7, <1>8, <1>9 DEF SyncStep

LEMMA TrackStep ==
  ASSUME IInv, NEW u \in Uid, OnTrack(u), [Next]_vars
  PROVE  OnTrack(u)'
<1> USE DEF IInv
<1>1. CASE Failure
  BY <1>1 DEF Failure, SkipDecision, FetchMessagesFails, PushDeletesFails, Abort, Crash,
     EngineIdle, OnTrack, Planning, Applying
<1>2. CASE SyncFolder \/ IdlePush \/ BackfillFolder
  BY <1>2 DEF SyncFolder, IdlePush, BackfillFolder, Begin, OnTrack, Planning, Applying
<1>3. ASSUME UNCHANGED engine, faulty' = faulty, touched \subseteq touched',
             u \in touched' \/ (messages'[u] = messages[u] /\ mailbox'[u] = mailbox[u])
      PROVE  OnTrack(u)'
  BY <1>3, AsideOnTrack DEF engine, Ahead, Amid, UpNext, Plan
<1>4. CASE \/ IdleConnect \/ IdleDisconnect \/ FetchOlderMessages
           \/ \E v \in Uid, f \in Flag, on \in BOOLEAN : ReadFlags(v, f, on)
  BY <1>3, <1>4 DEF IdleConnect, IdleDisconnect, FetchOlderMessages, ReadFlags, history
<1>5. CASE MarkFlagsPending
  BY <1>3, <1>5 DEF MarkFlagsPending, TypeOK
<1>6. ASSUME NEW v \in Uid, MarkDeletePending(v) \/ ClearDeletePending(v)
      PROVE  OnTrack(u)'
  BY <1>3, <1>6 DEF MarkDeletePending, ClearDeletePending, TypeOK
<1>7. CASE Deliver
  BY <1>3, <1>7 DEF Deliver, TypeOK, ServerViews
<1>8. CASE Renumber
  BY <1>3, <1>8 DEF Renumber, TypeOK
<1>9. ASSUME NEW v \in Uid,
             RemoteExpunge(v) \/ \E flags \in SUBSET Flag : RemoteFlags(v, flags)
      PROVE  OnTrack(u)'
  BY <1>3, <1>9 DEF RemoteExpunge, RemoteFlags, TypeOK, ServerViews
<1>10. CASE UNCHANGED vars
  BY <1>3, <1>10 DEF vars, history
<1> QED BY <1>1, <1>2, <1>4, <1>5, <1>6, <1>7, <1>8, <1>9, <1>10, TrackSync
        DEF Next, User, OtherClients

(* A sync in which nothing was skipped leaves every message nobody else     *)
(* touched where the reconciler's plan puts it, on both sides, whatever     *)
(* happened to the other messages between its steps.                        *)
THEOREM PromiseKept == Spec => []CleanSyncKeepsPromise
<1> DEFINE AllOnTrack == \A u \in Uid : OnTrack(u)
<1>1. Init => AllOnTrack
  BY DEF Init, OnTrack, Planning, Applying
<1>2. IInv /\ AllOnTrack /\ [Next]_vars => AllOnTrack'
  BY TrackStep
<1>3. IInv /\ AllOnTrack => CleanSyncKeepsPromise
  <2>1. SUFFICES ASSUME IInv, AllOnTrack, pc = "finish", ~faulty, NEW u \in Uid \ touched
                 PROVE  /\ LocalView(messages)[u] = LocalAfter(locals, servers, floor)[u]
                        /\ mailbox[u] = ServerAfter(locals, servers, floor)[u]
    BY DEF CleanSyncKeepsPromise
  <2>2. ~Amid(u) /\ ~Ahead(u)
    BY <2>1 DEF Amid, Ahead, Applying
  <2>3. View(u) = LocalPlanned(u) /\ mailbox[u] = ServerPlanned(u)
    BY <2>1, <2>2 DEF OnTrack, LocalSoFar, ServerSoFar
  <2>4. LocalView(messages)[u] = View(u)
    BY DEF LocalView, View
  <2> QED BY <2>1, <2>3, <2>4, PlannedIsAfter DEF IInv
<1> HIDE DEF AllOnTrack
<1> QED BY <1>1, <1>2, <1>3, Invariant, PTL DEF Spec

=============================================================================
