# Pelton in TLA+

Pelton is a desktop mail client: a Go backend (`internal/`) bound to a Svelte
frontend by Wails. It caches IMAP folders in sqlite, lets the user act on the
cache at once, and moves changes both ways in the background. This directory
models the parts where that concurrency lives, checks them with TLC and proves
the central results with TLAPS.

- [The system](#the-system): components, state, interactions, what is hard
- [The modules](#the-modules): what models what, and how
- [The runs](#the-runs): what is checked, with which bounds
- [What disagrees with the code's own words](#what-disagrees-with-the-codes-own-words)
- [Fairness](#fairness), [The proofs](#the-proofs), [Not modelled](#not-modelled), [Plan](#plan)

To check a run: `tlc -config Outbox.cfg Outbox`, with the module and the cfg the
table of [runs](#the-runs) names. To check the proofs of a module:
`tlapm OutboxProofs.tla`.

## The system

### Components

| component | state | operations | interacts with |
|---|---|---|---|
| folder sync engine (`sync/`, `storage/syncstate.go`) | the folder's row (validity, last seen uid, floor of the window), the cached rows with their pending marks; per sync a snapshot of both sides and a plan | `SyncFolder`, `BackfillFolder` | IMAP session, store, user actions through the rows, send queue through `YieldTo` |
| sync scheduling and idle (`desktop/bind_sync.go`, `bind_backfill.go`) | `syncMu`, queued syncs, idle sessions with a folder row each | `TriggerSync`, `queueSync`, `runAutoSyncLoop`, `idleSession`, `FetchOlderMessages` | calls the engine under `syncMu` |
| send queue (`outbox/`, `storage/outbox.go`, `smtp/send.go`) | the outbox table; the message the worker has claimed | `Enqueue`, `Cancel`, `Retry`, `Discard`, `PruneSent`, the worker's `DrainOnce` | smtp server, `syncMu` when it files the sent copy, the ui by events |
| message actions (`desktop/bind_messages.go`, `bind_message_extras.go`, `bind_archive.go`, `bind_spam.go`, `storage/spamorigins.go`; `lib/messageactions.ts`, `MoveDialog.svelte`, `stores/undoarchive.ts`) | the rows' flags and marks; the origin of a spam mark; the undo stack of moves | flag edits, delete and its undo, archive, move, spam marks and their undo, colours | no lock for flags; `syncMu` for moves, taken after the row is read |
| drafts (`desktop/bind_compose.go`, `imap/append.go`; `stores/compose.ts`, `Compose.svelte`) | the panes; the drafts list under `draftsMu`; server copies by Message-ID | `save`, `send`, `discard`, `close` of a pane; `SaveDraft`, `UploadDraft`, `RemoveServerDraft`, `DeleteDraft` | a session each, beside `syncMu`; goroutines that outlive the call |
| server deletes and moves (`imap/expunge.go`, `imap/move.go`) | none | `DeleteMessages`, `MoveMessages` | other clients' `\Deleted` marks |
| message list (`stores/messages.ts`, `listselect.ts`, `selectall.ts`, `selection.ts`, `undodelete.ts`, `MessageList.svelte`) | what is on screen, the offset, the generation of the last load; what is picked and open; the undo stack of deletions | `loadList`, `loadMore`, `runSearch`, `loadOlder`; picking, opening, deleting, undoing | calls whose answers come in any order; the events of syncs |
| bulk download (`desktop/bind_download.go`) | an active flag, a cancel function, a resume marker in the settings | `DownloadRange`, `CancelDownload`, `ResumePendingDownload` | `syncMu` for its plan |
| store (`storage/`) | sqlite | queries, each atomic | everything |
| frontend (`App.svelte`, `stores/outbox.ts`, `stores/undosend.ts`) | dialogs, the ids an undo toast or a panel holds | calls of the bound methods | events |

The rest (IMAP and SMTP clients, MIME, search, crypto, credentials, OAuth,
contacts, import and export, MCP server, themes, logging, the desktop shell) is
sequential conversion or I/O; `PROJECT.json` lists each part with its status.

### How they interact

A user's action changes a cached row, marks it pending and returns. A sync runs
per folder: it selects the mailbox, drops the cache if the UIDVALIDITY changed,
takes a snapshot of the rows and one of the server, computes a plan from the two
and executes it one decision at a time. `syncMu` keeps two syncs apart but the
user's writes take no lock. A send is a row in the outbox; one worker claims due
rows, hands them to the server and writes the outcome. A sync stands aside
between batches while the outbox is not empty, and the worker takes `syncMu` to
file the sent message.

### What is hard, and what makes each part correct

- *Sync*: user writes between the snapshot and the decision made from it; a
  failure between any two store writes; callers that hold an older folder row;
  a mailbox renumbered meanwhile; a window that must neither hide nor admit a
  message it should not. Correct when generations never mix, what is pushed is
  what the user saw, a user's change survives until the server has it, a sync
  does what its plan says, and the two sides agree again after any trouble.
- *Send queue*: the process ends between the server's acceptance and the write
  that records it; a cancel or a retry against the worker's claim; ids that
  sqlite uses again; a worker and a sync waiting on each other. Correct when no
  message is dropped, none is sent after it was withdrawn, none is sent twice
  without need, and each comes to an end.
- *Message list*: pages by offset over a table that changes, answers that come
  late or to a list the user has left, a search over another table. Correct when
  no row is shown twice, what is on screen is what was asked for last, what was
  deleted can be taken back, and the list never waits for ever.
- *Drafts*: a pane's saves run one after another, but nothing orders them against
  another pane on the same draft, or against the removals in the background; the
  upload reads the draft under a lock it has released when it appends. Correct
  when a stored draft is never without a copy, nobody else's mail goes with one,
  no copy outlives its draft, no pane makes two, and a sealed draft leaves no
  plaintext.
- *Moves and their undo*: the row is read before the wait for `syncMu`; a move of
  a uid that is gone is no error; without MOVE it is a copy and a deletion; the
  origin of a spam mark is written after the lock is released. Correct when only
  what was meant moves, nothing is lost or doubled, a row goes only when its
  message went, and undoing puts everything back where it was.
- *Colours, downloads, the scheduling of several accounts*: not modelled yet, see
  the plan.

`PROJECT.json` lists every hazard at its line with the properties that watch it.

## The modules

| module | models | builds on |
|---|---|---|
| `Reconcile` | the pure part of a sync: `reconcile.go`'s decision table, `window.go`'s floors, what executing a plan leaves on both sides | |
| `ReconcileRounds` | whole syncs, one after the other, from any state | `Reconcile` |
| `FolderSync` | the same sync as one action per store write and server command, with the user, other clients, stale callers, failures and crashes | `Reconcile` |
| `SendQueue` | abstract: what the outbox promises of each message | |
| `Outbox` | the outbox table, the worker, the user's calls, `syncMu` and a sync | refines `SendQueue` |
| `MailList` | the pages of a folder or search, older mail, and their late answers | |
| `MailWindow` | picking, opening, deleting and undoing on the rows of that list | extends `MailList` |
| `DraftsFolder` | what Pelton's sessions do to the Drafts folder, command by command | |
| `Drafts` | the panes and the local drafts over it | extends `DraftsFolder`, implements its `FolderSpec` |
| `Moves` | archive, move, spam marks and the undo of the three | |
| `MCMailList`, `MCMailWindow`, `MCDrafts` | the constants of their runs that a `.cfg` cannot write: functions and records | |
| `NaturalLemmas`, `ReconcileLemmas` | lemmas on extremes of sets of naturals and ranks in finite sets; on windows and decisions | |
| `ReconcileRoundsProofs`, `FolderSyncProofs`, `OutboxProofs`, `MailWindowProofs`, `DraftsProofs`, `MovesProofs` | the theorems | |

The modules carry their bounds as constants, so a `.cfg` is all that most of the
models need.

### Reconcile and ReconcileRounds

A side of a folder is a function on `Uid`, `Absent` where there is no message; a
flag mask is the set of its flags. `ReconcileOne` is `Reconcile`,
`ReconcileBoth` and `ReconcilePending` are `reconcileBoth`'s branches, `BuildPlan`
is the plan with the window's floor. `WindowFloor` picks `FloorForLimit`,
`LowerFloor` or `NormalizeFloor` as `windowFloor` does. `LocalAfter` and
`ServerAfter` are what a sync leaves when nothing fails and nobody else acts;
`ReconcileRounds` iterates them from *every* pair of views and every floor.

### FolderSync

The server's mailbox (`uidValidity`, `mailbox`, `uidNext`) is external. `messages`
and `folder` are the store. `pc` names the engine's next step:

| `pc` | code | action |
|---|---|---|
| `idle` | `syncFolder` begins: SELECT, load the state, compare the validity the *caller's* folder value carries | `SyncFolder`, `IdlePush`, `BackfillFolder` |
| `purge`, `stamp`, `zero` | the three writes of `handleUIDValidity` | `PurgeFolderMessages`, `SetFolderUIDValidity`, `ZeroLastSeenUID` |
| `list`, `view` | the two snapshots; the second fixes floor and plan | `ListMessageStates`, `LoadServerView` |
| `apply`, `add`, `clear` | `executePlan`, a decision at a time | `DeleteLocal`, `AdoptServerFlags`, `StoreMergedFlags`, `AddFlags`, `ClearFlagsPending`, `SkipDecision` |
| `fetch` | `fetchNew`, in batches | `FetchMessages`, `FetchMessagesFails` |
| `delete`, `drop` | `pushDeletes`, then the rows | `PushDeletes`, `DropDeleted` |
| `finish` | the high water mark | `SetFolderLastSeenUID` |

`updateFlag` reads a mask and writes it back: `ReadFlags` then
`MarkFlagsPending`, with anything in between. `Abort` is any error return or
cancellation, `Crash` the end of the process. An idle session and a "load older"
hold the folder row they read before their turn (`idle`, `older`).
`MarkDeletePending` leaves out repeats that change nothing. History variables
(`want`, `raced`, `touched`, `faulty`, a row's `validity`) are read by
no guard and only feed properties.

Abstractions: the bodies of messages are not there, a message is its flags and
pending marks; a folder has one idle session and one "load older" at a time; the
whole of `DeleteMessages` or `MoveMessages` is one step; the server drops a
session whose mailbox it renumbers.

### Outbox

`rows` is the table with the message as key; its `id` is the column, and
`FreshId` is sqlite's rule for an `INTEGER PRIMARY KEY` without `AUTOINCREMENT`:
one more than the highest there is, so ids of deleted newest rows come back.
`next_attempt_at` is abstracted to `due`. `worker.at` is where the one worker is:

| `at` | code |
|---|---|
| `down` | the app is not up, or the worker has not run yet: `Start` is `RequeueStuck` |
| `poll` | `DrainOnce`: `Claim` takes the due row with the lowest id |
| `transmit` | `Transmit`: `Accept`, `Reject`, or `LoseReply` when the server took it and the connection broke |
| `append` | waiting for `syncMu` to file the copy: `AppendToSent` |
| `accepted`, `rejected` | the outcome is to be written: `MarkSent`, `MarkAttemptFailed`, or `MarkFails` when the store refuses |

The user works on the ids the ui holds (`held`): the undo toast's after
`SendMessage`, the panel's after `Show`. `Cancel`, `Retry` and `Discard` are the
guarded statements `... WHERE id = ? AND state = ?`. The app's restart happens
while the ui is gone too, so a crash clears `held`. `sync` counts the batches the
running sync has left; between batches it waits while `Pending`. A sync may fail
early (`FetchBatch` may drop what is left).

`SendQueue` is the promise: a message is `unsent`, `waiting`, `delivered`,
`refused` or `withdrawn`, and moves only along
unsent → waiting → delivered / refused, refused → waiting, waiting or refused →
withdrawn. The refinement mapping (`StatusOf`) computes the status from the
table and the history `asked`, `sent`, `removed`; a row that went missing would be
`lost`, which no state of `SendQueue` is. `removed` has a message only if the cancel
or the discard that deleted its row was *meant for it*: `Cancel(m)` deletes whichever
row has the id the ui holds for m. When that is another message's, sent nowhere and
taken back by nobody, it is `lost`; `TakesAnother` is that step, and
`ImplementsSendQueue` allows for it and for nothing else besides `SendQueue!Next`.

### MailList and MailWindow

A message is its place in time, a folder or unified view a set of messages. Of
them `cached` have a row, `pending` await their expunge, `expunged` have gone
(the search index may still name them). `list` is the `messageList` store, `at`
the module's own variables (`currentSelection`, `currentOffset`,
`currentSearch`, `loadGeneration`), `bar` what the sidebar and the search bar say,
which is not always what is loaded. A call to the backend is a member of `calls`:
`LoadList`, `RunSearch`, `Scroll` and `LoadOlder` make one, `Read`, `FetchOlder`
or `CallFails` answers it from the store of that moment, and `Deliver` runs what
follows the `await`, in any order. Deliveries look at the generation exactly
where the code does: `MoreSearchArrives` does not when it failed.

`MailWindow` adds `picked` (`selectedIds`), `open`, the deletion that is running
(`batch`: `bulkTrash`, or `trashMessage` of one), the stack of `undodelete.ts` and
the undo that is running. Each deletion and each undo is a call too.
`ExpandSelection` asks for the ids behind the list, and applies the answer if the
selection is still what it was.

History: `derailed` (a failed page of an earlier search has made a list ready in
the middle of a load), `restored` (rows an undo has put into whatever list was
shown), `lost` (messages whose undo failed). Each is an observation of its own,
below.

Sequences are built by rank and not with the library's sorts and filters, which
the prover knows nothing of: `NewestFirst` gives position k the message with k - 1
newer ones, `Keep` (an `Array.filter`) and `Sorted` (the stable `Array.sort` of
`restoreToList`) give it the row that k - 1 others stay or come before.
`MCMailWindow` compares the three with `SetToSortSeq`, `SelectSeq` and `SortSeq`
on all small inputs, in an ASSUME that TLC evaluates with its run.

Abstractions: a page is read at once, though `ListMessages` makes several
queries; sorting is by time; a query is the set of its matches.

### DraftsFolder and Drafts

`DraftsFolder` is the mailbox (`copies` of each draft by Message-ID, `others`,
what is `marked`) and Pelton's sessions on it (`jobs`). A job's `at` is its next
command:

| `at` | code |
|---|---|
| `find` | `findDraft`, for both `ReplaceDraft` and `RemoveDraft` |
| `append`, `look` | the append, and `append.go:54-66`, which decides whether the earlier copies may go |
| `search`, `lift` | `DeleteMessages` without UIDPLUS: other clients' marks are found and lifted |
| `mark`, `expunge` | `markDeleted`; UID EXPUNGE, or a plain one |
| `restore` | the lifted marks are put back |

A server may have UIDPLUS or not, or be like Gmail, which answers an append of a
Message-ID it has with the message that is there. `Break` ends a session at any
command, `Quit` all of them, `MarkElsewhere` is another client.

`Drafts` puts the panes and the local drafts on top. A pane's `saves` is its chain
in `pending`, `run` the save that is under way (`save`, `saved`, `upload`, `remove`,
`session` are the awaits of `save` and `upload`), `wait` a send or a discard that
waits for it (`settled`). `SaveDraft` stores under `draftsMu` at once and may leave
`RemoveServerDraft` running in a session nobody waits for. `OpenDraft` opens a
draft in a second pane, `UndoSend` brings a message back in one; `restoreSession`
is what either begins with. A content is the number of its edit. `draftId` is
`NextDraftId`: one above the highest, so ids of deleted newest drafts come back.

`Patient` says that the user waits for what is slow: does not touch a pane that
closes or sends or has a second save waiting, and does not open a draft that
another pane is saving, sending or discarding. Without it the
observations below break `NoStrayCopy` and `SentLeavesNoDraft` in the ways listed
there; `drafts_plaintext` runs without it.

### Moves

The server has `copies` (message, folder, uid, keywords), each folder its
`uidValidity` and `uidNext`, and MOVE or not. `rows` is the cache: a row names a
copy by folder, uid and the validity it was cached under. `actions` are what the
user started and is still running, at most one per member of `Action`:

| `at` | code |
|---|---|
| `read` | `GetMessage`, `findRoleFolder`, `notSpamDestination`, and the check that the destination is another folder: all before `syncMu.Lock()` |
| `lock` | waiting for `syncMu` |
| `move` | the keywords are stored (`TagVerdict`), or an undo has found its message (`Search`); MOVE or COPY comes next |
| `remove` | COPY is done, `DeleteMessages` is next |
| `drop` | the server is done; `DeleteMessage` of the row, then the lock is given back |
| `note` | `RecordSpamOrigin` or `ForgetSpamOrigin`, after the lock |

A folder keeps `$Junk` or not, and `$NotJunk` or not (`KeepsJunk`, `KeepsNotJunk`,
its PERMANENTFLAGS): `StoreKeywords` skips what it does not keep, and any STORE may
fail, which is logged and the move goes on. `RecordSpamOrigin` and
`ForgetSpamOrigin` may fail in the same way (`NoteOrigin`, `Search`). Each such
failure takes one of `Troubles`. MOVE and COPY take a message's keywords along.

An action is several messages, one after the other (`bulkArchive`, the move
dialog): `Succeeds` and `Fails` go on with the next and, at the end, push what
succeeded on `archived` as one step to undo. `UndoArchive` pops the last step and
looks for each message by Message-ID where it went.

Around them: `Sync` of a folder (whole, as `FolderSync` details it), another
client's moves, a folder that is renumbered, a session that breaks before or
after its command took effect (`Break`), and the end of the program.

History: `home` and `markedIn` (where a message was, and was marked as spam),
`torn` (copied, and the original may be left), `astray` (deleted under a uid of an
earlier validity), `phantom` (moved by a uid that had left the folder: the row was
one that an undo left behind), `moot` (messages whose undo is no longer vouched
for: another client or another action had a hand in them, a failure, or a
renumbered folder), `stuck` (keywords an undo was to take off and could not),
`unrecorded` (messages whose last spam mark got its origin not recorded).

Abstractions: an account with three folders; `DeleteMessages` is one step
(`DraftsFolder` has its commands); no export.

### Mistakes kept beside the definitions

A definition that stands before another with the same parameters and a comment
saying what it gets wrong is a mistake the code could have made. No module uses
it. Put in the place of the right one, it breaks the property in the table:
that is how we know the property looks at the code.

| mistake | instead of | breaks |
|---|---|---|
| `MergeLocal` | `MergeFlags` | `NoFlagLost` |
| `ReconcileAgainstLocal` | `ReconcilePending` | `SecondSyncIsIdle` |
| `ReconcileKeepingPending` | `ReconcileOne` | `AgreesAgain` |
| `FloorForLimitExclusive` | `FloorForLimit` | `TypeOK` of `FolderSync` |
| `LowerFloorFromFloor` | `LowerFloor` | `WindowExact` |
| `WindowFloorRecapping` | `WindowFloor` | `WindowExact` |
| `NextUID` | `HighestUID` | `TypeOK` of `ReconcileRounds` |
| `BeginTrusting` | `Begin` | `ServerChangesHitTheCachedMessage` |
| `PurgeSettledMessages` | `PurgeFolderMessages` | `RowsOfStoredValidity` |
| `StoreAndClear` | `StoreMergedFlags` | `KeptUntilPushed` |
| `StoreUnread` | `Store` | `CleanSyncKeepsPromise` |
| `CancelAnyState` | `Cancel` | `ImplementsSendQueue` |
| `RetryAnyState` | `Retry` | `SentOnceUnlessUnclear` |
| `StartAfresh` | `Start` | `HeldUpOnlyByKnownCauses` |
| `MarkAttemptFailedLate` | `MarkAttemptFailed` | `TypeOK` of `Outbox` |
| `AppendAll` | `AppendPage` | `NoRowTwice` |
| `ShowFirstPage` | `FirstPageArrives` | `LastLoadWins` |
| `MoreArrivesOrHangs` | `MoreArrives` | `ListSettles` |
| `RecordIfAll` | `Record` | `EveryDeletionCanBeUndone` |
| `MarkAnyRow` | `MarkDeletePending` | `TypeOK` of `MailWindow` |
| `AnyCopy` | `DistinctCopy` | `NeverNoDraft` |
| `SearchNothing` | `Search` | `OnlyThose` |
| `LinkOfPane` | `LinkFor` | `NoStrayCopy` |
| `SavedAsItIs` | `Saved` | `UnchangedIsStored` |
| `StartSaveOfNew` | `StartSave` | `NoSecondCopy` |
| `SettledAtOnce` | `Settled` | `SentLeavesNoDraft` |
| `EndedUnheard` | `Ended` | `SavesEnd` |
| `HighestDraftId` | `NextDraftId` | `TypeOK` of `Drafts` |
| `MoveOrNot` | `MoveMessage` | `NothingLost` |
| `MarkDeleted` | `DeleteMessages` | `NothingDoubled` |
| `SearchAny` | `SearchByMessageID` | `MovesTheOneMeant` |
| `GetAnyMessage` | `GetMessage` | `DroppedOnlyWhenMoved` |
| `SearchOnly` | `Search` | `UndoneIsHome` |
| `NoteDestination` | `NoteOrigin` | `OriginRemembered` |
| `BreakHolding` | `Break` | `ActionsEnd` |
| `FinishLate` | `Finish` | `TypeOK` of `Moves` |

## The runs

| run (cfg) | question | properties | bounds |
|---|---|---|---|
| `reconcile_rounds` (`ReconcileRounds.cfg`) | does the decision table converge, lose nothing and keep the window exact? | `SecondSyncIsIdle`, `NoFlagLost`, `WindowExact` | 3 uids, 1 flag, limit 2, page 1, from every state; 157,526 states |
| `folder_sync` (`FolderSync.cfg`) | is the interleaved engine safe? | `RowsOfStoredValidity`, `ServerChangesHitTheCachedMessage`, `CleanSyncKeepsPromise` | 2 uids, 1 flag, limit and batches 1, one renumbering, one user action, one remote change, one fault |
| `folder_sync_live` (`FolderSyncLive.cfg`) | does a user's change survive, and do the two sides agree again? | `KeptUntilPushed`, `AgreesAgain` | 1 uid, 1 flag, one renumbering, two user actions, one remote change, one fault |
| `outbox` (`Outbox.cfg`) | is the queue safe, and does every message come to an end? | `SentOnceUnlessUnclear`, `ImplementsSendQueue`, `HeldUpOnlyByKnownCauses` | 2 messages, 2 attempts, one batch, one crash, one failed write, one lost reply; 128,375 states |
| `mail_window` (`MailWindow.cfg`, `MCMailWindow`) | is the list right whatever order answers come in? | `NoRowTwice`, `LastLoadWins`, `EveryDeletionCanBeUndone`, `ListSettles` | 5 messages (one to arrive, one only on the server), a folder and a view, 1 query, pages of 2, three steps, one failed call; 59,324 states |
| `drafts` (`Drafts.cfg`, `MCDrafts`) | are drafts safe, locally and on the server? | `NeverNoDraft`, `OnlyThose`, `NoStrayCopy`, `UnchangedIsStored`, `NoSecondCopy`, `SentLeavesNoDraft`, `SavesEnd` | 2 Message-IDs, 2 sessions, 2 panes, 2 edits, 3 clicks, one mark, one broken session, one failed call, 3 kinds of server; 725,840 states |
| `moves` (`Moves.cfg`) | do moves and their undo go where they should? | `NothingLost`, `NothingDoubled`, `MovesTheOneMeant`, `DroppedOnlyWhenMoved`, `UndoneIsHome`, `OriginRemembered`, `ActionsEnd` | 2 messages, 2 actions at once, three steps, one trouble, with and without MOVE, $Junk kept in two folders and $NotJunk in two others; 619,083 states |

Each module's `TypeOK` is checked in the first of its runs (that of `Outbox` in
`outbox`, of `FolderSync` in `folder_sync`). The five runs below that expect a
violation are the findings.

*Why these bounds.* Limits and batches are smaller than the folder, so that a
window that hides something, a second batch and a second page occur. One
renumbering brings rows, a floor and callers of an old generation. Two uids let
one message change while the other is decided. `folder_sync_live` has one uid, so
that several messages of which one fails are in `folder_sync` and its proof only;
that the sides *then* agree again is not checked. `folder_lost_change` has two
user actions: one that leaves a mark for the sync to clear, one inside it. Two messages let an id come back to another
message and let one wait behind the other; a second attempt is the last one, and
comes after a retry by the user too. In `mail_window` a folder is a page and a
half, so that a second page, a row that slides from one page into the next, and a
backfill occur; three steps are a load, what it races, and what follows. In
`drafts` three clicks are enough for a save, a second one while it is under way,
and a send or a discard behind both; `drafts_plaintext` needs a fourth. In `moves`
three steps let a batch, its undo and another action on the same message overlap,
with a trouble in the middle. Larger instances were checked once and hold: one
message with two actions, four steps and two troubles; one action at a time with
six steps and two troubles (19.4 million states). In the run an inbox
keeps `$Junk` only, the archive `$NotJunk` only, and Junk both, so that an undo meets
a keyword it cannot take off.

*Deadlock.* It is checked in the runs of `ReconcileRounds` and `FolderSync`. It is
not in the others, where the system may really stop: `Outbox`, once every message
is dealt with, or with the worker and the sync waiting on each other
(`HeldUpOnlyByKnownCauses` says when that may be); `MailList`, `MailWindow`,
`Drafts` and `Moves`, when the user's steps are used up and nothing is under way.
What must not stop there is stated by `ListSettles`, `SavesEnd` and `ActionsEnd`.

*Bounds by name.* `MaxValidity`, `UserOps`, `RemoteOps`, `Faults` (FolderSync),
`Batches`, `Crashes`, `StoreFaults`, `LostReplies` (Outbox), `Steps`, `Failures`
(MailList), `Marks`, `Faults` (DraftsFolder), `MaxPanes`, `MaxEdits`, `Clicks`,
`Errors` (Drafts), `Steps`, `Troubles` (Moves) bound only how often the user and
the environment act. A user sends each message of `Msg` once, a pane has one send
or discard at a time, Message-IDs run out with `Link`, sessions with `Job`, and an
action starts only when a member of `Action` is free.

## What disagrees with the code's own words

Each is a run that expects TLC to find a violation.

- `folder_lost_change` (`NeverLosesAFlag`, `sync/push.go:37`). The merge is
  computed from a snapshot, then written and the mark cleared without reading
  the row again. The run: the user marks a message unread that is so on both
  sides, which marks it pending; a sync takes its snapshot and decides to clear the
  mark (`ActionClearPending`); the user marks the message seen; `clearPending` writes
  the snapshot's merge and clears the mark. When the sync ends the message is
  unseen on both sides and nothing is pending. `pushFlags` writes and clears in the
  same way; `adoptServerFlags` (`pull.go:220`) overwrites such a flag when the
  snapshot had nothing pending, but leaves the mark. `reconcile.go:27-29`
  "guarantees we never lose a "seen" state".
- `send_during_sync` (`EverySendEnds`, `desktop/bind_sync.go:155`). A message the
  server took during a sync: the worker waits for `syncMu` to file the copy, its
  row still `sending`; the sync that holds `syncMu` waits in `yield` while a row is
  queued or sending. Neither goes on until the app is closed, and the next start
  sends the message again. `bind_sync.go:153` says it "waits its turn".
- `outbox_wrong_undo` (`UndoneIsNotSent`, `storage/outbox.go:160`). A toast's undo
  that comes after its message was sent and pruned (its countdown counts ticks,
  which fall behind while the machine sleeps) names an id that another queued
  message has got: that one is deleted, never sent and reopened nowhere, and the
  one already sent reopens as a draft. `ImplementsSendQueue` makes an exception of
  this step and of no other.

- `mail_list_older` (`NothingSkipped`, `stores/messages.ts:209`). With fewer rows
  than whole pages, older mail lands in the page that was not full, and
  `loadOlder` reads the next one: the rest is not shown until a reload. The
  comment expects it "at the end of the list".
- `drafts_plaintext` (`SealedLeavesNoPlaintext`, `desktop/bind_compose.go:553`). A
  draft that is on the server is saved once more as its pane closes, opened again
  before that upload is through, and saved encrypted. The removals of the sealed
  save look before the upload's copy is there, and the plaintext stays.
  `bind_compose.go:394`: "a draft now sealed must leave no plaintext copy on the
  server".

`KeptUntilPushed`, `RowsOfStoredValidity`, `HeldUpOnlyByKnownCauses`,
`LastLoadWins` and `NoStrayCopy` state what does hold around these.

### Seen while modelling, shown by no run

Each is excused by name in the property it would break.

- *Sync.* An idle session reads the INBOX row once; after a validity reset each
  push compares the server with that old value and drops the cache again
  (`bind_sync.go:553`). A failure after the reset and before the floor's write
  leaves the old generation's floor, which no later sync recomputes
  (`sync.go:207`).
- *Deletions.* Without UIDPLUS two deletions of Pelton's in one folder lift each
  other's marks: one may expunge what another client has marked, against
  `expunge.go:17-19` (`NeverTakesOthers`, broken in `DraftsFolder`; `crowded` in
  `OnlyThose`), and the other expunges nothing, so that the copy of a draft that was
  sent or deleted stays (`crowded` in `NoStrayCopy`; two removals take five clicks,
  so the run's three do not meet it). Marks lifted before a connection breaks are
  lost.
- *List.* The events of a sync reload the list behind a search while the search
  bar still holds its query. A failed page of an earlier search makes the list
  ready in the middle of a load (`derailed`). An undo after the user has gone to
  another folder puts the row into that list (`restored`); an undo that fails has
  been popped (`lost`). A dropped row shifts the offsets, and the next page skips
  one. A place whose account cannot be reached looks as if it had no older mail.
- *Drafts.* `pending` is per session, so a pane opened again on a draft waits for
  nothing: two uploads can leave two copies, a send or a discard can be overtaken
  by an upload, and a failed upload reopens a pane that calls itself saved.
  `sendMessage` may succeed and `deleteDraft` fail: the pane stays, and a second
  send is a second message. The id of a deleted newest draft is used again.
- *Moves.* `moveMessageTo` never compares the mailbox it selected with the
  validity of the row: in a folder renumbered since, it moves whatever message has
  the uid now (`Stale`). Without MOVE it may even delete it: the COPY finds no such
  uid and is no error, a new message gets the uid, and `DeleteMessages` takes that
  one, which was never copied (`astray`). The undo of a spam mark forgets the origin before its
  move, which may fail; the undo of "not spam" does not bring it back, so that a
  message rescued, put back in Junk and rescued again goes to the inbox (`markedIn` is
  cleared). A keyword stored where a folder keeps it goes along with MOVE or COPY;
  an undo that finds the message in a folder that does not keep it, or whose STORE
  fails, skips it, and the message comes home with the `$Junk` or `$NotJunk` of a
  verdict that was withdrawn (`stuck`). An origin whose record fails is logged, and
  a later "not spam" goes by an older record or to the inbox (`unrecorded`). The
  origin is written after `syncMu` is released: a mark and a rescue of one message,
  under way together, may write in the wrong order (`InHand`, `moot`).
  `RestoreMessage` leaves the row in the folder it takes the message from. Until
  the next sync a move of that row finds no such uid, which is no error, so the row
  is dropped, a step to undo is recorded and a spam mark overwrites the origin,
  for a move that never happened: what the comment in `bind_archive.go:79-82` is
  against (`phantom`). It takes four actions of the user, so the run's three did
  not meet it; the attempt to prove `DroppedOnlyWhenMoved` did. A bulk
  action is recorded only at its end, so the stack may not be in the order of the
  moves (`InHand`, `moot`). A COPY whose deletion fails leaves two, and doing it
  again makes a third (`torn`). The move dialog takes the rows out of the list
  before the moves, and leaves them out when they fail.
- *Colours.* `bind_message_extras.go:17-19` calls the local colour the
  authoritative one; `sync.go:369` takes the server's, and so undoes a colour that
  was not pushed in time.

## Fairness

`FolderSync!FairSpec`: weak fairness of the user's second half of an edit (a
function that runs to its end), of the engine's steps (a goroutine runs), of
noticing a lost connection (the client's timeouts) and of `SyncFolder` (the auto
sync loop, `bind_sync.go:60-88`). Nothing obliges the user, other clients, an idle
session or a failure.

`Outbox!FairSpec`: time passes (`BecomeDue`), an app that went down is started
again, a transmission ends one way or another, outcomes are written and a sync
goes on when it may. `Claim(m)` is strongly fair per message: the worker drains
the due rows in order of id on each poll, and a row that keeps failing is held
back by its backoff, so it cannot keep another from its turn. `AppendToSent` is
strongly fair: a `sync.Mutex` that is free over and over is handed to a waiter
(Go's starvation mode). No fairness is asked of the user or of `BeginSync`.

`MailWindow!FairSpec`: a call to the backend comes back, with an answer or an
error (`fetchPage` and the others await one bound method each), and what follows
the `await` runs. `Drafts!FairSpec`: of the sessions that can go on some one
does, and of the panes likewise; there are finitely many commands in what a pane
has begun. `Moves!FairSpec`: strong fairness of each action's work, for `syncMu`
again: a `sync.Mutex` that is free over and over is had in turn. Nothing obliges
the user, other clients, failures or syncs.

Three things follow from how the modules are cut. A backend call is assumed to
return: `FetchOlderMessages`, deletions, moves and undos wait for `syncMu`, and
in `send_during_sync` a sync holds it for ever. That run is about exactly this; in
`MailWindow` a call comes back all the same, and in `Moves` a sync is one step that
never holds the lock, so `ListSettles` and `ActionsEnd` hold as long as that
entanglement does not occur. And `NoStrayCopy`, `NoSecondCopy`, `UnchangedIsStored`
and `SentLeavesNoDraft` are about a `Patient` user: two panes that save or send the
same draft at the same time are outside them.

## The proofs

For every value of the constants that satisfies their named assumptions
(`UidAssumption`, `AbsentAssumption`, `LimitAssumption`, `BoundAssumption`, `RowAssumption`,
`QueueAssumption`, `FolderAssumption`, `DraftsAssumption`, `MovesAssumption`,
`ListAssumption`, `NoDataAssumption`, `WindowAssumption`, `NoBatchAssumption`).

`ReconcileRoundsProofs`, of whole syncs from any two sides:
- `UnionKept`: `Spec => NoFlagLost`, and `SecondIsIdle`: `Spec => SecondSyncIsIdle`. A
  plan decides about each message alone, so both follow from one lemma about one
  message (`OneRound`): after a sync it is `Settled`, held by neither side, hidden
  by the window, or the same on both with nothing pending. `SecondIsIdle` adds that
  the next window is the one this sync left, as long as it hides anything.
- `WindowIsExact`: `Spec => WindowExact`: a first sync caches the newest `InitialLimit`
  of a larger mailbox and all of a smaller one (`FloorForLimitAdmits`, `FreshCache`), a
  "load older" admits the newest `BackfillBatch` of those held back
  (`LowerFloorAdmits`), and any other leaves what is admitted alone and sets no floor
  where there was none. The uids of a mailbox that are no fewer than
  the floor are the n newest because ranks count: in a finite set with a strict
  total order each member has a rank of its own and each rank its member (`Ranks`,
  in `NaturalLemmas`), so that `Newest` maps one to one onto the ranks below n
  (`NewestAre`), and the oldest of them, taken for the floor, admits no other
  (`FloorAdmits`).
- `RoundTypes`: `Spec => []TypeOK`, which all three rest on.

`FolderSyncProofs`:
- `TypeCorrect`: `Spec => []TypeOK`. The weight is in `ReconcileLemmas`: that the
  floor a window picks is a uid of the mailbox or 0, and that every decision of
  a plan is one.
- `OneGeneration`: `Spec => []RowsOfStoredValidity`. Not inductive by itself: the
  invariant (`Generations`) also says that after the stamp the stored validity is
  the one the engine selected, that before the stamp the cache is empty or already
  of that validity, and that no caller's folder value is newer than the row.
- `PushesHitCachedMessages`: the action property `ServerChangesHitTheCachedMessage`,
  from the same invariant and one that relates the snapshot to the rows
  (`RowsThere`): a row the plan is about to write or delete is still there, and
  still marked for deletion unless somebody touched it.
- `FlagsKept`: `Spec => []KeptUntilPushed`, from `Kept`, said of each message that has
  an edit not yet pushed: the cache, the engine's snapshot and the edit's mask have
  what the user wants, the server lacks it, and the mark goes only when the server
  was told.
- `PromiseKept`: `Spec => []CleanSyncKeepsPromise`, from `OnTrack`: where the sync has
  brought each message nobody touched, before its decision, amid it or after it.
  What one decision does to one message is in `ReconcileLemmas`.

`OutboxProofs`:
- `QueueTypes`: `Spec => []TypeOK`.
- `SentOnce`: `Spec => []SentOnceUnlessUnclear`. The invariant needs: ids are
  unique; the row the worker claimed is still there under its id, in `sending`
  (`WorkerHoldsRow`, so its write by id reaches that row and no other); an open
  row has an attempt left; a message known to have been sent has a row in `sent`,
  or none, or is in the worker's hands (`Counted`).
- `OutboxImplementsSendQueue`: `Spec => ImplementsSendQueue`. Every step moves the
  status of one message at most (`OneMove`, one lemma per kind of step), as
  `SendQueue` allows or because an undo for one message hit another by its id
  (`TakesAnother`). It needs that the id the ui holds for a message is its row's own
  as long as it has one, and that what was taken back has no row (`HeldIsOwn`).

`MailWindowProofs`, any number of messages, places, queries, steps and failures:
- `WindowTypes`: `Spec => []TypeOK`, and `RowsOnce`: `Spec => []NoRowTwice`, both from
  `TInv`. The first part of the module is about rows: `NewestFirst`, `Keep` and
  `Sorted` list what they should, each once, because each gives every rank of a
  finite order its member (`Enumerated`, on `Ranks`). `TInv` needs besides that at
  most one call of a deletion and one of an undo is out, about a message of the
  running batch and about the head of what is restored (`Deleting`, `Restoring`):
  the answer's handler takes the next from the batch, and would take it from none.
- `DeletionsKept`: `Spec => []EveryDeletionCanBeUndone`. Not inductive: that the
  message is in `batch.all` says nothing of what becomes of it when the batch ends.
  `Covered` says where exactly it is: among those done, in the answer of its own
  deletion, on the stack, behind the head of an undo, in the hands of its own undo
  until that has succeeded, or lost.
- `LastLoadShown`: `Spec => []LastLoadWins`, from `Loading`: at most one first page of
  the current generation is out and it asks for what the user asked for last; while
  one is out the list is loading; a page of the current generation is out only on
  top of the right list, and never beside a first page. A load gives every call
  before it an earlier generation, so their answers are dropped. The failed page of
  an earlier search is not, which is what `derailed` excuses.

`DraftsProofs`, of the folder alone (`FolderSpec`), any number of sessions:
- `DraftKept`: `FolderSpec => []NeverNoDraft`. The invariant `IInv` adds to the types
  what the sessions know of uids (`Uids`: a replacement finds only copies older than
  its own), and that every stored draft has a copy which no session under way is
  going to take (`NewestIsSafe`).
- `OthersKept`: `FolderSpec => []OnlyThose`. A session deletes copies of drafts only,
  a plain EXPUNGE runs with no mark of another client left, and the lifted marks
  are in the hands of the one session that lifted them (`MarksHeld`, in `MInv`).

and of the panes over that folder:
- `DraftsImplementFolder`: `Spec => FolderSpec`. Each step starts a session, hears of
  one, moves one, or leaves the folder alone; `PanesKeepDrafts` and
  `PanesKeepOthers` follow from it and the theorems of the folder.
- `DraftsTypes`: `Spec => []TypeOK`, from `DInv`: the Message-IDs and sessions of panes
  and drafts are among those handed out, and no draft's id is 0.

and of the panes of a patient user, from `PInv`:
- `OneDraftEach`: `Patient => (Spec => []NoSecondCopy)`. A pane that knows no draft
  made none, or its save is about to tell it (`Makes`).
- `NothingUnsaved`: `Patient => (Spec => []UnchangedIsStored)`. What a pane last stored is
  what its draft holds (`Stores`), because no two panes hold one draft: a pane opens
  a draft that nobody holds, and an id given out again is one nobody holds either.
- `SentIsGone`: `Patient => (Spec => []SentLeavesNoDraft)`. As long as nothing failed and
  Pelton was not quit, the contents of panes, of drafts no pane holds and of the
  outbox are all different (`Apart`).
- `NoCopyStrays`: `Patient => (Spec => []NoStrayCopy)`, from `NoneStray`: a Message-ID with
  copies has an unsealed draft, or a removal under way that takes them all
  (`Covers`: lifting the marks of others takes none off its targets, unless two
  deletions overlap). An append between that removal's search and its expunge would
  escape it, so an upload must be of an unsealed draft for as long as it runs: each
  upload is the session of one pane (`LInv`), the pane, its save and its session go
  by the draft's own Message-ID (`Links`), and no other pane can seal or delete the
  draft meanwhile (`PInv`).

The hypothesis is needed: clicking a closing save twice before the first is
answered makes two drafts, and so does saving again in a pane that is sending.

`MovesProofs`, any number of messages, actions, steps and troubles:
- `MovesTypes`: `Spec => []TypeOK`.
- `MovesMeant`: `Spec => MovesTheOneMeant`. What carries it is `Sound`, said of every
  row and of every message an action has yet to move: while its validity is the
  folder's, its uid has been given out, and the copy under it, if it is still
  there, is of that message (`Names`). `Follows` says what a step may do to the
  server for this to last, one lemma for each of moving, tagging, deleting,
  renumbering; and an undo has found its message before it moves it.
- `KeepsAll`: `Spec => []NothingLost`. Not inductive: what is about to be deleted
  must have another copy (`Spare`), which `Names` gives when the COPY is made and
  every step must leave, another client's move of either copy included.
- `KeepsOne`: `Spec => []NothingDoubled`, from `Pairs`: of two copies of a message that
  is not torn, one is about to be deleted by the action that holds `syncMu`.

and, on top of that invariant, where each message is on its way:
- `RowsGoRightly`: `Spec => DroppedOnlyWhenMoved`. Its invariant (`RInv`) follows every
  message that is vouched for on its way (`Track`): one action at a time has it
  (`OneHand`), the batches of the stack take it from folder to folder, each from
  where the one below left it (`Chain`), and a copy that is not about to be deleted
  is where the last batch took it, or at the end of the one step that is on no
  stack, being taken or being taken back (`OnRoute`). Besides: what an action of
  each kind is about (`Aims`), and the row it read is there until it drops it
  (`RowThere`).
- `UndoGoesHome`: `Spec => []UndoneIsHome`. With nobody at work and no batch that has
  the message, `OnRoute` leaves its home only. For the keywords, `Words`: one that the
  filter did not find at first is of a verdict that stands, that is, of a step on
  the stack, in an action's hands, or about to be taken back; or an undo could not
  take it off (`stuck`). The theorem is about messages that one action at a time has
  in hand and nothing interferes with (`moot`, `phantom`), among any number of others.
- `OriginKept`: `Spec => []OriginRemembered`, from `Marks` (an action that has moved a
  message has left the mark that fits) and `Origins` (the origin is on record, its
  record failed (`unrecorded`), or an action under way is about to put it there, or
  to take the message out of Junk). It excuses the same messages, and so the race
  between a mark and a rescue of one message.

Only model-checked: the liveness properties `AgreesAgain`, `HeldUpOnlyByKnownCauses`,
`ListSettles`, `SavesEnd` and `ActionsEnd`, since fairness and ENABLED are out of the
prover's reach. Every safety property of a passing run is proved.

## Not modelled

- Of the sync: `repairMangled`, colours and their keywords, copies of a message
  in other folders (`MarkCopiesFlagPending`), progress and announcements, several
  folders and accounts, partial outcomes inside one IMAP delete or move.
- Of the queue: the cascade when an account is deleted, the length of a backoff
  (it is only later), the order of toasts.
- Of the list: anchors of a range, tabs, scroll and focus, flag patches, snooze;
  the several queries of one `ListMessages` are one read; what archive and moves
  take from the list.
- Of the drafts: the passphrase of a sealed draft, local-only accounts, the choice
  of the Drafts folder, the ids renumbered after an upgrade.
- Of the moves: the export on archive, the rows the dialog takes from the list before it knows, and
  how a key picks among the three undo stacks.
- Two flag edits at once.
- Everything listed as not modelled in `PROJECT.json`, with the reason there.

Most of the repository's lines are presentation, locales, generated bindings and
conversion: they have no behaviour of the kind modelled here.

## Plan

What is left, in the order of importance:

1. Colours: the local colour, its push and `adoptColors`, in `FolderSync` or beside
   it; two flag edits at once.
2. `repairMangled` in `FolderSync`.
3. `Download`, with its resume marker, cancel and shutdown.
4. `Scheduling`: `queueSync`'s coalescing and the idle loops of several accounts.
5. The reading pane: the late answers of opening one message after another.
