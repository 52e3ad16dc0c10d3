---------------------------- MODULE ReconcileRounds ----------------------------
(***************************************************************************)
(* Whole folder syncs, one after the other, with nobody acting in between: *)
(* the sequential specification of syncFolder (sync/sync.go), from every   *)
(* state the two sides of a folder can be in.  FolderSync takes the same   *)
(* sync apart into its steps.                                              *)
(***************************************************************************)
EXTENDS Reconcile

CONSTANTS
  InitialLimit,   \* how many messages a first sync caches, 0 for all
  BackfillBatch   \* how many more one "load older" admits, 0 for all

ASSUME LimitAssumption == InitialLimit \in Nat /\ BackfillBatch \in Nat

VARIABLES
  locals,    \* the cached rows of the folder
  servers,   \* the mailbox on the server
  floor,     \* folders.sync_floor_uid
  lastSeen   \* folders.last_seen_uid

vars == <<locals, servers, floor, lastSeen>>

TypeOK ==
  /\ locals \in LocalViews
  /\ servers \in ServerViews
  /\ floor \in Uid \cup {0}
  /\ lastSeen \in Uid \cup {0}

\* Any cache, any mailbox, any window: a folder may have been left anywhere by
\* other clients and by syncs that failed half way.
Init ==
  /\ locals \in LocalViews
  /\ servers \in ServerViews
  /\ floor \in Uid \cup {0}
  /\ lastSeen \in {0, HighestUID(Uid)}

WindowAt(backfill) ==
  WindowFloor(lastSeen, floor, Present(servers), Present(locals), InitialLimit, backfill)

SyncWith(backfill) ==
  LET f == WindowAt(backfill)
  IN  /\ floor' = f
      /\ locals' = LocalAfter(locals, servers, f)
      /\ servers' = ServerAfter(locals, servers, f)
      /\ lastSeen' = Max({HighestUID(Present(servers)), lastSeen})

SyncFolder     == SyncWith(0)
BackfillFolder == SyncWith(BackfillBatch)

Next == SyncFolder \/ BackfillFolder

Spec == Init /\ [][Next]_vars

-----------------------------------------------------------------------------
(* A second sync right after a first has nothing to do: no decision the     *)
(* reconciler makes (push, adopt, clear, delete) leaves the two sides in a  *)
(* state it would decide about again, so a folder nobody touches costs a    *)
(* sync no writes and never ping-pongs a flag.                              *)
SecondSyncIsIdle ==
  [][WithAction(BuildPlan(locals', servers', WindowAt(0)'), Action \ {"None"}) = {}]_vars

(* The union policy of reconcile.go, end to end: over a sync no flag that   *)
(* the user set and is waiting, and no flag of the server, is lost on       *)
(* either side while the message lives on both.                             *)
NoFlagLost ==
  [][\A u \in Present(locals) \cap Present(servers) :
       ~locals[u].pendingDelete =>
         /\ servers[u].flags \subseteq locals'[u].flags \cap servers'[u].flags
         /\ locals[u].pendingFlags =>
              locals[u].flags \subseteq locals'[u].flags \cap servers'[u].flags]_vars

\* s holds the n newest of uids, or all of them when there are no more.
NewestOf(s, uids, n) ==
  /\ s \subseteq uids
  /\ \A u \in s, v \in uids \ s : u > v
  /\ Cardinality(s) = Min({n, Cardinality(uids)})

\* Nothing known of the folder: no window, no high water mark, no row.
FirstSync == floor = 0 /\ lastSeen = 0 /\ Present(locals) = {}

(* The window is exact (window.go, windowFloor).  A first sync caches all   *)
(* of a mailbox of no more than InitialLimit messages and precisely the     *)
(* InitialLimit newest of a larger one, and leaves the window at what it    *)
(* cached.  One "load older" admits precisely the BackfillBatch newest of   *)
(* the messages held back.  Any other sync leaves the window where it was:  *)
(* it moves no message in or out, and never sets a floor where there was    *)
(* none, which would cap a folder the user has loaded in full.              *)
WindowExact ==
  [][LET on    == Present(servers)
         shown == {u \in on : u >= floor'}
         older == {u \in on : u < floor}
     IN  /\ SyncFolder /\ FirstSync =>
              /\ Present(locals') = shown
              /\ IF InitialLimit = 0 THEN shown = on
                                     ELSE NewestOf(shown, on, InitialLimit)
         /\ SyncFolder /\ ~FirstSync => floor' \in {0, floor} /\ shown = on \ older
         /\ BackfillFolder /\ BackfillBatch > 0 =>
              /\ floor' <= floor
              /\ NewestOf(shown \cap older, older, BackfillBatch)]_vars

=============================================================================
