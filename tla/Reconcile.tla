------------------------------- MODULE Reconcile -------------------------------
(***************************************************************************)
(* The decision logic of a folder sync: which operation each message       *)
(* needs, given what the cache and the server hold (sync/reconcile.go),    *)
(* and which messages the folder's window admits (sync/window.go).  It is  *)
(* pure, as it is in the code.                                             *)
(*                                                                         *)
(* A view of one side of a folder is a function on Uid whose value is      *)
(* Absent where that side has no such message.  Flag masks are sets.       *)
(*                                                                         *)
(* A definition that stands before another of the same shape, with a       *)
(* comment saying what it gets wrong, is a mistake the code could have     *)
(* made: no module uses it, and with it in the place of the right one the  *)
(* property named for it in README.md fails.                               *)
(***************************************************************************)
EXTENDS Integers, FiniteSets, FiniteSetsExt

CONSTANTS
  Uid,     \* message uids, positive and bounded (uint32); 0 is "no floor"
  Flag,    \* the flags the client manages: \Seen, \Flagged, \Deleted
  Absent   \* what a view holds where there is no message

ASSUME UidAssumption == \E n \in Uid : n \in Nat /\ Uid \subseteq 1..n

Local  == [flags : SUBSET Flag, pendingFlags : BOOLEAN, pendingDelete : BOOLEAN]
Server == [flags : SUBSET Flag]

ASSUME AbsentAssumption == Absent \notin Local /\ Absent \notin Server

LocalViews  == [Uid -> Local \cup {Absent}]
ServerViews == [Uid -> Server \cup {Absent}]

Present(view) == {u \in Uid : view[u] # Absent}

-----------------------------------------------------------------------------
(* reconcile.go *)

Action == {"None", "FetchNew", "DeleteLocal", "AdoptServerFlags",
           "PushFlags", "PushDelete", "ClearPending"}

Decision == [action : Action, flags : SUBSET Flag, conflict : BOOLEAN]

\* The local side wins.
MergeLocal(local, server) == local

\* The union policy: what either side set stays set.
MergeFlags(local, server) == local \cup server

Decide(action, flags, conflict) ==
  [action |-> action, flags |-> flags, conflict |-> conflict]

\* The merge compared with the wrong side.
ReconcileAgainstLocal(local, server) ==
  LET merged == MergeFlags(local.flags, server.flags)
  IN  Decide(IF merged = local.flags THEN "ClearPending" ELSE "PushFlags",
             merged, ~(server.flags \subseteq local.flags))

ReconcilePending(local, server) ==
  LET merged == MergeFlags(local.flags, server.flags)
  IN  Decide(IF merged = server.flags THEN "ClearPending" ELSE "PushFlags",
             merged, ~(server.flags \subseteq local.flags))

ReconcileBoth(local, server) ==
  CASE local.pendingDelete -> Decide("PushDelete", {}, FALSE)
    [] ~local.pendingDelete /\ local.pendingFlags -> ReconcilePending(local, server)
    [] ~local.pendingDelete /\ ~local.pendingFlags ->
         IF server.flags # local.flags
           THEN Decide("AdoptServerFlags", server.flags, FALSE)
           ELSE Decide("None", {}, FALSE)

\* A message with a pending change kept although the server has lost it.
ReconcileKeepingPending(local, server) ==
  IF local = Absent
    THEN Decide("FetchNew", {}, FALSE)
    ELSE IF server = Absent
           THEN Decide(IF local.pendingFlags THEN "None" ELSE "DeleteLocal", {}, TRUE)
           ELSE ReconcileBoth(local, server)

\* One message present on at least one side.
ReconcileOne(local, server) ==
  IF local = Absent
    THEN Decide("FetchNew", {}, FALSE)
    ELSE IF server = Absent
           THEN Decide("DeleteLocal", {}, local.pendingFlags /\ ~local.pendingDelete)
           ELSE ReconcileBoth(local, server)

\* The messages a plan speaks of.  The floor hides what is only on the server
\* and older than the window; it never hides a message the cache already has.
Planned(locals, servers, floor) ==
  Present(locals) \cup {u \in Present(servers) : u >= floor}

BuildPlan(locals, servers, floor) ==
  [u \in Planned(locals, servers, floor) |-> ReconcileOne(locals[u], servers[u])]

WithAction(plan, actions) == {u \in DOMAIN plan : plan[u].action \in actions}

-----------------------------------------------------------------------------
(* window.go; uids is the set of uids the server listed *)

\* The first n of descendingUIDs.
Newest(uids, n) == {u \in uids : Cardinality({v \in uids : v > u}) < n}

\* The floor above all of the mailbox instead of under what it admits.
FloorForLimitExclusive(uids, limit) ==
  IF limit <= 0 \/ Cardinality(uids) <= limit THEN 0 ELSE Min(Newest(uids, limit)) + 1

FloorForLimit(uids, limit) ==
  IF limit <= 0 \/ Cardinality(uids) <= limit THEN 0 ELSE Min(Newest(uids, limit))

\* The floor itself counted among what is below it.
LowerFloorFromFloor(uids, current, batch) ==
  LET below == {u \in uids : u <= current}
  IN  IF current = 0 \/ batch <= 0 \/ Cardinality(below) <= batch
        THEN 0 ELSE Min(Newest(below, batch))

LowerFloor(uids, current, batch) ==
  LET below == {u \in uids : u < current}
  IN  IF current = 0 \/ batch <= 0 \/ Cardinality(below) <= batch
        THEN 0 ELSE Min(Newest(below, batch))

NormalizeFloor(uids, floor) ==
  IF \E u \in uids : u < floor THEN floor ELSE 0

\* A first sync told by the empty cache alone, whatever the folder's history.
WindowFloorRecapping(lastSeen, floor, uids, cached, limit, backfill) ==
  IF backfill > 0
    THEN LowerFloor(uids, floor, backfill)
    ELSE IF floor = 0 /\ cached = {}
           THEN FloorForLimit(uids, limit)
           ELSE NormalizeFloor(uids, floor)

\* sync.go: a backfill lowers the floor, a first sync of a big folder sets
\* one, everything else keeps the one there is.
WindowFloor(lastSeen, floor, uids, cached, limit, backfill) ==
  IF backfill > 0
    THEN LowerFloor(uids, floor, backfill)
    ELSE IF floor = 0 /\ lastSeen = 0 /\ cached = {}
           THEN FloorForLimit(uids, limit)
           ELSE NormalizeFloor(uids, floor)

\* UIDNEXT taken for the high water mark.
NextUID(uids) == Max(uids \cup {0}) + 1

\* The high water mark a sync leaves, 0 for an empty mailbox.
HighestUID(uids) == Max(uids \cup {0})

-----------------------------------------------------------------------------
(* What executePlan leaves on each side when nothing fails and nobody else  *)
(* acts: the promise of a folder sync (sync.go, pull.go, push.go).          *)

\* The row a fetch inserts: the server's flags, nothing pending.
Fetched(server) ==
  [flags |-> server.flags, pendingFlags |-> FALSE, pendingDelete |-> FALSE]

LocalAfter(locals, servers, floor) ==
  LET plan == BuildPlan(locals, servers, floor)
      after(u) ==
        CASE plan[u].action = "FetchNew" ->
               Fetched(servers[u])
          [] plan[u].action \in {"DeleteLocal", "PushDelete"} -> Absent
          [] plan[u].action = "AdoptServerFlags" ->
               [locals[u] EXCEPT !.flags = plan[u].flags]
          [] plan[u].action \in {"PushFlags", "ClearPending"} ->
               [locals[u] EXCEPT !.flags = plan[u].flags, !.pendingFlags = FALSE]
          [] plan[u].action = "None" -> locals[u]
  IN  [u \in Uid |-> IF u \in DOMAIN plan THEN after(u) ELSE locals[u]]

ServerAfter(locals, servers, floor) ==
  LET plan == BuildPlan(locals, servers, floor)
  IN  [u \in Uid |->
        IF u \in WithAction(plan, {"PushDelete"}) THEN Absent
        ELSE IF u \in WithAction(plan, {"PushFlags"})
               THEN [flags |-> MergeFlags(servers[u].flags, plan[u].flags)]
               ELSE servers[u]]
=============================================================================
