---------------------------- MODULE ReconcileLemmas ----------------------------
(***************************************************************************)
(* Facts about the operators of Reconcile that the proofs about the sync   *)
(* rest on: what extremes of a set of uids are, that a window's floor is a *)
(* uid or none, and what a plan decides.                                   *)
(***************************************************************************)
EXTENDS Reconcile, NaturalLemmas

LEMMA UidBounded ==
  \E n \in Nat : n \in Uid /\ Uid \subseteq 1..n
BY UidAssumption

LEMMA UidNatural == Uid \subseteq Nat /\ Uid # {} /\ 0 \notin Uid
BY UidAssumption

LEMMA NoUidsCounted == Cardinality({}) = 0
BY FS_EmptySet

LEMMA MaxOfUids ==
  ASSUME NEW uids \in SUBSET Uid, uids # {}
  PROVE  Max(uids) \in uids /\ \A u \in uids : u <= Max(uids)
<1>1. PICK n \in Nat : Uid \subseteq 1..n
  BY UidBounded
<1>2. uids \in SUBSET (0..n)
  BY <1>1
<1> QED BY <1>2, MaxOfBounded

\* The high water mark is a uid of the mailbox, or none; nothing is above it.
LEMMA HighestUIDIsUid ==
  ASSUME NEW uids \in SUBSET Uid
  PROVE  /\ HighestUID(uids) \in uids \cup {0}
         /\ \A u \in uids : u <= HighestUID(uids)
<1>1. PICK n \in Nat : Uid \subseteq 1..n
  BY UidBounded
<1>2. uids \cup {0} \in SUBSET (0..n) /\ uids \cup {0} # {}
  BY <1>1
<1>3. Max(uids \cup {0}) \in uids \cup {0} /\ \A x \in uids \cup {0} : x <= Max(uids \cup {0})
  BY <1>2, MaxOfBounded
<1> QED BY <1>3 DEF HighestUID

\* The newest n of some uids are some of them, and there is one.
LEMMA NewestNonEmpty ==
  ASSUME NEW uids \in SUBSET Uid, uids # {}, NEW n \in Int, n > 0
  PROVE  Newest(uids, n) \subseteq uids /\ Newest(uids, n) # {}
<1>1. Max(uids) \in uids /\ \A u \in uids : u <= Max(uids)
  BY MaxOfUids
<1>2. {v \in uids : v > Max(uids)} = {}
  <2>1. SUFFICES ASSUME NEW v \in uids, v > Max(uids) PROVE FALSE
    OBVIOUS
  <2>2. v <= Max(uids) /\ v \in Nat /\ Max(uids) \in Nat
    BY <1>1, UidNatural
  <2> QED BY <2>1, <2>2
<1>3. Cardinality({v \in uids : v > Max(uids)}) = 0
  BY <1>2, NoUidsCounted
<1>4. Max(uids) \in Newest(uids, n)
  BY <1>1, <1>3 DEF Newest
<1> QED BY <1>4 DEF Newest

LEMMA OldestOfNewest ==
  ASSUME NEW uids \in SUBSET Uid, uids # {}, NEW n \in Int, n > 0
  PROVE  Min(Newest(uids, n)) \in uids
<1>1. Newest(uids, n) \subseteq uids /\ Newest(uids, n) # {}
  BY NewestNonEmpty
<1>2. Newest(uids, n) \in SUBSET Nat
  BY <1>1, UidNatural
<1>3. Min(Newest(uids, n)) \in Newest(uids, n)
  BY <1>1, <1>2, MinOfNaturals
<1> QED BY <1>1, <1>3

\* More than n uids, for an n that is no less than 0, are some uids.
LEMMA MoreThanSome ==
  ASSUME NEW uids \in SUBSET Uid, NEW n \in Int, n > 0, ~(Cardinality(uids) <= n)
  PROVE  uids # {}
<1>1. SUFFICES ASSUME uids = {} PROVE FALSE
  OBVIOUS
<1>2. Cardinality(uids) = 0
  BY <1>1, NoUidsCounted
<1> QED BY <1>2

LEMMA FloorForLimitIsUid ==
  ASSUME NEW uids \in SUBSET Uid, NEW limit \in Int
  PROVE  FloorForLimit(uids, limit) \in uids \cup {0}
<1>1. CASE limit <= 0 \/ Cardinality(uids) <= limit
  BY <1>1 DEF FloorForLimit
<1>2. CASE ~(limit <= 0 \/ Cardinality(uids) <= limit)
  <2>1. limit > 0 /\ ~(Cardinality(uids) <= limit)
    BY <1>2
  <2>2. uids # {}
    BY <2>1, MoreThanSome
  <2>3. Min(Newest(uids, limit)) \in uids
    BY <2>1, <2>2, OldestOfNewest
  <2> QED BY <1>2, <2>3 DEF FloorForLimit
<1> QED BY <1>1, <1>2

LEMMA LowerFloorIsUid ==
  ASSUME NEW uids \in SUBSET Uid, NEW current, NEW batch \in Int
  PROVE  LowerFloor(uids, current, batch) \in uids \cup {0}
<1> DEFINE below == {u \in uids : u < current}
<1>1. below \in SUBSET Uid /\ below \subseteq uids
  OBVIOUS
<1>2. CASE current = 0 \/ batch <= 0 \/ Cardinality(below) <= batch
  BY <1>2 DEF LowerFloor
<1>3. CASE ~(current = 0 \/ batch <= 0 \/ Cardinality(below) <= batch)
  <2>1. batch > 0 /\ ~(Cardinality(below) <= batch)
    BY <1>3
  <2>2. below # {}
    BY <1>1, <2>1, MoreThanSome
  <2>3. Min(Newest(below, batch)) \in below
    BY <1>1, <2>1, <2>2, OldestOfNewest
  <2>4. Min(Newest(below, batch)) \in uids
    BY <1>1, <2>3
  <2> QED BY <1>3, <2>4 DEF LowerFloor
<1> QED BY <1>2, <1>3

\* Whatever a sync starts from, the floor it plans with is a uid or none.
LEMMA WindowFloorIsUid ==
  ASSUME NEW lastSeen, NEW floor \in Uid \cup {0}, NEW uids \in SUBSET Uid,
         NEW cached, NEW limit \in Int, NEW backfill \in Int
  PROVE  WindowFloor(lastSeen, floor, uids, cached, limit, backfill) \in Uid \cup {0}
<1>1. LowerFloor(uids, floor, backfill) \in Uid \cup {0}
  BY LowerFloorIsUid
<1>2. FloorForLimit(uids, limit) \in Uid \cup {0}
  BY FloorForLimitIsUid
<1>3. NormalizeFloor(uids, floor) \in Uid \cup {0}
  BY DEF NormalizeFloor
<1> QED BY <1>1, <1>2, <1>3 DEF WindowFloor

\* The greater of two high water marks.
LEMMA MaxOfTwo ==
  ASSUME NEW a \in Uid \cup {0}, NEW b \in Uid \cup {0}
  PROVE  Max({a, b}) \in Uid \cup {0}
<1>1. PICK n \in Nat : Uid \subseteq 1..n
  BY UidBounded
<1>2. {a, b} \in SUBSET (0..n) /\ {a, b} # {}
  BY <1>1
<1> QED BY <1>2, MaxOfBounded

-----------------------------------------------------------------------------
\* Both sides hold the message: neither fetched nor dropped.
LEMMA ReconcileBothDecides ==
  ASSUME NEW l \in Local, NEW s \in Server
  PROVE  /\ ReconcileBoth(l, s) \in Decision
         /\ ReconcileBoth(l, s).action \notin {"FetchNew", "DeleteLocal"}
         /\ ReconcileBoth(l, s).action = "PushDelete" <=> l.pendingDelete
<1>1. CASE l.pendingDelete
  BY <1>1 DEF ReconcileBoth, Decide, Decision, Action, Local, Server
<1>2. CASE ~l.pendingDelete /\ l.pendingFlags
  BY <1>2 DEF ReconcileBoth, ReconcilePending, MergeFlags, Decide, Decision, Action, Local, Server
<1>3. CASE ~l.pendingDelete /\ ~l.pendingFlags
  BY <1>3 DEF ReconcileBoth, Decide, Decision, Action, Local, Server
<1> QED BY <1>1, <1>2, <1>3 DEF Local

\* What the reconciler decides, and which sides must hold the message for it.
LEMMA ReconcileOneDecides ==
  ASSUME NEW l \in Local \cup {Absent}, NEW s \in Server \cup {Absent}
  PROVE  /\ ReconcileOne(l, s) \in Decision
         /\ ReconcileOne(l, s).action = "FetchNew" <=> l = Absent
         /\ ReconcileOne(l, s).action = "DeleteLocal" <=> l # Absent /\ s = Absent
         /\ ReconcileOne(l, s).action = "PushDelete" =>
              l # Absent /\ s # Absent /\ l.pendingDelete
<1>1. CASE l = Absent
  BY <1>1 DEF ReconcileOne, Decide, Decision, Action
<1>2. CASE l # Absent /\ s = Absent
  BY <1>2 DEF ReconcileOne, Decide, Decision, Action, Local
<1>3. CASE l # Absent /\ s # Absent
  <2>1. l \in Local /\ s \in Server
    BY <1>3
  <2>2. ReconcileOne(l, s) = ReconcileBoth(l, s)
    BY <1>3 DEF ReconcileOne
  <2> QED BY <1>3, <2>1, <2>2, ReconcileBothDecides
<1> QED BY <1>1, <1>2, <1>3

-----------------------------------------------------------------------------
(* What a sync nobody interferes with leaves of one message *)

\* A message that no plan speaks of.
LEMMA Unplanned ==
  ASSUME NEW locals0 \in LocalViews, NEW servers0 \in ServerViews,
         NEW f \in Uid \cup {0}, NEW u \in Uid, u \notin Planned(locals0, servers0, f)
  PROVE  /\ LocalAfter(locals0, servers0, f)[u] = Absent
         /\ ServerAfter(locals0, servers0, f)[u] = servers0[u]
         /\ locals0[u] = Absent
         /\ servers0[u] = Absent \/ u < f
<1>1. locals0[u] = Absent /\ (servers0[u] # Absent => ~(u >= f))
  BY DEF Planned, Present
<1>2. u \in Nat /\ f \in Nat
  BY UidNatural
<1>3. LocalAfter(locals0, servers0, f)[u] = locals0[u]
  BY DEF LocalAfter, BuildPlan
<1>4. ServerAfter(locals0, servers0, f)[u] = servers0[u]
  BY DEF ServerAfter, BuildPlan, WithAction
<1> QED BY <1>1, <1>2, <1>3, <1>4

\* What executing a decision leaves on each side.
LocalLeft(l, s, d) ==
  CASE d.action = "FetchNew" -> Fetched(s)
    [] d.action \in {"DeleteLocal", "PushDelete"} -> Absent
    [] d.action = "AdoptServerFlags" -> [l EXCEPT !.flags = d.flags]
    [] d.action \in {"PushFlags", "ClearPending"} ->
         [l EXCEPT !.flags = d.flags, !.pendingFlags = FALSE]
    [] d.action = "None" -> l

ServerLeft(s, d) ==
  IF d.action = "PushDelete" THEN Absent
  ELSE IF d.action = "PushFlags" THEN [flags |-> MergeFlags(s.flags, d.flags)] ELSE s

LEMMA Executed ==
  ASSUME NEW locals0 \in LocalViews, NEW servers0 \in ServerViews,
         NEW f \in Uid \cup {0}, NEW u \in Planned(locals0, servers0, f),
         NEW l, l = locals0[u], NEW s, s = servers0[u], NEW d, d = ReconcileOne(l, s)
  PROVE  /\ LocalAfter(locals0, servers0, f)[u] = LocalLeft(l, s, d)
         /\ ServerAfter(locals0, servers0, f)[u] = ServerLeft(s, d)
<1>1. u \in Uid
  BY DEF Planned, Present
<1> DEFINE plan == BuildPlan(locals0, servers0, f)
<1>2. u \in DOMAIN plan /\ plan[u] = d
  BY DEF BuildPlan
<1>3. \A as : u \in WithAction(plan, as) <=> d.action \in as
  BY <1>2 DEF WithAction
<1> HIDE DEF plan
<1>4. LocalAfter(locals0, servers0, f)[u] = LocalLeft(l, s, d)
  BY <1>1, <1>2 DEF LocalAfter, LocalLeft, plan
<1>5. ServerAfter(locals0, servers0, f)[u] = ServerLeft(s, d)
  BY <1>1, <1>2, <1>3 DEF ServerAfter, ServerLeft, plan
<1> QED BY <1>4, <1>5

=============================================================================
