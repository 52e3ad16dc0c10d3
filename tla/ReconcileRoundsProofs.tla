------------------------- MODULE ReconcileRoundsProofs -------------------------
(***************************************************************************)
(* Proofs about whole syncs, for any set of uids, any flags and any        *)
(* window: a message at a time, since a sync decides about each alone.     *)
(***************************************************************************)
EXTENDS ReconcileRounds, ReconcileLemmas, TLAPS

USE UidAssumption, AbsentAssumption, LimitAssumption

\* What a sync leaves of a message: held by neither side, hidden by the window, or
\* the same on both with nothing pending.
Settled(u, local, server, f) ==
  \/ local = Absent /\ (server = Absent \/ u < f)
  \/ /\ local \in Local /\ server \in Server /\ local.flags = server.flags
     /\ ~local.pendingFlags /\ ~local.pendingDelete

-----------------------------------------------------------------------------
(* One message *)

\* The flags of a message on both sides after a sync, and that it is settled.
LEMMA OneRound ==
  ASSUME NEW locals0 \in LocalViews, NEW servers0 \in ServerViews,
         NEW f \in Uid \cup {0}, NEW u \in Uid,
         NEW L, L = LocalAfter(locals0, servers0, f)[u],
         NEW S, S = ServerAfter(locals0, servers0, f)[u]
  PROVE  /\ L \in Local \cup {Absent} /\ S \in Server \cup {Absent}
         /\ Settled(u, L, S, f)
         /\ locals0[u] # Absent /\ servers0[u] # Absent /\ ~locals0[u].pendingDelete =>
              /\ L # Absent /\ S # Absent /\ servers0[u].flags \subseteq L.flags
              /\ locals0[u].pendingFlags => locals0[u].flags \subseteq L.flags
<1>1. PICK l \in Local \cup {Absent} : l = locals0[u]
  BY DEF LocalViews
<1>2. PICK s \in Server \cup {Absent} : s = servers0[u]
  BY DEF ServerViews
<1>3. CASE u \notin Planned(locals0, servers0, f)
  BY <1>1, <1>2, <1>3, Unplanned DEF Settled
<1>4. CASE u \in Planned(locals0, servers0, f)
  <2>1. PICK d \in Decision : d = ReconcileOne(l, s)
    BY ReconcileOneDecides
  <2>2. L = LocalLeft(l, s, d) /\ S = ServerLeft(s, d)
    BY <1>1, <1>2, <1>4, <2>1, Executed
  <2>3. CASE l = Absent
    <3>1. d.action = "FetchNew" /\ s \in Server
      <4>1. s # Absent
        BY <1>1, <1>2, <1>4, <2>3 DEF Planned, Present
      <4> QED BY <2>1, <2>3, <4>1 DEF ReconcileOne, Decide
    <3>2. L = Fetched(s) /\ S = s
      BY <2>2, <3>1 DEF LocalLeft, ServerLeft
    <3>3. Fetched(s) \in Local /\ Fetched(s).flags = s.flags
          /\ ~Fetched(s).pendingFlags /\ ~Fetched(s).pendingDelete
      BY <3>1 DEF Fetched, Local, Server
    <3> QED BY <1>1, <2>3, <3>1, <3>2, <3>3 DEF Settled
  <2>4. CASE l # Absent /\ s = Absent
    <3>1. d.action = "DeleteLocal"
      BY <2>1, <2>4 DEF ReconcileOne, Decide
    <3>2. L = Absent /\ S = Absent
      BY <2>2, <2>4, <3>1 DEF LocalLeft, ServerLeft
    <3> QED BY <1>2, <2>4, <3>2 DEF Settled
  <2>5. CASE l # Absent /\ s # Absent
    <3>1. l \in Local /\ s \in Server /\ d = ReconcileBoth(l, s)
      BY <2>1, <2>5 DEF ReconcileOne
    <3>2. l.flags \in SUBSET Flag /\ s.flags \in SUBSET Flag
          /\ l.pendingFlags \in BOOLEAN /\ l.pendingDelete \in BOOLEAN
      BY <3>1 DEF Local, Server
    <3>3. CASE l.pendingDelete
      <4>1. d.action = "PushDelete"
        BY <3>1, <3>3 DEF ReconcileBoth, Decide
      <4>2. L = Absent /\ S = Absent
        BY <2>2, <4>1 DEF LocalLeft, ServerLeft
      <4> QED BY <1>1, <3>3, <4>2 DEF Settled
    <3>4. CASE ~l.pendingDelete /\ l.pendingFlags
      <4> DEFINE merged == l.flags \cup s.flags
      <4>1. d = ReconcilePending(l, s)
        BY <3>1, <3>4 DEF ReconcileBoth
      <4>2. /\ d.flags = merged
            /\ \/ d.action = "ClearPending" /\ merged = s.flags
               \/ d.action = "PushFlags"
        BY <4>1 DEF ReconcilePending, MergeFlags, Decide
      <4>3. L = [l EXCEPT !.flags = merged, !.pendingFlags = FALSE]
        BY <2>2, <4>2 DEF LocalLeft, ServerLeft
      <4>4. L \in Local /\ L.flags = merged /\ ~L.pendingFlags /\ ~L.pendingDelete
        BY <3>1, <3>2, <3>4, <4>3 DEF Local
      <4>5. S \in Server /\ S.flags = merged
        <5>1. CASE d.action = "ClearPending" /\ merged = s.flags
          BY <2>2, <3>1, <5>1 DEF LocalLeft, ServerLeft
        <5>2. CASE d.action = "PushFlags"
          <6>1. S = [flags |-> MergeFlags(s.flags, d.flags)]
            BY <2>2, <5>2 DEF LocalLeft, ServerLeft
          <6>2. MergeFlags(s.flags, d.flags) = merged
            BY <4>2 DEF MergeFlags
          <6>3. merged \in SUBSET Flag
            BY <3>2
          <6> QED BY <6>1, <6>2, <6>3 DEF Server
        <5> QED BY <4>2, <5>1, <5>2
      <4>6. s.flags \subseteq L.flags /\ l.flags \subseteq L.flags
        BY <4>4
      <4>7. L # Absent /\ S # Absent
        BY <4>4, <4>5
      <4> QED BY <1>1, <1>2, <4>4, <4>5, <4>6, <4>7 DEF Settled
    <3>5. CASE ~l.pendingDelete /\ ~l.pendingFlags
      <4>1. \/ d.action = "AdoptServerFlags" /\ d.flags = s.flags
            \/ d.action = "None" /\ s.flags = l.flags
        BY <3>1, <3>5 DEF ReconcileBoth, Decide
      <4>2. S = s
        BY <2>2, <4>1 DEF LocalLeft, ServerLeft
      <4>3. L = [l EXCEPT !.flags = s.flags] \/ (L = l /\ s.flags = l.flags)
        BY <2>2, <4>1 DEF LocalLeft, ServerLeft
      <4>4. L \in Local /\ L.flags = s.flags /\ ~L.pendingFlags /\ ~L.pendingDelete
        BY <3>1, <3>2, <3>5, <4>3 DEF Local
      <4> QED BY <1>1, <1>2, <2>5, <3>1, <3>5, <4>2, <4>4 DEF Settled
    <3> QED BY <3>2, <3>3, <3>4, <3>5
  <2> QED BY <2>3, <2>4, <2>5
<1> QED BY <1>3, <1>4

-----------------------------------------------------------------------------
(* A sync *)

LEMMA FloorIsUid ==
  ASSUME TypeOK, NEW backfill \in Nat
  PROVE  WindowAt(backfill) \in Uid \cup {0}
<1>1. Present(servers) \in SUBSET Uid
  BY DEF Present
<1> QED BY <1>1, WindowFloorIsUid DEF WindowAt, TypeOK

LEMMA StepIsSync ==
  ASSUME TypeOK, Next
  PROVE  \E f \in Uid \cup {0} :
           /\ floor' = f
           /\ locals' = LocalAfter(locals, servers, f)
           /\ servers' = ServerAfter(locals, servers, f)
           /\ lastSeen' = Max({HighestUID(Present(servers)), lastSeen})
<1>1. PICK backfill \in Nat : SyncWith(backfill)
  BY DEF Next, SyncFolder, BackfillFolder
<1>2. PICK f \in Uid \cup {0} : f = WindowAt(backfill)
  BY FloorIsUid
<1> QED BY <1>1, <1>2 DEF SyncWith

LEMMA AfterViews ==
  ASSUME NEW locals0 \in LocalViews, NEW servers0 \in ServerViews, NEW f \in Uid \cup {0}
  PROVE  /\ LocalAfter(locals0, servers0, f) \in LocalViews
         /\ ServerAfter(locals0, servers0, f) \in ServerViews
<1>1. \A u \in Uid : /\ LocalAfter(locals0, servers0, f)[u] \in Local \cup {Absent}
                     /\ ServerAfter(locals0, servers0, f)[u] \in Server \cup {Absent}
  BY OneRound
<1> DEFINE A == LocalAfter(locals0, servers0, f)
           B == ServerAfter(locals0, servers0, f)
<1>2. A = [u \in Uid |-> A[u]]
  <2> DEFINE plan == BuildPlan(locals0, servers0, f)
             l(u) == IF u \in DOMAIN plan
                     THEN CASE plan[u].action = "FetchNew" -> Fetched(servers0[u])
                            [] plan[u].action \in {"DeleteLocal", "PushDelete"} -> Absent
                            [] plan[u].action = "AdoptServerFlags" ->
                                 [locals0[u] EXCEPT !.flags = plan[u].flags]
                            [] plan[u].action \in {"PushFlags", "ClearPending"} ->
                                 [locals0[u] EXCEPT !.flags = plan[u].flags,
                                                    !.pendingFlags = FALSE]
                            [] plan[u].action = "None" -> locals0[u]
                     ELSE locals0[u]
  <2>1. A = [u \in Uid |-> l(u)]
    BY DEF LocalAfter
  <2> HIDE DEF A, l
  <2> QED BY <2>1
<1>3. B = [u \in Uid |-> B[u]]
  BY DEF ServerAfter
<1> HIDE DEF A, B
<1>4. \A u \in Uid : A[u] \in Local \cup {Absent} /\ B[u] \in Server \cup {Absent}
  BY <1>1 DEF A, B
<1>5. A \in [Uid -> Local \cup {Absent}]
  BY <1>2, <1>4
<1>6. B \in [Uid -> Server \cup {Absent}]
  BY <1>3, <1>4
<1> QED BY <1>5, <1>6 DEF A, B, LocalViews, ServerViews

\* Whatever two views a sync begins with, it leaves views, and a floor and a high
\* water mark that are uids or none.
THEOREM RoundTypes == Spec => []TypeOK
<1>1. Init => TypeOK
  <2>1. HighestUID(Uid) \in Uid \cup {0}
    BY HighestUIDIsUid
  <2> QED BY <2>1 DEF Init, TypeOK
<1>2. TypeOK /\ [Next]_vars => TypeOK'
  <2> SUFFICES ASSUME TypeOK, [Next]_vars PROVE TypeOK'
    OBVIOUS
  <2>1. CASE UNCHANGED vars
    BY <2>1 DEF TypeOK, vars
  <2>2. CASE Next
    <3>1. PICK f \in Uid \cup {0} :
            /\ floor' = f
            /\ locals' = LocalAfter(locals, servers, f)
            /\ servers' = ServerAfter(locals, servers, f)
            /\ lastSeen' = Max({HighestUID(Present(servers)), lastSeen})
      BY <2>2, StepIsSync
    <3>2. locals' \in LocalViews /\ servers' \in ServerViews
      BY <3>1, AfterViews DEF TypeOK
    <3>3. lastSeen' \in Uid \cup {0}
      <4>1. HighestUID(Present(servers)) \in Uid \cup {0}
        <5>1. Present(servers) \in SUBSET Uid
          BY DEF Present
        <5> QED BY <5>1, HighestUIDIsUid
      <4> QED BY <3>1, <4>1, MaxOfTwo DEF TypeOK
    <3> QED BY <3>1, <3>2, <3>3 DEF TypeOK
  <2> QED BY <2>1, <2>2
<1> QED BY <1>1, <1>2, PTL DEF Spec

\* The union policy of reconcile.go: whatever either side set of a message that lives
\* on both is set on both after the sync.
THEOREM UnionKept == Spec => NoFlagLost
<1>1. TypeOK /\ [Next]_vars =>
        [\A u \in Present(locals) \cap Present(servers) :
           ~locals[u].pendingDelete =>
             /\ servers[u].flags \subseteq locals'[u].flags \cap servers'[u].flags
             /\ locals[u].pendingFlags =>
                  locals[u].flags \subseteq locals'[u].flags \cap servers'[u].flags]_vars
  <2> SUFFICES ASSUME TypeOK, Next, NEW u \in Present(locals) \cap Present(servers),
                      ~locals[u].pendingDelete
               PROVE  /\ servers[u].flags \subseteq locals'[u].flags \cap servers'[u].flags
                      /\ locals[u].pendingFlags =>
                           locals[u].flags \subseteq locals'[u].flags \cap servers'[u].flags
    OBVIOUS
  <2>1. PICK f \in Uid \cup {0} :
          /\ locals' = LocalAfter(locals, servers, f)
          /\ servers' = ServerAfter(locals, servers, f)
    BY StepIsSync
  <2>2. u \in Uid /\ locals[u] # Absent /\ servers[u] # Absent
    BY DEF Present
  <2>3. /\ Settled(u, locals'[u], servers'[u], f)
        /\ locals'[u] # Absent
        /\ servers[u].flags \subseteq locals'[u].flags
        /\ locals[u].pendingFlags => locals[u].flags \subseteq locals'[u].flags
    <3>1. PICK L, S : /\ L = LocalAfter(locals, servers, f)[u]
                      /\ S = ServerAfter(locals, servers, f)[u]
      OBVIOUS
    <3>2. /\ Settled(u, L, S, f)
          /\ L # Absent
          /\ servers[u].flags \subseteq L.flags
          /\ locals[u].pendingFlags => locals[u].flags \subseteq L.flags
      BY <2>2, <3>1, OneRound DEF TypeOK
    <3> QED BY <2>1, <3>1, <3>2
  <2>4. locals'[u].flags = servers'[u].flags
    BY <2>3 DEF Settled
  <2> QED BY <2>3, <2>4
<1> QED BY <1>1, RoundTypes, PTL DEF NoFlagLost, Spec

\* A settled message needs nothing, and the window that the next sync finds is the one
\* that this one left, or wider than whatever it still hides.
THEOREM SecondIsIdle == Spec => SecondSyncIsIdle
<1>1. TypeOK /\ [Next]_vars =>
        [WithAction(BuildPlan(locals', servers', WindowAt(0)'), Action \ {"None"}) = {}]_vars
  <2> SUFFICES ASSUME TypeOK, Next
               PROVE  WithAction(BuildPlan(locals', servers', WindowAt(0)'), Action \ {"None"}) = {}
    OBVIOUS
  <2>1. PICK f \in Uid \cup {0} :
          /\ floor' = f
          /\ locals' = LocalAfter(locals, servers, f)
          /\ servers' = ServerAfter(locals, servers, f)
    BY StepIsSync
  <2>2. \A u \in Uid : Settled(u, locals'[u], servers'[u], f)
    <3> SUFFICES ASSUME NEW u \in Uid PROVE Settled(u, locals'[u], servers'[u], f)
      OBVIOUS
    <3>1. PICK L, S : /\ L = LocalAfter(locals, servers, f)[u]
                      /\ S = ServerAfter(locals, servers, f)[u]
      OBVIOUS
    <3>2. Settled(u, L, S, f)
      BY <3>1, OneRound DEF TypeOK
    <3> QED BY <2>1, <3>1, <3>2
  <2> DEFINE g == WindowAt(0)'
  <2>3. ASSUME NEW u \in Present(servers'), u < f
        PROVE  g = f
    <3>1. f # 0
      BY <2>3, UidNatural DEF Present
    <3>2. g = WindowFloor(lastSeen', f, Present(servers'), Present(locals'), InitialLimit, 0)
      BY <2>1 DEF WindowAt
    <3>3. g = NormalizeFloor(Present(servers'), f)
      BY <3>1, <3>2 DEF WindowFloor
    <3> QED BY <2>3, <3>3 DEF NormalizeFloor
  <2> HIDE DEF g
  <2>4. ASSUME NEW u \in Planned(locals', servers', g)
        PROVE  ReconcileOne(locals'[u], servers'[u]).action = "None"
    <3>1. u \in Uid /\ (locals'[u] = Absent => u \in Present(servers') /\ u >= g)
      BY <2>4 DEF Planned, Present
    <3>2. locals'[u] # Absent
      <4> SUFFICES ASSUME locals'[u] = Absent PROVE FALSE
        OBVIOUS
      <4>1. u \in Present(servers') /\ u >= g /\ u < f
        BY <2>2, <3>1 DEF Settled, Present
      <4>2. g = f
        BY <2>3, <4>1
      <4> QED BY <3>1, <4>1, <4>2, UidNatural
    <3>3. /\ locals'[u] \in Local /\ servers'[u] \in Server
          /\ locals'[u].flags = servers'[u].flags
          /\ ~locals'[u].pendingFlags /\ ~locals'[u].pendingDelete
      BY <2>2, <3>1, <3>2 DEF Settled
    <3>4. servers'[u] # Absent
      BY <3>3
    <3> QED BY <3>2, <3>3, <3>4 DEF ReconcileOne, ReconcileBoth, Decide
  <2> DEFINE plan == BuildPlan(locals', servers', g)
  <2>5. DOMAIN plan = Planned(locals', servers', g)
        /\ \A u \in DOMAIN plan : plan[u] = ReconcileOne(locals'[u], servers'[u])
    BY DEF BuildPlan
  <2> HIDE DEF plan
  <2>6. WithAction(plan, Action \ {"None"}) = {}
    BY <2>4, <2>5 DEF WithAction
  <2> QED BY <2>6 DEF plan, g
<1> QED BY <1>1, RoundTypes, PTL DEF SecondSyncIsIdle, Spec

-----------------------------------------------------------------------------
(* The window *)

LEMMA MinOfTwo ==
  ASSUME NEW a \in Nat, NEW b \in Nat
  PROVE  Min({a, b}) = IF a <= b THEN a ELSE b
<1>1. {a, b} \in SUBSET Nat /\ {a, b} # {}
  OBVIOUS
<1>2. Min({a, b}) \in {a, b} /\ \A x \in {a, b} : Min({a, b}) <= x
  BY <1>1, MinOfNaturals
<1> QED BY <1>2

\* The first n of descendingUIDs are the n newest: each has a rank of its own, and
\* every rank below n, or below the number of uids, is that of one.
LEMMA NewestAre ==
  ASSUME NEW uids \in SUBSET Uid, NEW n \in Nat
  PROVE  NewestOf(Newest(uids, n), uids, n)
<1> DEFINE before == Newer(uids)
           s == Newest(uids, n)
           all == Cardinality(uids)
           m == Min({n, all})
           rank == [u \in s |-> Cardinality(before[u])]
<1>1. uids \in SUBSET Nat /\ IsFiniteSet(uids) /\ all \in Nat
  <2>1. PICK k \in Nat : Uid \subseteq 1..k
    BY UidBounded
  <2>2. IsFiniteSet(1..k) /\ uids \subseteq 1..k
    BY <2>1, FS_Interval
  <2>3. IsFiniteSet(uids)
    BY <2>2, FS_Subset
  <2> QED BY <2>2, <2>3, FS_CardinalityType
<1>2. Order(uids, before)
  BY <1>1, NewerOrders
<1>3. /\ s \subseteq uids
      /\ \A u \in uids : u \in s <=> Cardinality(before[u]) < n
  BY DEF Newest, Newer
<1>4. m \in Nat /\ m = IF n <= all THEN n ELSE all
  BY <1>1, MinOfTwo
<1>5. \A u, v \in uids : v \in before[u] <=> v > u
  BY DEF Newer
<1> HIDE DEF before, s, all, m
<1>6. /\ \A u \in uids : Cardinality(before[u]) \in 0..(all - 1)
      /\ \A u, v \in uids : Cardinality(before[u]) = Cardinality(before[v]) => u = v
      /\ \A k \in 1..all : Nth(before, k) \in uids /\ Cardinality(before[Nth(before, k)]) = k - 1
  BY <1>1, <1>2, Ranks DEF all
<1>7. ASSUME NEW u \in s, NEW v \in uids \ s PROVE u > v
  <2>1. u \in uids /\ v \in uids /\ u \in Nat /\ v \in Nat
    BY <1>1, <1>3
  <2>2. Cardinality(before[u]) < n /\ ~(Cardinality(before[v]) < n)
    BY <1>3, <1>7, <2>1
  <2>3. SUFFICES ASSUME v > u PROVE FALSE
    BY <2>1, <2>2
  <2>4. before[v] \in SUBSET before[u]
    BY <1>2, <1>5, <2>1, <2>3 DEF Order
  <2>5. IsFiniteSet(before[u])
    <3>1. before[u] \subseteq uids
      BY <1>2, <2>1 DEF Order
    <3> QED BY <1>1, <3>1, FS_Subset
  <2>6. Cardinality(before[v]) <= Cardinality(before[u])
    BY <2>4, <2>5, FS_Subset
  <2>7. Cardinality(before[u]) \in Nat /\ Cardinality(before[v]) \in Nat
    BY <1>1, <1>6, <2>1
  <2> QED BY <2>2, <2>6, <2>7
<1>8. rank \in Injection(s, 0..(m - 1))
  <2>1. ASSUME NEW u \in s PROVE Cardinality(before[u]) \in 0..(m - 1)
    <3>1. u \in uids /\ Cardinality(before[u]) < n /\ Cardinality(before[u]) \in 0..(all - 1)
      BY <1>3, <1>6, <2>1
    <3> QED BY <1>1, <1>4, <3>1
  <2>2. \A u, v \in s : rank[u] = rank[v] => u = v
    BY <1>3, <1>6
  <2> QED BY <2>1, <2>2 DEF Injection, IsInjective
<1>9. rank \in Surjection(s, 0..(m - 1))
  <2>1. ASSUME NEW r \in 0..(m - 1) PROVE \E u \in s : rank[u] = r
    <3>1. r + 1 \in 1..all /\ r < n /\ r + 1 - 1 = r
      BY <1>1, <1>4
    <3>2. PICK k \in 1..all : k - 1 = r
      BY <3>1
    <3>3. Nth(before, k) \in uids /\ Cardinality(before[Nth(before, k)]) = r
      BY <1>6, <3>2
    <3>4. PICK u \in uids : Cardinality(before[u]) = r
      BY <3>3
    <3> QED BY <1>3, <3>1, <3>4
  <2>2. rank \in [s -> 0..(m - 1)]
    BY <1>8 DEF Injection
  <2> QED BY <2>1, <2>2 DEF Surjection
<1>10. IsFiniteSet(0..(m - 1)) /\ Cardinality(0..(m - 1)) = m
  <2>1. m - 1 \in Int
    BY <1>4
  <2>2. /\ IsFiniteSet(0..(m - 1))
        /\ Cardinality(0..(m - 1)) = IF 0 > m - 1 THEN 0 ELSE m - 1 - 0 + 1
    BY <2>1, FS_Interval
  <2> QED BY <1>4, <2>2
<1>11. Cardinality(s) = m
  BY <1>8, <1>9, <1>10, FS_Injection
<1>12. NewestOf(s, uids, n)
  BY <1>3, <1>7, <1>11 DEF NewestOf, m, all
<1> QED BY <1>12 DEF s

\* A floor at the oldest of the n newest admits the n newest.
LEMMA FloorAdmits ==
  ASSUME NEW uids \in SUBSET Uid, uids # {}, NEW n \in Nat \ {0}
  PROVE  NewestOf({u \in uids : u >= Min(Newest(uids, n))}, uids, n)
<1> DEFINE s == Newest(uids, n)
<1>1. s \subseteq uids /\ s # {} /\ uids \in SUBSET Nat
  BY NewestNonEmpty, UidNatural
<1>2. NewestOf(s, uids, n)
  BY NewestAre
<1> HIDE DEF s
<1>3. Min(s) \in s /\ \A u \in s : Min(s) <= u
  BY <1>1, MinOfNaturals
<1>4. \A u \in uids : u >= Min(s) <=> u \in s
  <2>1. ASSUME NEW u \in uids, u \in s PROVE u >= Min(s)
    BY <1>1, <1>3, <2>1
  <2>2. ASSUME NEW u \in uids, u \notin s PROVE ~(u >= Min(s))
    <3>1. Min(s) > u
      BY <1>2, <1>3, <2>2 DEF NewestOf
    <3>2. Min(s) \in Nat /\ u \in Nat
      BY <1>1, <1>3
    <3> QED BY <3>1, <3>2
  <2> QED BY <2>1, <2>2
<1>5. {u \in uids : u >= Min(s)} = s
  BY <1>1, <1>4
<1> QED BY <1>2, <1>5 DEF s

\* All of them, when there are no more than n.
LEMMA AllAreNewest ==
  ASSUME NEW uids \in SUBSET Uid, NEW n \in Nat, Cardinality(uids) <= n
  PROVE  NewestOf(uids, uids, n)
<1>1. Cardinality(uids) \in Nat
  <2>1. PICK k \in Nat : Uid \subseteq 1..k
    BY UidBounded
  <2>2. IsFiniteSet(1..k) /\ uids \subseteq 1..k
    BY <2>1, FS_Interval
  <2> QED BY <2>2, FS_Subset, FS_CardinalityType
<1>2. Cardinality(uids) = Min({n, Cardinality(uids)})
  BY <1>1, MinOfTwo
<1> QED BY <1>2 DEF NewestOf

\* LowerFloor admits, of what the floor holds back, the newest of a batch.
LEMMA LowerFloorAdmits ==
  ASSUME NEW uids \in SUBSET Uid, NEW current \in Uid, NEW batch \in Nat \ {0},
         NEW f, f = LowerFloor(uids, current, batch)
  PROVE  NewestOf({u \in uids : u >= f /\ u < current}, {u \in uids : u < current}, batch)
<1> DEFINE below == {u \in uids : u < current}
<1>1. below \in SUBSET Uid /\ current # 0 /\ below \in SUBSET Nat
  BY UidNatural
<1>2. {u \in uids : u >= f /\ u < current} = {u \in below : u >= f}
  OBVIOUS
<1>3. f = IF Cardinality(below) <= batch THEN 0 ELSE Min(Newest(below, batch))
  BY <1>1 DEF LowerFloor
<1> HIDE DEF below
<1>4. CASE Cardinality(below) <= batch
  <2>1. f = 0 /\ \A u \in below : u \in Nat
    BY <1>1, <1>3, <1>4
  <2>2. \A u \in below : u >= f
    BY <2>1
  <2>3. {u \in below : u >= f} = below
    BY <2>2
  <2> QED BY <1>1, <1>2, <1>4, <2>3, AllAreNewest DEF below
<1>5. CASE ~(Cardinality(below) <= batch)
  <2>1. below # {}
    BY <1>1, <1>5, MoreThanSome
  <2> QED BY <1>1, <1>2, <1>3, <1>5, <2>1, FloorAdmits DEF below
<1> QED BY <1>4, <1>5

\* A first sync's floor admits the newest of the limit, all of them when there are no
\* more; without a limit it admits everything.
LEMMA FloorForLimitAdmits ==
  ASSUME NEW uids \in SUBSET Uid, NEW limit \in Nat, NEW f, f = FloorForLimit(uids, limit)
  PROVE  IF limit = 0 THEN {u \in uids : u >= f} = uids
                      ELSE NewestOf({u \in uids : u >= f}, uids, limit)
<1>1. f = 0 => {u \in uids : u >= f} = uids
  <2>1. \A u \in uids : u \in Nat
    BY UidNatural
  <2>2. f = 0 => \A u \in uids : u >= f
    BY <2>1
  <2> QED BY <2>2
<1>2. CASE limit = 0
  BY <1>1, <1>2 DEF FloorForLimit
<1>3. CASE limit # 0 /\ Cardinality(uids) <= limit
  <2>1. {u \in uids : u >= f} = uids
    BY <1>1, <1>3 DEF FloorForLimit
  <2> QED BY <1>3, <2>1, AllAreNewest
<1>4. CASE limit # 0 /\ ~(Cardinality(uids) <= limit)
  <2>1. f = Min(Newest(uids, limit))
    BY <1>4 DEF FloorForLimit
  <2>2. uids # {} /\ limit \in Nat \ {0}
    BY <1>4, MoreThanSome
  <2> QED BY <1>4, <2>1, <2>2, FloorAdmits
<1> QED BY <1>2, <1>3, <1>4

\* LowerFloor never raises the floor.
LEMMA LowerFloorLowers ==
  ASSUME NEW uids \in SUBSET Uid, NEW current \in Uid, NEW batch \in Nat \ {0}
  PROVE  LowerFloor(uids, current, batch) <= current
<1> DEFINE below == {u \in uids : u < current}
<1>1. below \in SUBSET Uid /\ current \in Nat
  BY UidNatural
<1>2. CASE Cardinality(below) <= batch
  <2>1. LowerFloor(uids, current, batch) = 0
    BY <1>2 DEF LowerFloor
  <2> QED BY <1>1, <2>1
<1>3. CASE ~(Cardinality(below) <= batch)
  <2>1. current # 0 /\ LowerFloor(uids, current, batch) = Min(Newest(below, batch))
    BY <1>3, UidNatural DEF LowerFloor
  <2>2. below # {}
    <3> HIDE DEF below
    <3> QED BY <1>1, <1>3, MoreThanSome
  <2>3. Min(Newest(below, batch)) \in below
    <3> HIDE DEF below
    <3> QED BY <1>1, <2>2, OldestOfNewest
  <2>4. Min(Newest(below, batch)) < current /\ Min(Newest(below, batch)) \in Nat
    BY <2>3, UidNatural
  <2> HIDE DEF below
  <2> QED BY <1>1, <2>1, <2>4
<1> QED BY <1>2, <1>3

\* What a sync caches of a folder it knows nothing of: what the floor admits.
LEMMA FreshCache ==
  ASSUME NEW locals0 \in LocalViews, NEW servers0 \in ServerViews, NEW f \in Uid \cup {0},
         Present(locals0) = {}
  PROVE  Present(LocalAfter(locals0, servers0, f)) = {u \in Present(servers0) : u >= f}
<1> DEFINE after == LocalAfter(locals0, servers0, f)
<1>1. SUFFICES ASSUME NEW u \in Uid
               PROVE  after[u] # Absent <=> u \in Present(servers0) /\ u >= f
  BY DEF Present
<1>2. locals0[u] = Absent
  BY DEF Present
<1>3. CASE u \notin Planned(locals0, servers0, f)
  BY <1>3, Unplanned DEF Planned
<1>4. CASE u \in Planned(locals0, servers0, f)
  <2>1. u \in Present(servers0) /\ u >= f
    BY <1>2, <1>4 DEF Planned, Present
  <2>2. servers0[u] \in Server
    BY <2>1 DEF Present, ServerViews
  <2>3. PICK l, s, d : l = locals0[u] /\ s = servers0[u] /\ d = ReconcileOne(l, s)
    OBVIOUS
  <2>4. d.action = "FetchNew"
    BY <1>2, <2>3 DEF ReconcileOne, Decide
  <2>5. after[u] = Fetched(s)
    <3>1. after[u] = LocalLeft(l, s, d)
      BY <1>4, <2>3, Executed
    <3> QED BY <2>4, <3>1 DEF LocalLeft
  <2>6. Fetched(s) \in Local
    BY <2>2, <2>3 DEF Fetched, Local, Server
  <2> QED BY <2>1, <2>5, <2>6, AbsentAssumption
<1> QED BY <1>3, <1>4

\* window.go says what a window admits, windowFloor when it is set, and a sync's floor
\* is that: a first sync caches the newest InitialLimit messages and no other, a "load
\* older" admits the newest BackfillBatch of those held back, and any other sync moves
\* nothing in or out and sets no floor of its own.
THEOREM WindowIsExact == Spec => WindowExact
<1> DEFINE on    == Present(servers)
           shown == {u \in on : u >= floor'}
           older == {u \in on : u < floor}
           Exact ==
             /\ SyncFolder /\ FirstSync =>
                  /\ Present(locals') = shown
                  /\ IF InitialLimit = 0 THEN shown = on
                                         ELSE NewestOf(shown, on, InitialLimit)
             /\ SyncFolder /\ ~FirstSync => floor' \in {0, floor} /\ shown = on \ older
             /\ BackfillFolder /\ BackfillBatch > 0 =>
                  /\ floor' <= floor
                  /\ NewestOf(shown \cap older, older, BackfillBatch)
<1>1. TypeOK /\ [Next]_vars => [Exact]_vars
  <2> SUFFICES ASSUME TypeOK, Next PROVE Exact
    OBVIOUS
  <2>1. on \in SUBSET Uid /\ \A u \in on : u \in Nat
    BY UidNatural DEF Present
  <2>2. floor \in Uid \cup {0} /\ floor \in Nat
    BY UidNatural DEF TypeOK
  <2>3. ASSUME SyncFolder, FirstSync
        PROVE  /\ Present(locals') = shown
               /\ IF InitialLimit = 0 THEN shown = on ELSE NewestOf(shown, on, InitialLimit)
    <3>1. floor' = FloorForLimit(on, InitialLimit)
      BY <2>3 DEF SyncFolder, SyncWith, WindowAt, WindowFloor, FirstSync
    <3>2. floor' \in Uid \cup {0} /\ locals' = LocalAfter(locals, servers, floor')
      <4>1. WindowAt(0) \in Uid \cup {0}
        BY FloorIsUid
      <4> QED BY <2>3, <4>1 DEF SyncFolder, SyncWith
    <3>3. Present(locals') = shown
      BY <2>3, <3>2, FreshCache DEF TypeOK, FirstSync
    <3> HIDE DEF on
    <3> QED BY <2>1, <3>1, <3>3, FloorForLimitAdmits
  <2>4. ASSUME SyncFolder, ~FirstSync PROVE floor' \in {0, floor} /\ shown = on \ older
    <3>1. floor' = NormalizeFloor(on, floor)
      BY <2>4 DEF SyncFolder, SyncWith, WindowAt, WindowFloor, FirstSync
    <3>2. CASE \E u \in on : u < floor
      <4>1. floor' = floor
        BY <3>1, <3>2 DEF NormalizeFloor
      <4> QED BY <2>1, <2>2, <4>1
    <3>3. CASE ~\E u \in on : u < floor
      <4>1. floor' = 0 /\ older = {}
        BY <3>1, <3>3 DEF NormalizeFloor
      <4> QED BY <2>1, <4>1
    <3> QED BY <3>2, <3>3
  <2>5. ASSUME BackfillFolder, BackfillBatch > 0
        PROVE  floor' <= floor /\ NewestOf(shown \cap older, older, BackfillBatch)
    <3>1. floor' = LowerFloor(on, floor, BackfillBatch)
      BY <2>5 DEF BackfillFolder, SyncWith, WindowAt, WindowFloor
    <3>2. BackfillBatch \in Nat \ {0}
      BY <2>5
    <3>3. CASE floor = 0
      <4>1. floor' = 0
        BY <3>1, <3>3 DEF LowerFloor
      <4>2. older = {}
        BY <2>1, <3>3
      <4>3. NewestOf({}, {}, BackfillBatch)
        <5>1. Cardinality({}) = 0 /\ {} \in SUBSET Uid
          BY NoUidsCounted
        <5>2. Cardinality({}) <= BackfillBatch
          BY <3>2, <5>1
        <5> QED BY <3>2, <5>1, <5>2, AllAreNewest
      <4>4. shown \cap older = {}
        BY <4>2
      <4> HIDE DEF shown, older
      <4> QED BY <3>3, <4>1, <4>2, <4>3, <4>4
    <3>4. CASE floor # 0
      <4>1. floor \in Uid
        BY <2>2, <3>4
      <4>2. shown \cap older = {u \in on : u >= floor' /\ u < floor}
        OBVIOUS
      <4>3. floor' <= floor
        <5> HIDE DEF on
        <5> QED BY <2>1, <3>1, <3>2, <4>1, LowerFloorLowers
      <4>4. NewestOf({u \in on : u >= floor' /\ u < floor}, older, BackfillBatch)
        <5> HIDE DEF on
        <5> QED BY <2>1, <3>1, <3>2, <4>1, LowerFloorAdmits
      <4> QED BY <4>2, <4>3, <4>4
    <3> QED BY <3>3, <3>4
  <2> QED BY <2>3, <2>4, <2>5
<1> QED BY <1>1, RoundTypes, PTL DEF WindowExact, Spec

=============================================================================
