----------------------------- MODULE MovesProofs -----------------------------
(***************************************************************************)
(* Proofs about Moves for any number of messages, actions, steps and       *)
(* troubles: its types, that no message is lost or doubled, and that only  *)
(* the one that was meant moves.  Then each message is followed on its way *)
(* through moves and undos, which gives what rows are dropped, what an     *)
(* undo of all that was moved comes to, and what is remembered of a        *)
(* message in Junk.                                                        *)
(***************************************************************************)
EXTENDS Moves, FiniteSetTheorems, FunctionTheorems, SequenceTheorems, NaturalLemmas, TLAPS

Holding == {"move", "remove", "drop"}

GoodAct ==
  {x \in Act : /\ x.op = "none" <=> x.todo = <<>>
               /\ x.op = "none" <=> x.at = "idle"}

\* A uid that was given out, and whose copy, if it is still there, is of the message.
Names(t) == t.uid < uidNext[t.folder] /\ \A c \in Named(t) : c.msg = t.msg

\* What was read of a copy holds until its folder is renumbered.
Sound(t) ==
  /\ t.validity <= uidValidity[t.folder]
  /\ t.validity = uidValidity[t.folder] => Names(t)

GoodServer ==
  /\ hasMove \in Extensions
  /\ copies \in SUBSET Copy /\ IsFiniteSet(copies)
  /\ \A c, d \in copies : c.folder = d.folder /\ c.uid = d.uid => c = d
  /\ \A c \in copies : c.uid < uidNext[c.folder]
  /\ uidValidity \in [Folder -> Nat \ {0}] /\ uidNext \in [Folder -> Nat]

GoodStore ==
  /\ rows \in SUBSET Row /\ IsFiniteSet(rows)
  /\ \A r \in rows : Sound(r)
  /\ spamOrigins \in [Msg -> Folder \cup {NoFolder}]

GoodActions ==
  /\ syncMu \in Action \cup {NoAction}
  /\ actions \in [Action -> GoodAct]
  /\ archived \in Seq(Seq(Task) \ {<<>>})
  /\ \A a \in Action : actions[a].at \in Holding <=> syncMu = a
  /\ \A a \in Action : \A i \in 1..Len(actions[a].todo) : Sound(actions[a].todo[i])
  /\ \A a \in Action :
       actions[a].op = "undo" /\ actions[a].at \in Holding => Names(Now(a))

GoodHistory ==
  /\ left \in [steps : 0..Steps, troubles : 0..Troubles]
  /\ home \in [Msg -> [folder : Folder, keywords : SUBSET Keyword]]
  /\ markedIn \in [Msg -> Folder \cup {NoFolder}]
  /\ torn \in SUBSET Msg /\ astray \in SUBSET Msg
  /\ phantom \in SUBSET Msg /\ moot \in SUBSET Msg
  /\ stuck \in [Msg -> SUBSET Keyword] /\ unrecorded \in SUBSET Msg

\* What is about to be deleted was copied.
Spare ==
  \A a \in Action : At(a, "remove") /\ ~Stale(a) =>
    \A c \in Named(Now(a)) : \E d \in copies : d # c /\ d.msg = c.msg

\* Of two copies of one message, one is about to be deleted.
Pairs ==
  \A c, d \in copies : c # d /\ c.msg = d.msg /\ c.msg \notin torn =>
    \E a \in Action : At(a, "remove") /\ {c, d} \cap Named(Now(a)) # {}

MInv == GoodServer /\ GoodStore /\ GoodActions /\ GoodHistory
LInv == Spare /\ NothingLost /\ Pairs

-----------------------------------------------------------------------------
(* Sequences of tasks *)

USE MovesAssumption

LEMMA Updated ==
  ASSUME NEW r \in Act, NEW at, NEW todo
  PROVE  [r EXCEPT !.at = at, !.todo = todo] =
           [op |-> r.op, at |-> at, todo |-> todo, done |-> r.done]
<1> DEFINE x == [r EXCEPT !.at = at, !.todo = todo]
<1>1. x \in [op : {r.op}, at : {at}, todo : {todo}, done : {r.done}]
  BY DEF Act
<1>2. x.op = r.op /\ x.at = at /\ x.todo = todo /\ x.done = r.done
  BY DEF Act
<1> HIDE DEF x
<1>3. x = [op |-> x.op, at |-> x.at, todo |-> x.todo, done |-> x.done]
  BY <1>1
<1> QED BY <1>2, <1>3 DEF x

LEMMA SetHead ==
  ASSUME NEW s \in Seq(Task), s # <<>>, NEW t \in Task
  PROVE  /\ <<t>> \o Tail(s) \in Seq(Task)
         /\ <<t>> \o Tail(s) # <<>>
         /\ Len(<<t>> \o Tail(s)) = Len(s)
         /\ (<<t>> \o Tail(s))[1] = t
         /\ \A i \in 2..Len(s) : (<<t>> \o Tail(s))[i] = s[i]
<1>1. /\ Tail(s) \in Seq(Task) /\ Len(Tail(s)) = Len(s) - 1
      /\ \A i \in 1..Len(Tail(s)) : Tail(s)[i] = s[i + 1]
  BY HeadTailProperties
<1>2. <<t>> \in Seq(Task) /\ Len(<<t>>) = 1 /\ <<t>>[1] = t
  OBVIOUS
<1>3. Len(s) \in Nat \ {0}
  BY EmptySeq
<1>4. /\ <<t>> \o Tail(s) \in Seq(Task)
      /\ Len(<<t>> \o Tail(s)) = 1 + Len(Tail(s))
      /\ \A i \in 1..(1 + Len(Tail(s))) :
           (<<t>> \o Tail(s))[i] = IF i <= 1 THEN <<t>>[i] ELSE Tail(s)[i - 1]
  BY <1>1, <1>2, ConcatProperties
<1>5. \A i \in 2..Len(s) : i - 1 \in 1..Len(Tail(s)) /\ i \in 1..(1 + Len(Tail(s))) /\ ~(i <= 1)
  BY <1>1, <1>3
<1>6. 1 \in 1..(1 + Len(Tail(s)))
  BY <1>1, <1>3
<1>7. <<t>> \o Tail(s) # <<>>
  BY <1>1, <1>3, <1>4, EmptySeq
<1>8. \A i \in 2..Len(s) : (<<t>> \o Tail(s))[i] = s[i]
  BY <1>1, <1>4, <1>5
<1> QED BY <1>1, <1>2, <1>3, <1>4, <1>6, <1>7, <1>8

LEMMA ActAt ==
  ASSUME GoodActions, NEW a \in Action, actions[a].at # "idle"
  PROVE  /\ actions[a] \in GoodAct /\ actions[a].op # "none"
         /\ actions[a].todo \in Seq(Task) /\ actions[a].todo # <<>>
         /\ Len(actions[a].todo) \in Nat \ {0}
         /\ Now(a) \in Task /\ Now(a) = actions[a].todo[1] /\ Sound(Now(a))
<1>1. actions[a] \in GoodAct
  BY DEF GoodActions
<1>2. actions[a].op # "none" /\ actions[a].todo \in Seq(Task) /\ actions[a].todo # <<>>
  BY <1>1 DEF GoodAct, Act
<1>3. Len(actions[a].todo) \in Nat \ {0}
  BY <1>2, EmptySeq
<1>4. Now(a) = actions[a].todo[1] /\ Now(a) \in Task
  BY <1>2, HeadTailProperties DEF Now
<1>5. Sound(Now(a))
  BY <1>3, <1>4 DEF GoodActions
<1> QED BY <1>1, <1>2, <1>3, <1>4, <1>5

-----------------------------------------------------------------------------
(* What a step does to the server *)

\* A folder is renumbered, or what its uids name stays or goes.
Follows ==
  \A f \in Folder :
    \/ uidValidity'[f] > uidValidity[f]
    \/ /\ uidValidity'[f] = uidValidity[f] /\ uidNext'[f] >= uidNext[f]
       /\ \A d \in copies' : d.folder = f /\ d.uid < uidNext[f] =>
            \E c \in copies : c.folder = f /\ c.uid = d.uid /\ c.msg = d.msg

LEMMA NamesKept ==
  ASSUME GoodServer, GoodServer', Follows, NEW t, t.folder \in Folder, t.uid \in Nat, Names(t),
         uidValidity'[t.folder] = uidValidity[t.folder]
  PROVE  Names(t)'
<1>1. /\ uidNext'[t.folder] >= uidNext[t.folder]
      /\ \A d \in copies' : d.folder = t.folder /\ d.uid < uidNext[t.folder] =>
           \E c \in copies : c.folder = t.folder /\ c.uid = d.uid /\ c.msg = d.msg
  <2>1. uidValidity[t.folder] \in Nat
    BY DEF GoodServer
  <2> QED BY <2>1 DEF Follows
<1>2. uidNext[t.folder] \in Nat /\ uidNext'[t.folder] \in Nat
  BY DEF GoodServer
<1>3. t.uid < uidNext'[t.folder]
  BY <1>1, <1>2 DEF Names
<1>4. ASSUME NEW d \in Named(t)'
      PROVE  d.msg = t.msg
  <2>1. d \in copies' /\ d.folder = t.folder /\ d.uid = t.uid
    BY <1>4 DEF Named
  <2>2. PICK c \in copies : c.folder = t.folder /\ c.uid = d.uid /\ c.msg = d.msg
    BY <1>1, <2>1 DEF Names
  <2>3. c \in Named(t)
    BY <2>1, <2>2 DEF Named
  <2> QED BY <2>2, <2>3 DEF Names
<1> QED BY <1>3, <1>4 DEF Names

LEMMA SoundKept ==
  ASSUME GoodServer, GoodServer', Follows,
         NEW t, t.folder \in Folder, t.uid \in Nat, t.validity \in Nat, Sound(t)
  PROVE  Sound(t)'
<1>1. uidValidity[t.folder] \in Nat /\ uidValidity'[t.folder] \in Nat
  BY DEF GoodServer
<1>2. CASE uidValidity'[t.folder] > uidValidity[t.folder]
  BY <1>1, <1>2 DEF Sound
<1>3. CASE uidValidity'[t.folder] = uidValidity[t.folder]
  <2>1. Names(t) => Names(t)'
    BY <1>3, NamesKept
  <2> QED BY <1>1, <1>3, <2>1 DEF Sound
<1> QED BY <1>2, <1>3 DEF Follows

LEMMA ServerSame ==
  ASSUME GoodServer, UNCHANGED server
  PROVE  GoodServer' /\ Follows
<1>1. GoodServer'
  BY DEF GoodServer, server
<1>2. Follows
  <2> SUFFICES ASSUME NEW f \in Folder
               PROVE  uidValidity'[f] = uidValidity[f] /\ uidNext'[f] >= uidNext[f]
    BY DEF Follows, server
  <2> QED BY DEF GoodServer, server
<1> QED BY <1>1, <1>2

LEMMA NamedAtMostOne ==
  ASSUME GoodServer, NEW t
  PROVE  /\ Named(t) \subseteq copies /\ IsFiniteSet(Named(t))
         /\ \A c, d \in Named(t) : c = d
         /\ Cardinality(Named(t)) = IF Named(t) = {} THEN 0 ELSE 1
<1>1. Named(t) \subseteq copies
  BY DEF Named
<1>2. \A c, d \in Named(t) : c = d
  BY DEF Named, GoodServer
<1>3. IsFiniteSet(Named(t))
  BY <1>1, FS_Subset DEF GoodServer
<1>4. CASE Named(t) = {}
  BY <1>1, <1>2, <1>3, <1>4, FS_EmptySet
<1>5. CASE Named(t) # {}
  <2>1. PICK c : c \in Named(t)
    BY <1>5
  <2>2. Named(t) = {c}
    BY <1>2, <2>1
  <2> QED BY <1>1, <1>2, <1>3, <1>5, <2>2, FS_Singleton
<1> QED BY <1>4, <1>5

LEMMA CopyFields ==
  ASSUME GoodServer, NEW c \in copies
  PROVE  /\ c \in Copy /\ c.msg \in Msg /\ c.folder \in Folder /\ c.uid \in Nat
         /\ c.keywords \in SUBSET Keyword
         /\ uidNext[c.folder] \in Nat /\ c.uid < uidNext[c.folder]
         /\ uidValidity[c.folder] \in Nat \ {0}
BY DEF GoodServer, Copy

LEMMA Removed ==
  ASSUME GoodServer, NEW gone, copies' = copies \ gone,
         UNCHANGED <<hasMove, uidValidity, uidNext>>
  PROVE  GoodServer' /\ Follows
<1>1. IsFiniteSet(copies')
  BY FS_Subset DEF GoodServer
<1>2. GoodServer'
  BY <1>1 DEF GoodServer
<1>3. Follows
  <2> SUFFICES ASSUME NEW f \in Folder
               PROVE  uidValidity'[f] = uidValidity[f] /\ uidNext'[f] >= uidNext[f]
    BY DEF Follows
  <2> QED BY DEF GoodServer
<1> QED BY <1>2, <1>3

LEMMA StoredKeywords ==
  ASSUME NEW kw \in SUBSET Keyword, NEW f, NEW failed
  PROVE  Stored(kw, f, failed) \in SUBSET kw
BY DEF Stored

LEMMA Tagged ==
  ASSUME GoodServer, NEW cs \in SUBSET copies,
         NEW add \in SUBSET Keyword, NEW remove \in SUBSET Keyword, NEW failed,
         StoreKeywords(cs, add, remove, failed), UNCHANGED <<hasMove, uidValidity, uidNext>>
  PROVE  /\ GoodServer' /\ Follows
         /\ \A d \in copies' : \E c \in copies : c.folder = d.folder /\ c.uid = d.uid /\ c.msg = d.msg
         /\ \A c \in copies : \E d \in copies' : d.msg = c.msg
<1> DEFINE Tag(c) == [c EXCEPT !.keywords = (@ \ Stored(remove, c.folder, failed))
                                              \cup Stored(add, c.folder, failed)]
           F == [c \in cs |-> Tag(c)]
           T == {Tag(c) : c \in cs}
<1>0. copies' = (copies \ cs) \cup T
  BY DEF StoreKeywords
<1>1. \A c \in cs : /\ Tag(c) \in Copy /\ Tag(c).folder = c.folder /\ Tag(c).uid = c.uid
                    /\ Tag(c).msg = c.msg
  BY CopyFields, StoredKeywords DEF Copy
<1>2. IsFiniteSet(T)
  <2>1. F \in Surjection(cs, T)
    BY DEF Surjection
  <2>2. IsFiniteSet(cs)
    BY FS_Subset DEF GoodServer
  <2> HIDE DEF F, T, Tag
  <2> QED BY <2>1, <2>2, FS_Surjection
<1>3. IsFiniteSet(copies')
  <2>1. IsFiniteSet(copies \ cs)
    BY FS_Subset DEF GoodServer
  <2> HIDE DEF T
  <2> QED BY <1>0, <1>2, <2>1, FS_Union
<1>4. \A d \in copies' : d \in copies \ cs \/ \E c \in cs : d = Tag(c)
  BY <1>0
<1>5. \A d \in copies' : \E c \in copies :
        /\ c.folder = d.folder /\ c.uid = d.uid /\ c.msg = d.msg
        /\ d = IF c \in cs THEN Tag(c) ELSE c
  <2> HIDE DEF Tag
  <2> QED BY <1>1, <1>4
<1>6. \A c \in copies : \E d \in copies' : d.msg = c.msg
  <2>1. \A c \in cs : Tag(c) \in copies'
    BY <1>0
  <2> HIDE DEF Tag
  <2> QED BY <1>0, <1>1, <2>1
<1>7. copies' \subseteq Copy
  <2>1. T \subseteq Copy
    <3> HIDE DEF Tag
    <3> QED BY <1>1
  <2> HIDE DEF T
  <2> QED BY <1>0, <2>1 DEF GoodServer
<1>8. GoodServer'
  <2>1. \A c, d \in copies' : c.folder = d.folder /\ c.uid = d.uid => c = d
    <3> HIDE DEF Tag
    <3> QED BY <1>5 DEF GoodServer
  <2>2. \A d \in copies' : d.uid < uidNext'[d.folder]
    <3> HIDE DEF Tag
    <3> QED BY <1>5 DEF GoodServer
  <2> QED BY <1>3, <1>7, <2>1, <2>2 DEF GoodServer
<1>9. Follows
  <2> HIDE DEF Tag
  <2> SUFFICES ASSUME NEW f \in Folder
               PROVE  uidValidity'[f] = uidValidity[f] /\ uidNext'[f] >= uidNext[f]
    BY <1>5 DEF Follows
  <2> QED BY DEF GoodServer
<1> QED
  <2> HIDE DEF Tag
  <2> QED BY <1>5, <1>6, <1>8, <1>9

LEMMA LandedOne ==
  ASSUME GoodServer, NEW c \in copies, NEW to \in Folder
  PROVE  \E d \in Copy : /\ Landed({c}, to) = {d} /\ d \notin copies
                         /\ d.msg = c.msg /\ d.folder = to /\ d.uid = uidNext[to]
<1> DEFINE d == [c EXCEPT !.folder = to, !.uid = uidNext[to]]
<1>1. uidNext[to] \in Nat
  BY DEF GoodServer
<1>2. d \in Copy /\ d.msg = c.msg /\ d.folder = to /\ d.uid = uidNext[to]
  BY <1>1, CopyFields DEF Copy
<1>3. Landed({c}, to) = {d}
  BY DEF Landed
<1>4. d \notin copies
  <2> SUFFICES ASSUME d \in copies PROVE FALSE
    OBVIOUS
  <2>1. d.uid < uidNext[d.folder]
    BY DEF GoodServer
  <2> HIDE DEF d
  <2> QED BY <1>1, <1>2, <2>1
<1> HIDE DEF d
<1> QED BY <1>2, <1>3, <1>4

\* A copy lands; the original goes with it, or not.
LEMMA Lands ==
  ASSUME GoodServer, NEW hit \in SUBSET copies, \A c, d \in hit : c = d,
         NEW gone \in SUBSET hit, NEW to \in Folder,
         copies' = (copies \ gone) \cup Landed(hit, to),
         uidNext' = [uidNext EXCEPT ![to] = @ + (IF hit = {} THEN 0 ELSE 1)],
         UNCHANGED <<hasMove, uidValidity>>
  PROVE  /\ GoodServer' /\ Follows
         /\ \A c \in hit : \E d \in copies' :
              d \notin copies /\ d.msg = c.msg /\ d.folder = to /\ d.uid = uidNext[to]
         /\ \A d \in copies' : d \in copies \ gone \/ (d \notin copies /\ \E c \in hit : d.msg = c.msg)
         /\ \A c, d \in copies' : c \notin copies /\ d \notin copies => c = d
         /\ hit = {} => copies' = copies
<1>1. CASE hit = {}
  <2>1. Landed(hit, to) = {} /\ gone = {}
    BY <1>1 DEF Landed
  <2>2. copies' = copies
    BY <2>1
  <2>3. uidNext[to] \in Nat
    BY DEF GoodServer
  <2>4. uidNext' = uidNext
    BY <1>1, <2>3 DEF GoodServer
  <2>5. GoodServer' /\ Follows
    BY <2>2, <2>4, ServerSame DEF server
  <2> QED BY <1>1, <2>2, <2>5
<1>2. CASE hit # {}
  <2>1. PICK c \in copies : hit = {c}
    BY <1>2
  <2>2. PICK d \in Copy : /\ Landed({c}, to) = {d} /\ d \notin copies
                          /\ d.msg = c.msg /\ d.folder = to /\ d.uid = uidNext[to]
    BY LandedOne
  <2>3. copies' = (copies \ gone) \cup {d}
    BY <2>1, <2>2
  <2>4. IsFiniteSet(copies')
    <3>1. IsFiniteSet(copies \ gone)
      BY FS_Subset DEF GoodServer
    <3> QED BY <2>3, <3>1, FS_AddElement
  <2>5. /\ uidNext' \in [Folder -> Nat]
        /\ uidNext'[to] = uidNext[to] + 1 /\ uidNext[to] \in Nat
        /\ \A f \in Folder : uidNext'[f] >= uidNext[f] /\ uidNext[f] \in Nat
    BY <1>2 DEF GoodServer
  <2>6. GoodServer'
    <3>1. copies' \subseteq Copy
      BY <2>2, <2>3 DEF GoodServer
    <3>2. \A e \in copies' : e.uid < uidNext'[e.folder]
      <4> SUFFICES ASSUME NEW e \in copies' PROVE e.uid < uidNext'[e.folder]
        OBVIOUS
      <4>1. CASE e = d
        BY <2>2, <2>5, <4>1
      <4>2. CASE e \in copies
        BY <2>5, <4>2, CopyFields
      <4> QED BY <2>3, <4>1, <4>2
    <3>3. \A e \in copies : ~(e.folder = d.folder /\ e.uid = d.uid)
      BY <2>2, <2>5, CopyFields
    <3>4. \A x, y \in copies' : x.folder = y.folder /\ x.uid = y.uid => x = y
      BY <2>3, <3>3 DEF GoodServer
    <3> QED BY <2>4, <2>5, <3>1, <3>2, <3>4 DEF GoodServer
  <2>7. Follows
    <3> SUFFICES ASSUME NEW f \in Folder
                 PROVE  /\ uidValidity'[f] = uidValidity[f] /\ uidNext'[f] >= uidNext[f]
                        /\ \A e \in copies' : e.folder = f /\ e.uid < uidNext[f] => e \in copies
      BY DEF Follows
    <3> QED BY <2>2, <2>3, <2>5
  <2> QED BY <2>1, <2>2, <2>3, <2>6, <2>7
<1> QED BY <1>1, <1>2

LEMMA Renumbered ==
  ASSUME GoodServer, NEW f \in Folder, Renumber(f)
  PROVE  /\ GoodServer' /\ Follows
         /\ uidValidity' = [uidValidity EXCEPT ![f] = @ + 1]
         /\ \A d \in copies' : \E c \in copies :
              c.msg = d.msg /\ c.folder = d.folder /\ (c.folder # f => c = d)
         /\ \A c \in copies : \E d \in copies' :
              d.msg = c.msg /\ d.folder = c.folder /\ (c.folder # f => c = d)
         /\ \A c, d \in copies' : c # d => \E x, y \in copies :
              /\ x # y /\ x.msg = c.msg /\ y.msg = d.msg
              /\ x.folder = c.folder /\ (c.folder # f => x = c)
              /\ y.folder = d.folder /\ (d.folder # f => y = d)
<1> DEFINE old == {c \in copies : c.folder = f}
           n == Cardinality(old)
<1>1. IsFiniteSet(old) /\ n \in Nat
  <2>1. IsFiniteSet(old)
    BY FS_Subset DEF GoodServer
  <2> QED BY <2>1, FS_CardinalityType
<1>2. PICK uid \in [old -> 1..n] :
        /\ IsInjective(uid)
        /\ copies' = (copies \ old) \cup {[c EXCEPT !.uid = uid[c]] : c \in old}
  BY DEF Renumber
<1> DEFINE New(c) == [c EXCEPT !.uid = uid[c]]
           F == [c \in old |-> New(c)]
           T == {New(c) : c \in old}
<1> HIDE DEF n
<1>3. \A c \in old : uid[c] \in Nat /\ uid[c] <= n
  BY <1>1, <1>2
<1>4. \A c \in old : /\ New(c) \in Copy /\ New(c).msg = c.msg /\ New(c).folder = f
                     /\ New(c).uid = uid[c]
  BY <1>3, CopyFields DEF Copy
<1>5. copies' = (copies \ old) \cup T
  BY <1>2
<1>6. /\ UNCHANGED hasMove
      /\ uidValidity' = [uidValidity EXCEPT ![f] = @ + 1]
      /\ uidNext' = [uidNext EXCEPT ![f] = n + 1]
  BY DEF Renumber, n
<1>7. IsFiniteSet(T)
  <2>1. F \in Surjection(old, T)
    BY DEF Surjection
  <2> HIDE DEF F, T, New, old
  <2> QED BY <1>1, <2>1, FS_Surjection
<1>8. IsFiniteSet(copies')
  <2>1. IsFiniteSet(copies \ old)
    BY FS_Subset DEF GoodServer
  <2> HIDE DEF T, old
  <2> QED BY <1>5, <1>7, <2>1, FS_Union
<1> HIDE DEF New
<1>9. \A d \in copies' : (d \in copies /\ d.folder # f) \/ \E c \in old : d = New(c)
  BY <1>5
<1>10. copies' \subseteq Copy
  BY <1>4, <1>9 DEF GoodServer
<1>11. \A c, d \in old : New(c).uid = New(d).uid => c = d
  BY <1>2, <1>4 DEF IsInjective
<1>12. \A c, d \in copies' : c.folder = d.folder /\ c.uid = d.uid => c = d
  <2> SUFFICES ASSUME NEW c \in copies', NEW d \in copies', c.folder = d.folder, c.uid = d.uid
               PROVE  c = d
    OBVIOUS
  <2>1. CASE c.folder # f
    <3>1. c \in copies /\ d \in copies
      BY <1>4, <1>9, <2>1
    <3> QED BY <3>1 DEF GoodServer
  <2>2. CASE c.folder = f
    <3>1. PICK x \in old : c = New(x)
      BY <1>9, <2>2
    <3>2. PICK y \in old : d = New(y)
      BY <1>9, <2>2
    <3> QED BY <1>11, <3>1, <3>2
  <2> QED BY <2>1, <2>2
<1>13. \A d \in copies' : d.uid < uidNext'[d.folder]
  <2> SUFFICES ASSUME NEW d \in copies' PROVE d.uid < uidNext'[d.folder]
    OBVIOUS
  <2>1. CASE d \in copies /\ d.folder # f
    BY <1>6, <2>1, CopyFields DEF GoodServer
  <2>2. CASE \E c \in old : d = New(c)
    <3>1. uidNext'[f] = n + 1
      BY <1>6 DEF GoodServer
    <3> QED BY <1>1, <1>3, <1>4, <2>2, <3>1
  <2> QED BY <1>9, <2>1, <2>2
<1>14. GoodServer'
  <2>1. n + 1 \in Nat /\ uidValidity[f] + 1 \in Nat \ {0}
    BY <1>1 DEF GoodServer
  <2>2. uidNext' \in [Folder -> Nat] /\ uidValidity' \in [Folder -> Nat \ {0}]
    BY <1>6, <2>1 DEF GoodServer
  <2> QED BY <1>6, <1>8, <1>10, <1>12, <1>13, <2>2 DEF GoodServer
<1>15. Follows
  <2> SUFFICES ASSUME NEW g \in Folder
               PROVE  \/ uidValidity'[g] > uidValidity[g]
                      \/ /\ uidValidity'[g] = uidValidity[g] /\ uidNext'[g] >= uidNext[g]
                         /\ \A d \in copies' : d.folder = g => d \in copies
    BY DEF Follows
  <2>1. CASE g = f
    BY <1>6, <2>1 DEF GoodServer
  <2>2. CASE g # f
    <3>1. \A d \in copies' : d.folder = g => d \in copies
      BY <1>4, <1>9, <2>2
    <3> QED BY <1>6, <2>2, <3>1 DEF GoodServer
  <2> QED BY <2>1, <2>2
<1>16. \A d \in copies' : \E c \in copies :
         c.msg = d.msg /\ c.folder = d.folder /\ (c.folder # f => c = d)
  BY <1>4, <1>9
<1>17. \A c \in copies : \E d \in copies' :
         d.msg = c.msg /\ d.folder = c.folder /\ (c.folder # f => c = d)
  <2> SUFFICES ASSUME NEW c \in copies
               PROVE  \E d \in copies' :
                        d.msg = c.msg /\ d.folder = c.folder /\ (c.folder # f => c = d)
    OBVIOUS
  <2>1. CASE c \in old
    <3>1. New(c) \in copies'
      BY <1>5, <2>1
    <3> QED BY <1>4, <2>1, <3>1
  <2>2. CASE c \notin old
    BY <1>5, <2>2
  <2> QED BY <2>1, <2>2
<1>18. \A c, d \in copies' : c # d => \E x, y \in copies :
         /\ x # y /\ x.msg = c.msg /\ y.msg = d.msg
         /\ x.folder = c.folder /\ (c.folder # f => x = c)
         /\ y.folder = d.folder /\ (d.folder # f => y = d)
  <2> SUFFICES ASSUME NEW c \in copies', NEW d \in copies', c # d
               PROVE  \E x, y \in copies :
                        /\ x # y /\ x.msg = c.msg /\ y.msg = d.msg
                        /\ x.folder = c.folder /\ (c.folder # f => x = c)
                        /\ y.folder = d.folder /\ (d.folder # f => y = d)
    OBVIOUS
  <2>1. PICK x \in copies : /\ x.msg = c.msg /\ x.folder = c.folder
                            /\ IF c.folder # f THEN x = c ELSE x \in old /\ c = New(x)
    BY <1>4, <1>9
  <2>2. PICK y \in copies : /\ y.msg = d.msg /\ y.folder = d.folder
                            /\ IF d.folder # f THEN y = d ELSE y \in old /\ d = New(y)
    BY <1>4, <1>9
  <2>3. x # y
    BY <2>1, <2>2
  <2> QED BY <2>1, <2>2, <2>3
<1> QED BY <1>6, <1>14, <1>15, <1>16, <1>17, <1>18

-----------------------------------------------------------------------------
(* What a step does to the rows and to the actions *)

LEMMA TaskFields ==
  ASSUME NEW t \in Task
  PROVE  /\ t.msg \in Msg /\ t.folder \in Folder /\ t.uid \in Nat /\ t.validity \in Nat
         /\ t.to \in Folder
BY DEF Task

LEMMA Headed ==
  ASSUME NEW t \in Task, NEW to \in Folder
  PROVE  \E u \in Task : /\ u = [t EXCEPT !.to = to]
                         /\ u.folder = t.folder /\ u.uid = t.uid
                         /\ u.validity = t.validity /\ u.msg = t.msg
<1> DEFINE u == [t EXCEPT !.to = to]
<1>1. u \in Task /\ u.folder = t.folder /\ u.uid = t.uid
      /\ u.validity = t.validity /\ u.msg = t.msg
  BY DEF Task
<1> HIDE DEF u
<1>2. \E v \in Task : /\ v = u
                      /\ v.folder = t.folder /\ v.uid = t.uid
                      /\ v.validity = t.validity /\ v.msg = t.msg
  BY <1>1
<1> QED BY <1>2 DEF u

LEMMA Found ==
  ASSUME NEW t \in Task, NEW uid \in Nat
  PROVE  \E u \in Task : /\ u = [t EXCEPT !.uid = uid]
                         /\ u.folder = t.folder /\ u.uid = uid
                         /\ u.validity = t.validity /\ u.msg = t.msg
<1> DEFINE u == [t EXCEPT !.uid = uid]
<1>1. u \in Task /\ u.folder = t.folder /\ u.uid = uid
      /\ u.validity = t.validity /\ u.msg = t.msg
  BY DEF Task
<1> HIDE DEF u
<1>2. \E v \in Task : /\ v = u
                      /\ v.folder = t.folder /\ v.uid = uid
                      /\ v.validity = t.validity /\ v.msg = t.msg
  BY <1>1
<1> QED BY <1>2 DEF u

LEMMA RowFields ==
  ASSUME NEW r \in Row
  PROVE  r.msg \in Msg /\ r.folder \in Folder /\ r.uid \in Nat /\ r.validity \in Nat
BY DEF Row

LEMMA RowsKept ==
  ASSUME GoodServer, GoodServer', Follows, GoodStore, rows' \subseteq rows,
         spamOrigins' \in [Msg -> Folder \cup {NoFolder}]
  PROVE  GoodStore'
<1>1. IsFiniteSet(rows')
  BY FS_Subset DEF GoodStore
<1>2. \A r \in rows' : Sound(r)'
  <2> SUFFICES ASSUME NEW r \in rows' PROVE Sound(r)'
    OBVIOUS
  <2>1. r \in Row /\ Sound(r)
    BY DEF GoodStore
  <2> QED BY <2>1, RowFields, SoundKept
<1> QED BY <1>1, <1>2 DEF GoodStore

\* The folder of the action that holds syncMu is not renumbered.
Held == syncMu # NoAction =>
          uidValidity'[Now(syncMu).folder] = uidValidity[Now(syncMu).folder]

LEMMA ActionKept ==
  ASSUME GoodServer, GoodServer', Follows, GoodActions, Held,
         NEW b \in Action, actions'[b] = actions[b]
  PROVE  /\ \A i \in 1..Len(actions[b].todo) : Sound(actions[b].todo[i])'
         /\ actions[b].op = "undo" /\ actions[b].at \in Holding => Names(Now(b))'
<1>1. actions[b].todo \in Seq(Task)
  BY DEF GoodActions, GoodAct, Act
<1>2. ASSUME NEW i \in 1..Len(actions[b].todo)
      PROVE  Sound(actions[b].todo[i])'
  <2> DEFINE t == actions[b].todo[i]
  <2>1. t \in Task
    BY <1>1, ElementOfSeq
  <2>2. Sound(t)
    BY DEF GoodActions
  <2> HIDE DEF t
  <2>3. Sound(t)'
    <3>1. t = t'
      BY DEF t
    <3> QED BY <2>1, <2>2, <3>1, TaskFields, SoundKept
  <2> QED BY <2>3 DEF t
<1>3. ASSUME actions[b].op = "undo", actions[b].at \in Holding
      PROVE  Names(Now(b))'
  <2>1. syncMu = b /\ Names(Now(b)) /\ b # NoAction
    BY <1>3 DEF GoodActions
  <2>2. Now(b) \in Task
    BY <1>3, ActAt DEF Holding
  <2>3. uidValidity'[Now(b).folder] = uidValidity[Now(b).folder]
    BY <2>1 DEF Held
  <2> DEFINE t == Now(b)
  <2>4. t' = t
    BY DEF Now
  <2> HIDE DEF t
  <2>5. Names(t)'
    BY <2>1, <2>2, <2>3, <2>4, TaskFields, NamesKept DEF t
  <2> QED BY <2>5 DEF t
<1> QED BY <1>2, <1>3

LEMMA ActionsSame ==
  ASSUME GoodServer, GoodServer', Follows, GoodActions, Held,
         UNCHANGED <<syncMu, actions, archived>>
  PROVE  GoodActions'
<1>1. \A b \in Action : actions'[b] = actions[b]
  OBVIOUS
<1>2. \A b \in Action : /\ \A i \in 1..Len(actions[b].todo) : Sound(actions[b].todo[i])'
                        /\ actions[b].op = "undo" /\ actions[b].at \in Holding => Names(Now(b))'
  BY <1>1, ActionKept
<1> QED BY <1>2 DEF GoodActions

\* An action goes on as x.
LEMMA ActionsPut ==
  ASSUME GoodServer, GoodServer', Follows, GoodActions, Held,
         NEW a \in Action, NEW x \in GoodAct, actions' = [actions EXCEPT ![a] = x],
         archived' \in Seq(Seq(Task) \ {<<>>}),
         \A i \in 1..Len(x.todo) : Sound(x.todo[i])',
         x.op = "undo" /\ x.at \in Holding => Names(Head(x.todo))',
         x.at \in Holding <=> syncMu' = a,
         syncMu' = syncMu \/ (syncMu \in {a, NoAction} /\ syncMu' \in {a, NoAction})
  PROVE  GoodActions'
<1>1. actions' \in [Action -> GoodAct] /\ actions'[a] = x
  BY DEF GoodActions
<1>2. syncMu' \in Action \cup {NoAction}
  BY DEF GoodActions
<1>3. ASSUME NEW b \in Action
      PROVE  /\ actions'[b].at \in Holding <=> syncMu' = b
             /\ \A i \in 1..Len(actions'[b].todo) : Sound(actions[b].todo[i])'
             /\ actions'[b].op = "undo" /\ actions'[b].at \in Holding => Names(Now(b))'
  <2>1. CASE b = a
    <3>1. Now(a)' = Head(x.todo)
      BY <1>1 DEF Now
    <3>2. actions[a] \in GoodAct
      BY DEF GoodActions
    <3>3. Head(x.todo)' = Head(x.todo) /\ x' = x
      OBVIOUS
    <3>4. \A i \in 1..Len(x.todo) : Sound(actions[a].todo[i])'
      BY <1>1
    <3>5. x.op = "undo" /\ x.at \in Holding => Names(Now(a))'
      BY <3>1
    <3> QED BY <1>1, <2>1, <3>4, <3>5
  <2>2. CASE b # a
    <3>1. actions'[b] = actions[b]
      BY <2>2 DEF GoodActions
    <3>2. actions[b].at \in Holding <=> syncMu' = b
      BY <2>2 DEF GoodActions
    <3>3. /\ \A i \in 1..Len(actions[b].todo) : Sound(actions[b].todo[i])'
          /\ actions[b].op = "undo" /\ actions[b].at \in Holding => Names(Now(b))'
      BY <3>1, ActionKept
    <3> QED BY <3>1, <3>2, <3>3
  <2> QED BY <2>1, <2>2
<1> QED BY <1>1, <1>2, <1>3 DEF GoodActions

LEMMA FinishGood ==
  ASSUME GoodActions, NEW a \in Action, actions[a].at # "idle",
         NEW done \in Seq(Task), Finish(a, done)
  PROVE  /\ archived' \in Seq(Seq(Task) \ {<<>>})
         /\ \E x \in GoodAct :
              /\ actions' = [actions EXCEPT ![a] = x]
              /\ x.at \notin Holding
              /\ \A i \in 1..Len(x.todo) : /\ i + 1 \in 1..Len(actions[a].todo)
                                           /\ x.todo[i] = actions[a].todo[i + 1]
<1> DEFINE act == actions[a]
<1>1. act \in GoodAct /\ act.op # "none" /\ act.todo \in Seq(Task) /\ act.todo # <<>>
      /\ Len(act.todo) \in Nat \ {0}
  BY ActAt
<1>2. archived \in Seq(Seq(Task) \ {<<>>})
  BY DEF GoodActions
<1>3. CASE Len(act.todo) > 1
  <2> DEFINE x == [op |-> act.op, at |-> IF act.op = "undo" THEN "lock" ELSE "read",
                   todo |-> Tail(act.todo), done |-> done]
  <2>1. /\ Tail(act.todo) \in Seq(Task) /\ Len(Tail(act.todo)) = Len(act.todo) - 1
        /\ \A i \in 1..Len(Tail(act.todo)) : Tail(act.todo)[i] = act.todo[i + 1]
    BY <1>1, HeadTailProperties
  <2>2. Tail(act.todo) # <<>>
    <3> DEFINE n == Len(act.todo)
               k == Len(Tail(act.todo))
    <3>0. n \in Nat /\ n > 1 /\ k = n - 1
      BY <1>1, <1>3, <2>1
    <3>1. k # 0
      <4> HIDE DEF n, k
      <4> QED BY <3>0
    <3>2. Len(<<>>) = 0
      BY EmptySeq
    <3> QED BY <3>1, <3>2
  <2>3. x \in GoodAct
    BY <1>1, <2>1, <2>2 DEF GoodAct, Act
  <2>4. actions' = [actions EXCEPT ![a] = x] /\ archived' = archived
    BY <1>3 DEF Finish
  <2>5. x.at \notin Holding
    BY DEF Holding
  <2>6. \A i \in 1..Len(x.todo) : /\ i + 1 \in 1..Len(act.todo)
                                  /\ x.todo[i] = act.todo[i + 1]
    BY <1>1, <2>1
  <2> HIDE DEF x
  <2> QED BY <1>2, <2>3, <2>4, <2>5, <2>6
<1>4. CASE ~(Len(act.todo) > 1)
  <2>1. Idle \in GoodAct /\ Idle.at \notin Holding /\ Idle.todo = <<>>
    BY EmptySeq DEF Idle, GoodAct, Act, Holding
  <2>2. actions' = [actions EXCEPT ![a] = Idle]
    BY <1>4 DEF Finish
  <2>3. archived' \in Seq(Seq(Task) \ {<<>>})
    <3>1. archived' = IF act.op = "undo" \/ done = <<>> THEN archived ELSE Append(archived, done)
      BY <1>4 DEF Finish
    <3>2. done # <<>> => Append(archived, done) \in Seq(Seq(Task) \ {<<>>})
      BY <1>2, AppendProperties
    <3> QED BY <1>2, <3>1, <3>2
  <2>4. 1..Len(Idle.todo) = {}
    BY <2>1, EmptySeq
  <2> HIDE DEF act
  <2> QED BY <2>1, <2>2, <2>3, <2>4
<1> QED BY <1>3, <1>4

\* A message is over, and with it the hold on syncMu.
LEMMA FinishPut ==
  ASSUME GoodServer, UNCHANGED server, GoodActions, NEW a \in Action, actions[a].at # "idle",
         NEW done \in Seq(Task), Finish(a, done),
         syncMu' = IF syncMu = a THEN NoAction ELSE syncMu
  PROVE  GoodActions' /\ (\A b \in Action \ {a} : actions'[b] = actions[b])
           /\ actions'[a].at \notin Holding
<1>1. GoodServer' /\ Follows
  BY ServerSame
<1>2. Held
  BY DEF Held, server
<1>3. PICK x \in GoodAct :
        /\ actions' = [actions EXCEPT ![a] = x]
        /\ x.at \notin Holding
        /\ \A i \in 1..Len(x.todo) : /\ i + 1 \in 1..Len(actions[a].todo)
                                     /\ x.todo[i] = actions[a].todo[i + 1]
  BY FinishGood
<1>4. archived' \in Seq(Seq(Task) \ {<<>>})
  BY FinishGood
<1>5. ASSUME NEW i \in 1..Len(x.todo)
      PROVE  Sound(x.todo[i])'
  <2> DEFINE t == actions[a].todo[i + 1]
  <2>1. t \in Task /\ Sound(t)
    <3>1. actions[a].todo \in Seq(Task)
      BY ActAt
    <3> QED BY <1>3, <3>1, ElementOfSeq DEF GoodActions
  <2> DEFINE u == x.todo[i]
  <2>2. u = t
    BY <1>3
  <2> HIDE DEF t
  <2>3. u \in Task /\ Sound(u)
    BY <2>1, <2>2
  <2> HIDE DEF u
  <2>4. u' = u
    BY DEF u
  <2>5. Sound(u)'
    BY <1>1, <2>3, <2>4, TaskFields, SoundKept
  <2> QED BY <2>5 DEF u
<1>6. syncMu' # a /\ (syncMu' = syncMu \/ (syncMu = a /\ syncMu' = NoAction))
  OBVIOUS
<1>7. GoodActions'
  BY <1>1, <1>2, <1>3, <1>4, <1>5, <1>6, ActionsPut
<1> QED BY <1>3, <1>7 DEF GoodActions

-----------------------------------------------------------------------------
(* What a step does to what is about to be deleted *)

LEMMA RemoverHolds ==
  ASSUME GoodActions, NEW b \in Action, At(b, "remove")
  PROVE  syncMu = b
BY DEF GoodActions, At, Holding

\* With nothing about to be deleted there are no two of one.
LEMMA LoneCopies ==
  ASSUME Pairs, \A b \in Action : ~At(b, "remove"),
         NEW c \in copies, NEW d \in copies, c.msg = d.msg, c.msg \notin torn
  PROVE  c = d
BY DEF Pairs

\* What was about to be deleted still is, or stays and counts as torn.
LEMMA FateTorn ==
  ASSUME LInv, GoodServer, UNCHANGED <<copies, uidValidity>>, UNCHANGED astray,
         torn \subseteq torn',
         \A b \in Action : At(b, "remove") /\ ~At(b, "remove")' => Copied(b) \subseteq torn',
         \A b \in Action : At(b, "remove")' => actions'[b] = actions[b]
  PROVE  LInv'
<1>1. \A b \in Action : At(b, "remove")' =>
        /\ At(b, "remove")
        /\ Named(Now(b))' = Named(Now(b)) /\ Stale(b)' = Stale(b)
  <2> SUFFICES ASSUME NEW b \in Action, At(b, "remove")'
               PROVE  /\ At(b, "remove")
                      /\ Named(Now(b))' = Named(Now(b)) /\ Stale(b)' = Stale(b)
    OBVIOUS
  <2>1. actions'[b] = actions[b]
    OBVIOUS
  <2> QED BY <2>1 DEF At, Named, Now, Stale
<1>2. Spare'
  <2> SUFFICES ASSUME NEW b \in Action, At(b, "remove")', ~Stale(b)', NEW c \in Named(Now(b))'
               PROVE  \E d \in copies' : d # c /\ d.msg = c.msg
    BY DEF Spare
  <2> QED BY <1>1 DEF Spare, LInv
<1>3. NothingLost'
  BY DEF NothingLost, LInv, CopiesOf
<1>4. Pairs'
  <2> SUFFICES ASSUME NEW c \in copies', NEW d \in copies', c # d, c.msg = d.msg, c.msg \notin torn'
               PROVE  \E b \in Action : At(b, "remove")' /\ {c, d} \cap Named(Now(b))' # {}
    BY DEF Pairs
  <2>1. PICK b \in Action : At(b, "remove") /\ {c, d} \cap Named(Now(b)) # {}
    BY DEF Pairs, LInv
  <2>2. c.msg \in Copied(b)
    BY <2>1 DEF Copied
  <2>3. At(b, "remove")'
    BY <2>1, <2>2
  <2>4. Named(Now(b))' = Named(Now(b))
    BY <1>1, <2>3
  <2> QED BY <2>1, <2>3, <2>4
<1> QED BY <1>2, <1>3, <1>4 DEF LInv

-----------------------------------------------------------------------------
(* The user *)

LEMMA Spent ==
  ASSUME GoodHistory, Step \/ Trouble
  PROVE  left' \in [steps : 0..Steps, troubles : 0..Troubles]
<1>1. /\ left \in [steps : 0..Steps, troubles : 0..Troubles]
      /\ Steps \in Nat /\ Troubles \in Nat
  BY DEF GoodHistory
<1>2. /\ left.steps > 0 => left.steps - 1 \in 0..Steps
      /\ left.troubles > 0 => left.troubles - 1 \in 0..Troubles
      /\ left.troubles \in 0..Troubles
  BY <1>1
<1>3. CASE Step
  <2>1. left' = [steps |-> left.steps - 1, troubles |-> left.troubles]
    BY <1>1, <1>3 DEF Step
  <2> QED BY <1>2, <1>3, <2>1 DEF Step
<1>4. CASE Trouble
  BY <1>2, <1>4 DEF Trouble
<1> QED BY <1>3, <1>4

LEMMA Logged ==
  ASSUME GoodHistory, NEW failure, LoggedIf(failure)
  PROVE  left' \in [steps : 0..Steps, troubles : 0..Troubles]
BY Spent DEF LoggedIf, GoodHistory

LEMMA StartGood ==
  ASSUME MInv, LInv, NEW a \in Action, NEW op \in {"move", "spam", "notSpam", "undo"},
         NEW at \in {"read", "lock"}, NEW tasks \in Seq(Task), tasks # <<>>,
         \A i \in 1..Len(tasks) : Sound(tasks[i]),
         archived' \in Seq(Seq(Task) \ {<<>>}), Start(a, op, at, tasks)
  PROVE  MInv' /\ LInv'
<1> DEFINE x == [op |-> op, at |-> at, todo |-> tasks, done |-> <<>>]
<1>1. GoodServer' /\ Follows
  BY ServerSame DEF MInv, Start
<1>2. GoodStore'
  <2>1. rows' \subseteq rows /\ spamOrigins' = spamOrigins
    BY DEF Start, store
  <2> QED BY <1>1, <2>1, RowsKept DEF MInv, GoodStore
<1>3. x \in GoodAct
  <2>1. <<>> \in Seq(Task)
    BY EmptySeq
  <2> QED BY <2>1 DEF GoodAct, Act
<1>4. /\ actions' = [actions EXCEPT ![a] = x] /\ actions[a] = Idle
      /\ UNCHANGED <<server, syncMu, torn, astray>>
  BY DEF Start
<1>5. x.at \notin Holding /\ actions[a].at \notin Holding /\ actions[a].at # "remove"
  BY <1>4 DEF Holding, Idle
<1>6. \A i \in 1..Len(tasks) : Sound(tasks[i])'
  <2> SUFFICES ASSUME NEW i \in 1..Len(tasks) PROVE Sound(tasks[i])'
    OBVIOUS
  <2> DEFINE t == tasks[i]
  <2>1. t \in Task /\ Sound(t)
    BY ElementOfSeq
  <2> HIDE DEF t
  <2>2. t' = t
    BY DEF t
  <2>3. Sound(t)'
    BY <1>1, <2>1, <2>2, TaskFields, SoundKept DEF MInv
  <2> QED BY <2>3 DEF t
<1>7. GoodActions'
  <2>1. Held
    BY <1>4 DEF Held, server
  <2>2. x.todo = tasks
    OBVIOUS
  <2>3. x.at \in Holding <=> syncMu' = a
    BY <1>4, <1>5 DEF MInv, GoodActions
  <2> HIDE DEF x
  <2>4. \A i \in 1..Len(x.todo) : Sound(x.todo[i])'
    BY <1>6, <2>2
  <2> QED BY <1>1, <1>3, <1>4, <1>5, <2>1, <2>3, <2>4, ActionsPut DEF MInv
<1>8. GoodHistory'
  <2>1. MsgsOf(tasks) \subseteq Msg
    <3>1. \A i \in DOMAIN tasks : tasks[i].msg \in Msg
      BY ElementOfSeq, LenProperties, TaskFields
    <3> QED BY <3>1 DEF MsgsOf
  <2>2. left' \in [steps : 0..Steps, troubles : 0..Troubles]
    BY Spent DEF Start, MInv
  <2> QED BY <2>1, <2>2 DEF Start, MInv, GoodHistory
<1>9. LInv'
  <2>1. \A b \in Action : At(b, "remove") \/ At(b, "remove")' => actions'[b] = actions[b]
    <3> HIDE DEF x
    <3>1. actions'[a] = x /\ x.at # "remove" /\ \A b \in Action \ {a} : actions'[b] = actions[b]
      BY <1>4, <1>5 DEF MInv, GoodActions, Holding
    <3> QED BY <1>5, <3>1 DEF At
  <2>2. \A b \in Action : ~(At(b, "remove") /\ ~At(b, "remove")')
    BY <2>1 DEF At
  <2>3. UNCHANGED <<copies, uidValidity>>
    BY <1>4 DEF server
  <2> QED BY <1>4, <2>1, <2>2, <2>3, FateTorn DEF MInv
<1> QED BY <1>2, <1>1, <1>7, <1>8, <1>9 DEF MInv

LEMMA MoveRowsStarts ==
  ASSUME MInv, NEW a \in Action, NEW to \in Folder, MoveRows(a, to)
  PROVE  /\ UNCHANGED archived
         /\ \E tasks \in Seq(Task) : /\ tasks # <<>> /\ Start(a, "move", "read", tasks)
                                     /\ \A i \in 1..Len(tasks) : Sound(tasks[i])
<1>1. PICK rs \in SUBSET rows :
        /\ rs # {}
        /\ Start(a, "move", "read", [i \in 1..Cardinality(rs) |-> TaskFor(SetToSeq(rs)[i], to)])
        /\ UNCHANGED archived
  <2> DEFINE able == {r \in rows : to = Archive \/ r.folder # to}
             Starts(rs) == /\ Start(a, "move", "read",
                                    [i \in 1..Cardinality(rs) |-> TaskFor(SetToSeq(rs)[i], to)])
                           /\ UNCHANGED archived
  <2>1. \E rs \in (SUBSET able) \ {{}} : Starts(rs)
    BY DEF MoveRows
  <2>2. able \subseteq rows
    OBVIOUS
  <2> HIDE DEF able, Starts
  <2>3. PICK rs \in (SUBSET able) \ {{}} : Starts(rs)
    BY <2>1
  <2>4. rs \in SUBSET rows /\ rs # {}
    BY <2>2
  <2> QED BY <2>3, <2>4 DEF Starts
<1> DEFINE n == Cardinality(rs)
           q == SetToSeq(rs)
           tasks == [i \in 1..n |-> TaskFor(q[i], to)]
<1>2. IsFiniteSet(rs) /\ n \in Nat \ {0}
  <2>1. IsFiniteSet(rs)
    BY FS_Subset DEF MInv, GoodStore
  <2> QED BY <1>1, <2>1, FS_CardinalityType, FS_EmptySet
<1>3. q \in [1..n -> rs]
  <2>1. \E f \in [1..n -> rs] : IsInjective(f)
    BY <1>2, FS_CardinalityType DEF ExistsBijection, Bijection, Injection
  <2> HIDE DEF n
  <2> QED BY <2>1 DEF SetToSeq, n
<1> HIDE DEF n, q
<1>4. \A i \in 1..n : tasks[i] \in Task /\ Sound(tasks[i])
  <2> SUFFICES ASSUME NEW i \in 1..n PROVE tasks[i] \in Task /\ Sound(tasks[i])
    OBVIOUS
  <2> DEFINE r == q[i]
  <2>1. r \in Row /\ Sound(r)
    BY <1>3 DEF MInv, GoodStore
  <2> HIDE DEF r
  <2>2. TaskFor(r, to) \in Task /\ Sound(TaskFor(r, to))
    BY <2>1, RowFields DEF TaskFor, Task, Sound, Names, Named
  <2>3. tasks[i] = TaskFor(r, to)
    BY DEF r
  <2> HIDE DEF tasks
  <2> QED BY <2>2, <2>3
<1>5. tasks \in Seq(Task) /\ Len(tasks) = n
  <2>1. tasks \in [1..n -> Task]
    BY <1>4
  <2>2. tasks \in Seq(Task)
    <3> HIDE DEF tasks
    <3> QED BY <1>2, <2>1, SeqDef
  <2>3. DOMAIN tasks = 1..n
    OBVIOUS
  <2> HIDE DEF tasks
  <2> QED BY <1>2, <2>2, <2>3, LenProperties
<1>6. tasks # <<>>
  <2> HIDE DEF tasks
  <2> QED BY <1>2, <1>5, EmptySeq
<1>7. Start(a, "move", "read", tasks)
  BY <1>1 DEF n, q
<1> HIDE DEF tasks
<1> QED BY <1>1, <1>4, <1>5, <1>6, <1>7

LEMMA MoveRowsGood ==
  ASSUME MInv, LInv, NEW a \in Action, NEW to \in Folder, MoveRows(a, to)
  PROVE  MInv' /\ LInv'
BY MoveRowsStarts, StartGood DEF MInv, GoodActions

LEMMA ToggleSpamStarts ==
  ASSUME MInv, NEW a \in Action, ToggleSpam(a)
  PROVE  /\ UNCHANGED archived
         /\ \E t \in Task, op \in {"spam", "notSpam"} :
              /\ <<t>> \in Seq(Task) /\ <<t>> # <<>> /\ Start(a, op, "read", <<t>>)
              /\ \A i \in 1..Len(<<t>>) : Sound(<<t>>[i]) /\ <<t>>[i] = t
              /\ t.to = Junk /\ (op = "notSpam" => t.folder = Junk)
<1>1. PICK r \in rows :
        /\ Start(a, IF r.folder = Junk THEN "notSpam" ELSE "spam", "read", <<TaskFor(r, Junk)>>)
        /\ UNCHANGED archived
  BY DEF ToggleSpam
<1>2. PICK t : t = TaskFor(r, Junk)
  OBVIOUS
<1>3. t \in Task /\ Sound(t) /\ t.to = Junk /\ t.folder = r.folder
  <2>1. r \in Row /\ Sound(r) /\ Junk \in Folder
    BY DEF MInv, GoodStore, Folder
  <2> QED BY <1>2, <2>1, RowFields DEF TaskFor, Task, Sound, Names, Named
<1>4. PICK op \in {"spam", "notSpam"} : op = IF r.folder = Junk THEN "notSpam" ELSE "spam"
  OBVIOUS
<1>5. /\ <<t>> \in Seq(Task) /\ <<t>> # <<>>
      /\ \A i \in 1..Len(<<t>>) : <<t>>[i] = t
  BY <1>3
<1>6. Start(a, op, "read", <<t>>)
  BY <1>1, <1>2, <1>4
<1> QED BY <1>1, <1>3, <1>4, <1>5, <1>6

LEMMA ToggleSpamGood ==
  ASSUME MInv, LInv, NEW a \in Action, ToggleSpam(a)
  PROVE  MInv' /\ LInv'
<1>1. PICK t \in Task, op \in {"spam", "notSpam"} :
        /\ <<t>> \in Seq(Task) /\ <<t>> # <<>> /\ Start(a, op, "read", <<t>>)
        /\ \A i \in 1..Len(<<t>>) : Sound(<<t>>[i])
  BY ToggleSpamStarts
<1>2. archived' \in Seq(Seq(Task) \ {<<>>})
  BY ToggleSpamStarts DEF MInv, GoodActions
<1> QED BY <1>1, <1>2, StartGood

LEMMA UndoArchiveStarts ==
  ASSUME MInv, NEW a \in Action, UndoArchive(a)
  PROVE  /\ archived' \in Seq(Seq(Task) \ {<<>>}) /\ Last(archived) \in Seq(Task) \ {<<>>}
         /\ \E tasks \in Seq(Task) :
              /\ tasks # <<>> /\ Start(a, "undo", "lock", tasks)
              /\ Len(tasks) = Len(Last(archived))
              /\ \A i \in 1..Len(tasks) :
                   Sound(tasks[i]) /\ tasks[i] = Back(Last(archived)[i])
<1> DEFINE last == Last(archived)
           tasks == [i \in DOMAIN last |-> Back(last[i])]
<1>1. archived \in Seq(Seq(Task) \ {<<>>}) /\ archived # <<>>
  BY DEF MInv, GoodActions, UndoArchive
<1>2. Len(archived) \in Nat \ {0}
  BY <1>1, EmptySeq
<1>3. last \in Seq(Task) \ {<<>>}
  BY <1>1, <1>2, ElementOfSeq DEF Last
<1>4. archived' \in Seq(Seq(Task) \ {<<>>})
  <2>1. archived' = SubSeq(archived, 1, Len(archived) - 1)
    BY DEF UndoArchive, Front
  <2>2. \A i \in 1..(Len(archived) - 1) : archived[i] \in Seq(Task) \ {<<>>}
    BY <1>1, <1>2, ElementOfSeq
  <2>3. 1 \in Int /\ Len(archived) - 1 \in Int
    BY <1>2
  <2>4. SubSeq(archived, 1, Len(archived) - 1) \in Seq(Seq(Task) \ {<<>>})
    BY <2>2, <2>3, SubSeqProperties
  <2> QED BY <2>1, <2>4
<1> HIDE DEF last
<1>5. Len(last) \in Nat \ {0} /\ DOMAIN last = 1..Len(last)
  BY <1>3, EmptySeq, LenProperties
<1>6. \A i \in 1..Len(last) : tasks[i] \in Task /\ Sound(tasks[i])
  <2> SUFFICES ASSUME NEW i \in 1..Len(last) PROVE tasks[i] \in Task /\ Sound(tasks[i])
    OBVIOUS
  <2> DEFINE t == last[i]
  <2>1. t \in Task
    BY <1>3, ElementOfSeq
  <2> HIDE DEF t
  <2>2. Back(t) \in Task /\ Back(t).validity = 0 /\ Back(t).folder \in Folder
    BY <2>1 DEF Back, Task
  <2>3. uidValidity[Back(t).folder] \in Nat \ {0}
    BY <2>2 DEF MInv, GoodServer
  <2>4. Sound(Back(t))
    BY <2>2, <2>3 DEF Sound
  <2>5. tasks[i] = Back(t)
    BY <1>5 DEF t
  <2> HIDE DEF tasks
  <2> QED BY <2>2, <2>4, <2>5
<1>7. tasks \in Seq(Task) /\ Len(tasks) = Len(last)
  <2>1. tasks \in [1..Len(last) -> Task]
    BY <1>5, <1>6
  <2>2. tasks \in Seq(Task)
    <3> HIDE DEF tasks
    <3> QED BY <1>5, <2>1, SeqDef
  <2>3. DOMAIN tasks = 1..Len(last)
    BY <1>5
  <2> HIDE DEF tasks
  <2> QED BY <1>5, <2>2, <2>3, LenProperties
<1>8. tasks # <<>>
  <2> HIDE DEF tasks
  <2> QED BY <1>5, <1>7, EmptySeq
<1>9. Start(a, "undo", "lock", tasks)
  BY DEF UndoArchive, last
<1>10. \A i \in 1..Len(last) : tasks[i] = Back(last[i])
  BY <1>5
<1> HIDE DEF tasks
<1> QED BY <1>3, <1>4, <1>6, <1>7, <1>8, <1>9, <1>10 DEF last

LEMMA UndoArchiveGood ==
  ASSUME MInv, LInv, NEW a \in Action, UndoArchive(a)
  PROVE  MInv' /\ LInv'
BY UndoArchiveStarts, StartGood


-----------------------------------------------------------------------------
(* A message at a time *)

\* An action goes on at another point, with something learnt of its message.
LEMMA HeadPut ==
  ASSUME GoodServer, GoodServer', Follows, GoodActions, Held,
         NEW a \in Action, actions[a].at # "idle",
         NEW t \in Task, NEW at \in {"read", "lock", "move", "remove", "drop", "note"},
         actions' = [actions EXCEPT ![a].at = at, ![a].todo = <<t>> \o Tail(@)],
         UNCHANGED archived,
         Sound(t)', actions[a].op = "undo" /\ at \in Holding => Names(t)',
         at \in Holding <=> syncMu' = a,
         syncMu' = syncMu \/ (syncMu \in {a, NoAction} /\ syncMu' \in {a, NoAction})
  PROVE  /\ GoodActions'
         /\ actions'[a].at = at /\ actions'[a].op = actions[a].op /\ Now(a)' = t
         /\ \A b \in Action \ {a} : actions'[b] = actions[b]
<1> DEFINE todo == actions[a].todo
           next == <<t>> \o Tail(todo)
<1>1. actions[a] \in GoodAct /\ actions[a].op # "none" /\ todo \in Seq(Task) /\ todo # <<>>
      /\ Len(todo) \in Nat \ {0}
  BY ActAt
<1>2. /\ next \in Seq(Task) /\ next # <<>> /\ Len(next) = Len(todo) /\ next[1] = t
      /\ \A i \in 2..Len(todo) : next[i] = todo[i]
  BY <1>1, SetHead
<1>3. actions' = [actions EXCEPT ![a] =
        [op |-> actions[a].op, at |-> at, todo |-> next, done |-> actions[a].done]]
  <2>1. PICK r \in Act : r = actions[a]
    BY <1>1 DEF GoodAct
  <2> HIDE DEF next
  <2>2. actions' = [actions EXCEPT ![a] = [r EXCEPT !.at = at, !.todo = next]]
    BY <2>1 DEF next
  <2>3. [r EXCEPT !.at = at, !.todo = next] =
          [op |-> r.op, at |-> at, todo |-> next, done |-> r.done]
    BY Updated
  <2> QED BY <2>1, <2>2, <2>3
<1> HIDE DEF next
<1>4. PICK x \in GoodAct : x = [op |-> actions[a].op, at |-> at, todo |-> next,
                                done |-> actions[a].done]
  BY <1>1, <1>2 DEF GoodAct, Act
<1>5. ASSUME NEW i \in 1..Len(x.todo)
      PROVE  Sound(x.todo[i])'
  <2> DEFINE u == x.todo[i]
  <2>1. CASE i = 1
    <3>1. u = t
      BY <1>2, <1>4, <2>1
    <3> QED BY <3>1
  <2>2. CASE i # 1
    <3>1. i \in 1..Len(todo) /\ u = todo[i]
      BY <1>1, <1>2, <1>4, <2>2
    <3>2. todo[i] \in Task /\ Sound(todo[i])
      BY <1>1, <3>1, ElementOfSeq DEF GoodActions
    <3> HIDE DEF u
    <3>3. u \in Task /\ Sound(u)
      BY <3>1, <3>2
    <3>4. u' = u
      BY DEF u
    <3>5. Sound(u)'
      BY <3>3, <3>4, TaskFields, SoundKept
    <3> QED BY <3>5 DEF u
  <2> QED BY <2>1, <2>2
<1>6. Head(x.todo) = t /\ x.op = actions[a].op /\ x.at = at
  BY <1>2, <1>4
<1>7. actions' = [actions EXCEPT ![a] = x]
  BY <1>3, <1>4
<1>8. archived' \in Seq(Seq(Task) \ {<<>>})
  BY DEF GoodActions
<1>9. x.op = "undo" /\ x.at \in Holding => Names(Head(x.todo))'
  BY <1>6
<1>10. GoodActions'
  BY <1>5, <1>6, <1>7, <1>8, <1>9, ActionsPut
<1>11. actions'[a] = x /\ \A b \in Action \ {a} : actions'[b] = actions[b]
  BY <1>7 DEF GoodActions
<1> QED BY <1>6, <1>10, <1>11 DEF Now


LEMMA AtPut ==
  ASSUME GoodServer, GoodServer', Follows, GoodActions, Held,
         NEW a \in Action, actions[a].at # "idle",
         NEW at \in {"read", "lock", "move", "remove", "drop", "note"},
         Goes(a, at), UNCHANGED archived,
         NEW t, t = Now(a), actions[a].op = "undo" /\ at \in Holding => Names(t)',
         at \in Holding <=> syncMu' = a,
         syncMu' = syncMu \/ (syncMu \in {a, NoAction} /\ syncMu' \in {a, NoAction})
  PROVE  /\ GoodActions'
         /\ actions'[a].at = at /\ actions'[a].op = actions[a].op /\ Now(a)' = t
         /\ \A b \in Action \ {a} : actions'[b] = actions[b]
<1>1. /\ actions[a] \in GoodAct /\ actions[a].todo \in Seq(Task) /\ actions[a].todo # <<>>
      /\ t \in Task /\ t = actions[a].todo[1] /\ Sound(t) /\ Len(actions[a].todo) \in Nat \ {0}
  BY ActAt
<1>2. Sound(t)'
  BY <1>1, TaskFields, SoundKept
<1>3. <<t>> \o Tail(actions[a].todo) = actions[a].todo
  <2> DEFINE todo == actions[a].todo
             next == <<t>> \o Tail(todo)
  <2>1. /\ next \in Seq(Task) /\ Len(next) = Len(todo) /\ next[1] = t
        /\ \A i \in 2..Len(todo) : next[i] = todo[i]
    BY <1>1, SetHead
  <2>2. todo \in Seq(Task) /\ todo[1] = t /\ Len(todo) \in Nat
    BY <1>1
  <2> HIDE DEF next, todo
  <2>3. \A i \in 1..Len(next) : next[i] = todo[i]
    BY <2>1, <2>2
  <2>4. next = todo
    BY <2>1, <2>2, <2>3, SeqEqual
  <2> QED BY <2>4 DEF next, todo
<1>4. actions' = [actions EXCEPT ![a].at = at, ![a].todo = <<t>> \o Tail(@)]
  <2>1. PICK r \in Act : r = actions[a]
    BY <1>1 DEF GoodAct
  <2>2. actions' = [actions EXCEPT ![a] = [r EXCEPT !.at = at]]
    BY <2>1 DEF Goes
  <2>3. [r EXCEPT !.at = at] = [r EXCEPT !.at = at, !.todo = r.todo]
    <3> DEFINE x == [r EXCEPT !.at = at]
    <3>1. x \in [op : {r.op}, at : {at}, todo : {r.todo}, done : {r.done}]
      BY DEF Act
    <3>2. x = [op |-> x.op, at |-> x.at, todo |-> x.todo, done |-> x.done]
      <4> HIDE DEF x
      <4> QED BY <3>1
    <3>3. x.op = r.op /\ x.at = at /\ x.todo = r.todo /\ x.done = r.done
      BY DEF Act
    <3>4. [r EXCEPT !.at = at, !.todo = r.todo] =
            [op |-> r.op, at |-> at, todo |-> r.todo, done |-> r.done]
      BY Updated
    <3>5. x = [r EXCEPT !.at = at, !.todo = r.todo]
      <4> HIDE DEF x
      <4> QED BY <3>2, <3>3, <3>4
    <3> QED BY <3>5
  <2> DEFINE next == <<t>> \o Tail(actions[a].todo)
  <2>4. r.todo = next
    BY <1>3, <2>1
  <2> HIDE DEF next
  <2>5. actions' = [actions EXCEPT ![a] = [r EXCEPT !.at = at, !.todo = next]]
    BY <2>2, <2>3, <2>4
  <2>6. [actions EXCEPT ![a].at = at, ![a].todo = next] =
          [actions EXCEPT ![a] = [r EXCEPT !.at = at, !.todo = next]]
    BY <2>1 DEF GoodActions
  <2> QED BY <2>5, <2>6 DEF next
<1>5. t \in Task /\ actions[a].at # "idle"
  BY <1>1
<1>6. GoodActions'
  BY <1>2, <1>4, <1>5, HeadPut
<1>7. actions'[a].at = at /\ actions'[a].op = actions[a].op
  BY <1>1, <1>5 DEF Goes, GoodActions, GoodAct, Act
<1>8. actions'[a].todo = actions[a].todo
  BY <1>1, <1>5 DEF Goes, GoodActions, GoodAct, Act
<1>9. \A b \in Action \ {a} : actions'[b] = actions[b]
  BY DEF Goes, GoodActions
<1> QED BY <1>6, <1>7, <1>8, <1>9 DEF Now

LEMMA Stays ==
  ASSUME MInv, UNCHANGED <<server, store>>
  PROVE  GoodServer' /\ Follows /\ GoodStore' /\ Held
<1>1. GoodServer' /\ Follows
  BY ServerSame DEF MInv
<1>2. rows' \subseteq rows /\ spamOrigins' \in [Msg -> Folder \cup {NoFolder}]
  BY DEF store, MInv, GoodStore
<1>3. GoodStore'
  BY <1>1, <1>2, RowsKept DEF MInv
<1> QED BY <1>1, <1>3 DEF Held, server

LEMMA GetMessageGood ==
  ASSUME MInv, LInv, NEW a \in Action, GetMessage(a)
  PROVE  MInv' /\ LInv'
<1>1. GoodServer' /\ Follows /\ GoodStore' /\ Held
  BY Stays DEF GetMessage
<1>2. actions[a].at = "read" /\ syncMu # a /\ UNCHANGED <<server, store, syncMu, left, history>>
  BY DEF GetMessage, At, MInv, GoodActions, Holding
<1>3. GoodHistory'
  BY <1>2 DEF MInv, GoodHistory, history
<1>4. /\ GoodActions' /\ actions'[a].at # "remove"
      /\ \A b \in Action \ {a} : actions'[b] = actions[b]
  <2>1. CASE Cached(Now(a)) /\ Destination(a) # Now(a).folder
    <3>1. Now(a) \in Task /\ Sound(Now(a))
      BY <1>2, ActAt DEF MInv
    <3>2. Destination(a) \in Folder
      BY <3>1, TaskFields DEF Destination, NotSpamDestination, Folder
    <3>3. PICK t \in Task : /\ t = [Now(a) EXCEPT !.to = Destination(a)]
                            /\ t.folder = Now(a).folder /\ t.uid = Now(a).uid
                            /\ t.validity = Now(a).validity /\ t.msg = Now(a).msg
      BY <3>1, <3>2, Headed
    <3>4. Sound(t)
      BY <3>1, <3>3 DEF Sound, Names, Named
    <3>5. Sound(t)'
      BY <1>1, <3>4, TaskFields, SoundKept DEF MInv
    <3>6. actions' = [actions EXCEPT ![a].at = "lock", ![a].todo = <<t>> \o Tail(@)]
          /\ UNCHANGED archived
      BY <2>1, <3>3 DEF GetMessage
    <3>7. "lock" \notin Holding
      BY DEF Holding
    <3>8. /\ GoodActions' /\ actions'[a].at = "lock"
          /\ \A b \in Action \ {a} : actions'[b] = actions[b]
      BY <1>1, <1>2, <3>5, <3>6, <3>7, HeadPut DEF MInv
    <3> QED BY <3>8
  <2>2. CASE ~(Cached(Now(a)) /\ Destination(a) # Now(a).folder)
    <3>1. Finish(a, actions[a].done)
      BY <2>2 DEF GetMessage, Fails
    <3>2. actions[a].done \in Seq(Task)
      BY <1>2, ActAt DEF GoodAct, Act, MInv
    <3>3. syncMu' = IF syncMu = a THEN NoAction ELSE syncMu
      BY <1>2
    <3> QED BY <1>2, <3>1, <3>2, <3>3, FinishPut DEF MInv, Holding
  <2> QED BY <2>1, <2>2
<1>5. LInv'
  <2>1. \A b \in Action : At(b, "remove") \/ At(b, "remove")' => actions'[b] = actions[b]
    BY <1>2, <1>4 DEF At
  <2>2. \A b \in Action : ~(At(b, "remove") /\ ~At(b, "remove")')
    BY <2>1 DEF At
  <2> QED BY <1>2, <2>1, <2>2, FateTorn DEF MInv, server, history
<1> QED BY <1>1, <1>3, <1>4, <1>5 DEF MInv

LEMMA NotFoundGood ==
  ASSUME MInv, LInv, NEW a \in Action, NotFound(a)
  PROVE  MInv' /\ LInv'
<1>1. GoodServer' /\ Follows /\ GoodStore' /\ Held
  BY Stays DEF NotFound
<1>2. /\ actions[a].at = "lock" /\ syncMu = NoAction
      /\ Finish(a, actions[a].done) /\ UNCHANGED <<server, store, syncMu, left, history>>
  BY DEF NotFound, At, Fails
<1>3. GoodHistory'
  BY <1>2 DEF MInv, GoodHistory, history
<1>4. /\ GoodActions' /\ actions'[a].at \notin Holding
      /\ \A b \in Action \ {a} : actions'[b] = actions[b]
  <2>1. actions[a].done \in Seq(Task)
    BY <1>2, ActAt DEF GoodAct, Act, MInv
  <2>2. syncMu' = IF syncMu = a THEN NoAction ELSE syncMu
    BY <1>2
  <2> QED BY <1>2, <2>1, <2>2, FinishPut DEF MInv
<1>5. LInv'
  <2>1. \A b \in Action : At(b, "remove") \/ At(b, "remove")' => actions'[b] = actions[b]
    BY <1>2, <1>4 DEF At, Holding
  <2>2. \A b \in Action : ~(At(b, "remove") /\ ~At(b, "remove")')
    BY <2>1 DEF At
  <2> QED BY <1>2, <2>1, <2>2, FateTorn DEF MInv, server, history
<1> QED BY <1>1, <1>3, <1>4, <1>5 DEF MInv


\* Nothing is about to be deleted, before or after.
LEMMA QuietGood ==
  ASSUME LInv, \A b \in Action : ~At(b, "remove"), \A b \in Action : ~At(b, "remove")',
         torn \subseteq torn', UNCHANGED astray,
         \A c \in copies : \E d \in copies' : d.msg = c.msg,
         \A c, d \in copies' : c # d /\ c.msg = d.msg /\ c.msg \notin torn' =>
           \E x, y \in copies : x # y /\ x.msg = c.msg /\ y.msg = c.msg
  PROVE  LInv'
<1>1. Spare'
  BY DEF Spare
<1>2. NothingLost'
  <2> SUFFICES ASSUME NEW m \in Msg \ astray PROVE \E d \in copies' : d.msg = m
    BY DEF NothingLost, CopiesOf
  <2>1. PICK c \in copies : c.msg = m
    BY DEF LInv, NothingLost, CopiesOf
  <2> QED BY <2>1
<1>3. Pairs'
  <2> SUFFICES ASSUME NEW c \in copies', NEW d \in copies', c # d, c.msg = d.msg, c.msg \notin torn'
               PROVE  FALSE
    BY DEF Pairs
  <2>1. PICK x \in copies, y \in copies : x # y /\ x.msg = c.msg /\ y.msg = c.msg
    OBVIOUS
  <2>2. x.msg \notin torn
    BY <2>1
  <2> QED BY <2>1, <2>2, LoneCopies DEF LInv
<1> QED BY <1>1, <1>2, <1>3 DEF LInv

LEMMA TagQuiet ==
  ASSUME LInv, GoodServer, GoodServer',
         \A b \in Action : ~At(b, "remove"), \A b \in Action : ~At(b, "remove")',
         UNCHANGED <<torn, astray>>,
         \A d \in copies' : \E c \in copies : c.folder = d.folder /\ c.uid = d.uid /\ c.msg = d.msg,
         \A c \in copies : \E d \in copies' : d.msg = c.msg
  PROVE  LInv'
<1>1. ASSUME NEW c \in copies', NEW d \in copies', c # d, c.msg = d.msg
      PROVE  \E x, y \in copies : x # y /\ x.msg = c.msg /\ y.msg = c.msg
  <2>1. PICK x \in copies : x.folder = c.folder /\ x.uid = c.uid /\ x.msg = c.msg
    OBVIOUS
  <2>2. PICK y \in copies : y.folder = d.folder /\ y.uid = d.uid /\ y.msg = d.msg
    OBVIOUS
  <2>3. x # y
    <3>1. ~(c.folder = d.folder /\ c.uid = d.uid)
      BY <1>1 DEF GoodServer
    <3> QED BY <2>1, <2>2, <3>1
  <2> QED BY <1>1, <2>1, <2>2, <2>3
<1> QED BY <1>1, QuietGood

LEMMA FreeIsQuiet ==
  ASSUME GoodActions, syncMu = NoAction
  PROVE  \A b \in Action : ~At(b, "remove")
BY RemoverHolds

LEMMA TagVerdictTags ==
  ASSUME MInv, NEW a \in Action, TagVerdict(a)
  PROVE  /\ GoodServer' /\ Follows
         /\ \A d \in copies' : \E c \in copies : c.folder = d.folder /\ c.uid = d.uid /\ c.msg = d.msg
         /\ \A c \in copies : \E d \in copies' : d.msg = c.msg
<1> DEFINE cs == Named(Now(a))
<1>1. cs \in SUBSET copies
  BY DEF Named
<1>2. {"$Junk"} \in SUBSET Keyword /\ {"$NotJunk"} \in SUBSET Keyword
  BY DEF Keyword
<1>3. /\ \E failed \in SUBSET Keyword : \/ StoreKeywords(cs, {"$Junk"}, {"$NotJunk"}, failed)
                                        \/ StoreKeywords(cs, {"$NotJunk"}, {"$Junk"}, failed)
      /\ UNCHANGED <<hasMove, uidValidity, uidNext>>
  BY DEF TagVerdict
<1> HIDE DEF cs
<1> QED BY <1>1, <1>2, <1>3, Tagged DEF MInv

LEMMA TagVerdictGood ==
  ASSUME MInv, LInv, NEW a \in Action, TagVerdict(a)
  PROVE  MInv' /\ LInv'
<1>1. /\ actions[a].at = "lock" /\ actions[a].op # "undo" /\ syncMu = NoAction /\ syncMu' = a
      /\ Goes(a, "move")
      /\ UNCHANGED <<hasMove, uidValidity, uidNext, store, archived>>
      /\ UNCHANGED <<home, markedIn, torn, astray, phantom, stuck, unrecorded>>
      /\ moot' = IF Stale(a) THEN moot \cup {c.msg : c \in Named(Now(a))} ELSE moot
  BY DEF TagVerdict, Lock, At
<1>2. /\ GoodServer' /\ Follows
      /\ \A d \in copies' : \E c \in copies : c.folder = d.folder /\ c.uid = d.uid /\ c.msg = d.msg
      /\ \A c \in copies : \E d \in copies' : d.msg = c.msg
  BY TagVerdictTags
<1>3. GoodStore'
  <2>1. rows' \subseteq rows /\ spamOrigins' \in [Msg -> Folder \cup {NoFolder}]
    BY <1>1 DEF store, MInv, GoodStore
  <2> QED BY <1>2, <2>1, RowsKept DEF MInv
<1>4. /\ GoodActions' /\ actions'[a].at = "move"
      /\ \A b \in Action \ {a} : actions'[b] = actions[b]
  <2>1. Held
    BY <1>1 DEF Held
  <2>2. PICK t \in Task : t = Now(a)
    BY <1>1, ActAt DEF MInv
  <2>3. "move" \in Holding
    BY DEF Holding
  <2>4. a # NoAction /\ NoAction \notin Action
    OBVIOUS
  <2> QED BY <1>1, <1>2, <2>1, <2>2, <2>3, <2>4, AtPut DEF MInv
<1>5. GoodHistory'
  <2>1. \A c \in Named(Now(a)) : c.msg \in Msg
    BY CopyFields DEF MInv, Named
  <2>2. moot' \in SUBSET Msg
    BY <1>1, <2>1 DEF MInv, GoodHistory
  <2>3. left' \in [steps : 0..Steps, troubles : 0..Troubles]
    BY Logged DEF TagVerdict, MInv
  <2> QED BY <1>1, <2>2, <2>3 DEF MInv, GoodHistory
<1>6. LInv'
  <2>1. \A b \in Action : ~At(b, "remove")
    BY <1>1, FreeIsQuiet DEF MInv
  <2>2. \A b \in Action : ~At(b, "remove")'
    BY <1>4, <2>1 DEF At
  <2>3. UNCHANGED <<torn, astray>>
    BY <1>1
  <2> QED BY <1>2, <2>1, <2>2, <2>3, TagQuiet DEF MInv
<1> QED BY <1>2, <1>3, <1>4, <1>5, <1>6 DEF MInv

LEMMA NewestIn ==
  ASSUME GoodServer, NEW cs \in SUBSET copies, cs # {}, NEW f \in Folder,
         \A c \in cs : c.folder = f
  PROVE  Newest(cs) \in cs
<1> DEFINE S == {c.uid : c \in cs}
<1>1. uidNext[f] \in Nat
  BY DEF GoodServer
<1>2. \A c \in cs : c.uid \in 0..uidNext[f]
  BY <1>1, CopyFields
<1>3. S \in SUBSET (0..uidNext[f]) /\ S # {}
  BY <1>2
<1> HIDE DEF S
<1>4. Max(S) \in S /\ \A x \in S : x <= Max(S)
  BY <1>1, <1>3, MaxOfBounded
<1>5. \E c \in cs : \A d \in cs : d.uid <= c.uid
  BY <1>4 DEF S
<1> QED BY <1>5 DEF Newest

LEMMA SearchFinds ==
  ASSUME GoodServer, NEW t \in Task, SearchByMessageID(t) # {}
  PROVE  LET c == Newest(SearchByMessageID(t))
         IN  c \in copies /\ c.folder = t.folder /\ c.msg = t.msg
<1> DEFINE c == Newest(SearchByMessageID(t))
<1>1. SearchByMessageID(t) \in SUBSET copies /\ \A d \in SearchByMessageID(t) : d.folder = t.folder
  BY DEF SearchByMessageID
<1>2. c \in SearchByMessageID(t)
  BY <1>1, TaskFields, NewestIn
<1> HIDE DEF c
<1> QED BY <1>2 DEF SearchByMessageID, c

LEMMA SearchTags ==
  ASSUME MInv, NEW a \in Action, Search(a)
  PROVE  /\ GoodServer' /\ Follows
         /\ \A d \in copies' : \E e \in copies : e.folder = d.folder /\ e.uid = d.uid /\ e.msg = d.msg
         /\ \A e \in copies : \E d \in copies' : d.msg = e.msg
<1> DEFINE c  == Newest(SearchByMessageID(Now(a)))
           kw == Withdrawn(Now(a))
<1>1. actions[a].at # "idle" /\ SearchByMessageID(Now(a)) # {}
  BY DEF Search, Lock, At
<1>2. c \in copies
  BY <1>1, ActAt, SearchFinds DEF MInv
<1>3. kw \in SUBSET Keyword /\ {} \in SUBSET Keyword
  BY DEF Withdrawn, Keyword
<1>4. /\ \E failed \in SUBSET kw : StoreKeywords({c}, {}, kw, failed)
      /\ UNCHANGED <<hasMove, uidValidity, uidNext>>
  BY DEF Search
<1> HIDE DEF c, kw
<1>5. {c} \in SUBSET copies
  BY <1>2
<1> QED BY <1>3, <1>4, <1>5, Tagged DEF MInv

LEMMA SearchSticks ==
  ASSUME NEW a \in Action, Search(a), NEW c, c = Newest(SearchByMessageID(Now(a)))
  PROVE  \E kw : stuck' = [stuck EXCEPT ![c.msg] = @ \cup (c.keywords \cap kw)]
<1> DEFINE kw == Withdrawn(Now(a))
<1>1. \E failed \in SUBSET kw :
        stuck' = [stuck EXCEPT ![c.msg] =
                    @ \cup ((kw \cap c.keywords) \ Stored(kw, c.folder, failed))]
  BY DEF Search
<1> HIDE DEF kw
<1>2. PICK failed \in SUBSET kw :
        stuck' = [stuck EXCEPT ![c.msg] =
                    @ \cup ((kw \cap c.keywords) \ Stored(kw, c.folder, failed))]
  BY <1>1
<1>3. (kw \cap c.keywords) \ Stored(kw, c.folder, failed)
        = c.keywords \cap (kw \ Stored(kw, c.folder, failed))
  OBVIOUS
<1> QED BY <1>2, <1>3

LEMMA SearchGood ==
  ASSUME MInv, LInv, NEW a \in Action, Search(a)
  PROVE  MInv' /\ LInv'
<1> DEFINE c == Newest(SearchByMessageID(Now(a)))
<1>1. /\ actions[a].at = "lock" /\ actions[a].op = "undo" /\ syncMu = NoAction /\ syncMu' = a
      /\ SearchByMessageID(Now(a)) # {}
      /\ UNCHANGED <<hasMove, uidValidity, uidNext, rows, archived>>
      /\ UNCHANGED <<home, markedIn, torn, astray, phantom, moot, unrecorded>>
  BY DEF Search, Lock, At
<1>2. Now(a) \in Task /\ Sound(Now(a))
  BY <1>1, ActAt DEF MInv
<1>3. c \in copies /\ c.folder = Now(a).folder /\ c.msg = Now(a).msg
  BY <1>1, <1>2, SearchFinds DEF MInv
<1> HIDE DEF c
<1>4. /\ GoodServer' /\ Follows
      /\ \A d \in copies' : \E e \in copies : e.folder = d.folder /\ e.uid = d.uid /\ e.msg = d.msg
      /\ \A e \in copies : \E d \in copies' : d.msg = e.msg
  BY SearchTags
<1>5. GoodStore'
  <2>1. spamOrigins' \in [Msg -> Folder \cup {NoFolder}]
    BY <1>2, TaskFields DEF Search, MInv, GoodStore
  <2>2. rows' \subseteq rows
    BY <1>1
  <2> QED BY <1>4, <2>1, <2>2, RowsKept DEF MInv
<1>6. PICK t \in Task : /\ t = [Now(a) EXCEPT !.uid = c.uid]
                        /\ t.folder = c.folder /\ t.uid = c.uid /\ t.msg = c.msg
                        /\ t.validity = Now(a).validity
  <2>1. c.uid \in Nat
    BY <1>3, CopyFields DEF MInv
  <2>2. \E u \in Task : /\ u = [Now(a) EXCEPT !.uid = c.uid]
                        /\ u.folder = Now(a).folder /\ u.uid = c.uid
                        /\ u.validity = Now(a).validity /\ u.msg = Now(a).msg
    BY <1>2, <2>1, Found
  <2> QED BY <1>3, <2>2
<1>7. Names(t) /\ Sound(t)
  <2>1. t.uid < uidNext[t.folder]
    BY <1>3, <1>6, CopyFields DEF MInv
  <2>2. \A d \in Named(t) : d.msg = t.msg
    BY <1>3, <1>6 DEF Named, MInv, GoodServer
  <2>3. t.validity <= uidValidity[t.folder]
    BY <1>2, <1>3, <1>6 DEF Sound
  <2> QED BY <2>1, <2>2, <2>3 DEF Names, Sound
<1>8. Names(t)' /\ Sound(t)'
  <2>1. t.folder \in Folder /\ t.uid \in Nat /\ t.validity \in Nat
    BY TaskFields
  <2>2. uidValidity'[t.folder] = uidValidity[t.folder]
    BY <1>1
  <2> QED BY <1>4, <1>7, <2>1, <2>2, NamesKept, SoundKept DEF MInv
<1>9. /\ GoodActions' /\ actions'[a].at = "move"
      /\ \A b \in Action \ {a} : actions'[b] = actions[b]
  <2>1. Held
    BY <1>1 DEF Held
  <2>2. actions' = [actions EXCEPT ![a].at = "move", ![a].todo = <<t>> \o Tail(@)]
    BY <1>6 DEF Search, c
  <2>3. "move" \in Holding /\ a # NoAction
    BY DEF Holding
  <2> QED BY <1>1, <1>4, <1>8, <2>1, <2>2, <2>3, HeadPut DEF MInv
<1>10. GoodHistory'
  <2>1. left' \in [steps : 0..Steps, troubles : 0..Troubles]
    BY Logged DEF Search, MInv
  <2>2. stuck' \in [Msg -> SUBSET Keyword]
    <3>1. c.keywords \in SUBSET Keyword /\ c.msg \in Msg /\ stuck \in [Msg -> SUBSET Keyword]
      BY <1>3, CopyFields DEF MInv, GoodHistory
    <3>2. \E kw : stuck' = [stuck EXCEPT ![c.msg] = @ \cup (c.keywords \cap kw)]
      BY SearchSticks DEF c
    <3> QED BY <3>1, <3>2
  <2> QED BY <1>1, <2>1, <2>2 DEF MInv, GoodHistory
<1>11. LInv'
  <2>1. \A b \in Action : ~At(b, "remove")
    BY <1>1, FreeIsQuiet DEF MInv
  <2>2. \A b \in Action : ~At(b, "remove")'
    BY <1>9, <2>1 DEF At
  <2>3. UNCHANGED <<torn, astray>>
    BY <1>1
  <2> QED BY <1>4, <2>1, <2>2, <2>3, TagQuiet DEF MInv
<1> QED BY <1>4, <1>5, <1>9, <1>10, <1>11 DEF MInv


LEMMA MoveHeld ==
  ASSUME MInv, NEW a \in Action, MoveMessage(a)
  PROVE  /\ actions[a].at \in {"lock", "move"} /\ syncMu \in {a, NoAction} /\ syncMu' = a
         /\ actions[a].op = "undo" => actions[a].at \in Holding
         /\ \A b \in Action : ~At(b, "remove")
<1>1. CASE At(a, "move") /\ UNCHANGED syncMu
  <2>1. syncMu = a /\ actions[a].at \in Holding
    BY <1>1 DEF At, Holding, MInv, GoodActions
  <2>2. \A b \in Action : ~At(b, "remove")
    BY <1>1, <2>1, RemoverHolds DEF At, MInv
  <2> QED BY <1>1, <2>1, <2>2 DEF At
<1>2. CASE actions[a].op = "move" /\ Lock(a)
  <2>1. \A b \in Action : ~At(b, "remove")
    BY <1>2, FreeIsQuiet DEF Lock, MInv
  <2> QED BY <1>2, <2>1 DEF Lock, At
<1> QED BY <1>1, <1>2 DEF MoveMessage

\* The copies that a move takes at once from where they were.
Gone(t) == IF hasMove THEN Named(t) ELSE {}

LEMMA MoveLands ==
  ASSUME MInv, NEW a \in Action, MoveMessage(a), NEW t \in Task, t = Now(a)
  PROVE  /\ GoodServer' /\ Follows
         /\ copies \ Gone(t) \subseteq copies'
         /\ \A c \in Named(t) : \E d \in copies' :
              d \notin copies /\ d.msg = c.msg /\ d.folder = t.to /\ d.uid = uidNext[t.to]
         /\ \A d \in copies' :
              d \in copies \ Gone(t) \/ (d \notin copies /\ \E c \in Named(t) : d.msg = c.msg)
         /\ \A c, d \in copies' : c \notin copies /\ d \notin copies => c = d
<1> DEFINE hit == Named(t)
<1>1. hit \in SUBSET copies /\ (\A c, d \in hit : c = d)
      /\ Cardinality(hit) = IF hit = {} THEN 0 ELSE 1
  BY NamedAtMostOne DEF MInv
<1>2. /\ copies' = (copies \ Gone(t)) \cup Landed(hit, t.to)
      /\ uidNext' = [uidNext EXCEPT ![t.to] = @ + Cardinality(hit)]
      /\ UNCHANGED <<hasMove, uidValidity>>
  BY DEF MoveMessage, Gone
<1>3. Gone(t) \in SUBSET hit /\ t.to \in Folder
  BY TaskFields DEF Gone
<1>4. uidNext' = [uidNext EXCEPT ![t.to] = @ + (IF hit = {} THEN 0 ELSE 1)]
  <2> DEFINE n == Cardinality(hit)
  <2>1. n = IF hit = {} THEN 0 ELSE 1
    BY <1>1
  <2> HIDE DEF n, hit
  <2> QED BY <1>2, <2>1 DEF n
<1> HIDE DEF hit
<1>5. PICK h \in SUBSET copies, g \in SUBSET hit, to \in Folder :
        h = hit /\ g = Gone(t) /\ to = t.to
  BY <1>1, <1>3
<1>6. /\ (\A c, d \in h : c = d) /\ g \in SUBSET h
      /\ copies' = (copies \ g) \cup Landed(h, to)
      /\ uidNext' = [uidNext EXCEPT ![to] = @ + (IF h = {} THEN 0 ELSE 1)]
      /\ UNCHANGED <<hasMove, uidValidity>> /\ GoodServer
  BY <1>1, <1>2, <1>3, <1>4, <1>5 DEF MInv
<1>7. /\ GoodServer' /\ Follows
      /\ \A c \in h : \E d \in copies' :
           d \notin copies /\ d.msg = c.msg /\ d.folder = to /\ d.uid = uidNext[to]
      /\ \A d \in copies' : d \in copies \ g \/ (d \notin copies /\ \E c \in h : d.msg = c.msg)
      /\ \A c, d \in copies' : c \notin copies /\ d \notin copies => c = d
  BY <1>6, Lands
<1>8. copies \ g \subseteq copies'
  <2> DEFINE new == Landed(h, to)
  <2>1. copies' = (copies \ g) \cup new
    BY <1>6
  <2> HIDE DEF new
  <2> QED BY <2>1
<1> QED BY <1>5, <1>7, <1>8 DEF hit

LEMMA MoveMessageGood ==
  ASSUME MInv, LInv, NEW a \in Action, MoveMessage(a)
  PROVE  MInv' /\ LInv'
<1>1. /\ UNCHANGED <<hasMove, uidValidity, store, archived, left>>
      /\ Goes(a, IF hasMove THEN "drop" ELSE "remove")
      /\ Noted(a, Named(Now(a)))
      /\ UNCHANGED <<home, torn, astray, stuck, unrecorded>>
  BY DEF MoveMessage, Noted
<1>2. /\ actions[a].at # "idle" /\ syncMu \in {a, NoAction} /\ syncMu' = a
      /\ actions[a].op = "undo" => actions[a].at \in Holding
      /\ \A b \in Action : ~At(b, "remove")
  BY MoveHeld
<1>3. PICK t \in Task : t = Now(a) /\ Sound(t)
  BY <1>2, ActAt DEF MInv
<1> DEFINE hit == Named(t)
           gone == IF hasMove THEN hit ELSE {}
<1>4. /\ GoodServer' /\ Follows
      /\ copies \ gone \subseteq copies'
      /\ \A c \in hit : \E d \in copies' :
           d \notin copies /\ d.msg = c.msg /\ d.folder = t.to /\ d.uid = uidNext[t.to]
      /\ \A d \in copies' : d \in copies \ gone \/ (d \notin copies /\ \E c \in hit : d.msg = c.msg)
      /\ \A c, d \in copies' : c \notin copies /\ d \notin copies => c = d
  <2>1. gone = Gone(t)
    BY DEF Gone
  <2> HIDE DEF gone
  <2> QED BY <1>3, <2>1, MoveLands
<1>5. copies \ gone \subseteq copies'
  BY <1>4
<1>6. hit \subseteq copies /\ \A c, d \in hit : c = d
  BY NamedAtMostOne DEF MInv
<1>7. GoodStore'
  <2>1. rows' \subseteq rows /\ spamOrigins' \in [Msg -> Folder \cup {NoFolder}]
    BY <1>1 DEF store, MInv, GoodStore
  <2> QED BY <1>4, <2>1, RowsKept DEF MInv
<1>8. GoodHistory'
  <2>1. \A c \in hit : c.msg \in Msg
    BY <1>6, CopyFields DEF MInv
  <2>2. t.msg \in Msg /\ t.folder \in Folder
    BY TaskFields
  <2> HIDE DEF hit
  <2>3. moot' \in SUBSET Msg
    BY <1>1, <1>3, <2>1, <2>2 DEF Noted, MInv, GoodHistory, hit
  <2>4. markedIn' \in [Msg -> Folder \cup {NoFolder}]
    BY <1>1, <1>3, <2>2 DEF Noted, MInv, GoodHistory
  <2>5. phantom' \in SUBSET Msg
    BY <1>1, <1>3, <2>2 DEF Noted, MInv, GoodHistory
  <2> QED BY <1>1, <2>3, <2>4, <2>5 DEF MInv, GoodHistory
<1>9. /\ GoodActions' /\ actions'[a].at = IF hasMove THEN "drop" ELSE "remove"
      /\ Now(a)' = t /\ actions'[a].op = actions[a].op
      /\ \A b \in Action \ {a} : actions'[b] = actions[b]
  <2>1. Held
    BY <1>1 DEF Held
  <2>2. actions[a].op = "undo" => Names(t)'
    <3>1. actions[a].op = "undo" => Names(t)
      BY <1>2, <1>3 DEF MInv, GoodActions
    <3> QED BY <1>1, <1>4, <3>1, TaskFields, NamesKept DEF MInv
  <2>3. \A at \in {"drop", "remove"} : at \in Holding /\ at # "idle"
    BY DEF Holding
  <2>4. PICK at \in {"drop", "remove"} : at = IF hasMove THEN "drop" ELSE "remove"
    OBVIOUS
  <2>5. Goes(a, at)
    BY <1>1, <2>4
  <2>6. syncMu' = syncMu \/ (syncMu \in {a, NoAction} /\ syncMu' \in {a, NoAction})
    BY <1>2
  <2>7. /\ GoodActions' /\ actions'[a].at = at
        /\ Now(a)' = t /\ actions'[a].op = actions[a].op
        /\ \A b \in Action \ {a} : actions'[b] = actions[b]
    BY <1>1, <1>2, <1>3, <1>4, <2>1, <2>2, <2>3, <2>5, <2>6, AtPut DEF MInv
  <2> QED BY <2>4, <2>7
<1>10. LInv'
  <2>1. CASE hasMove
    <3>1. \A b \in Action : ~At(b, "remove")'
      BY <1>2, <1>9, <2>1 DEF At
    <3>2. \A c \in copies : \E d \in copies' : d.msg = c.msg
      BY <1>4, <1>5, <2>1
    <3>3. ASSUME NEW c \in copies', NEW d \in copies', c # d, c.msg = d.msg
          PROVE  \E x, y \in copies : x # y /\ x.msg = c.msg /\ y.msg = c.msg
      <4> HIDE DEF hit
      <4>1. CASE c \in copies \ hit /\ d \in copies \ hit
        BY <3>3, <4>1
      <4>2. CASE c \in copies \ hit /\ d \notin copies
        BY <1>4, <1>6, <2>1, <3>3, <4>2
      <4>3. CASE d \in copies \ hit /\ c \notin copies
        BY <1>4, <1>6, <2>1, <3>3, <4>3
      <4> QED BY <1>4, <2>1, <3>3, <4>1, <4>2, <4>3
    <3> QED BY <1>1, <1>2, <3>1, <3>2, <3>3, QuietGood
  <2>2. CASE ~hasMove
    <3>1. copies \subseteq copies'
      BY <1>5, <2>2
    <3>2. \A b \in Action : At(b, "remove")' <=> b = a
      BY <1>2, <1>9, <2>2 DEF At
    <3>3. Stale(a)' = Stale(a)
      BY <1>1, <1>3, <1>9 DEF Stale
    <3>4. Named(Now(a))' = {c \in copies' : c.folder = t.folder /\ c.uid = t.uid}
      BY <1>9 DEF Named
    <3>5. Spare'
      <4> SUFFICES ASSUME ~Stale(a), NEW c \in copies', c.folder = t.folder, c.uid = t.uid
                   PROVE  \E d \in copies' : d # c /\ d.msg = c.msg
        BY <3>2, <3>3, <3>4 DEF Spare
      <4>1. Names(t)
        <5>1. actions[a].op = "undo" => Names(t)
          BY <1>2, <1>3 DEF MInv, GoodActions
        <5>2. actions[a].op # "undo" => t.validity = uidValidity[t.folder]
          BY <1>3 DEF Stale
        <5> QED BY <1>3, <5>1, <5>2 DEF Sound
      <4>2. t.uid < uidNext[t.folder] /\ t.folder \in Folder
        BY <4>1, TaskFields DEF Names
      <4>3. ~(uidValidity'[t.folder] > uidValidity[t.folder])
        BY <1>1, <4>2 DEF MInv, GoodServer
      <4>4. PICK x \in copies : x.folder = t.folder /\ x.uid = c.uid /\ x.msg = c.msg
        BY <1>4, <4>2, <4>3 DEF Follows
      <4>5. x \in hit /\ x = c
        BY <1>4, <3>1, <4>4 DEF Named, GoodServer
      <4>6. PICK d \in copies' : d \notin copies /\ d.msg = x.msg
        BY <1>4, <4>5
      <4> QED BY <4>4, <4>5, <4>6
    <3>6. NothingLost'
      BY <1>1, <3>1 DEF NothingLost, CopiesOf, LInv
    <3>7. Pairs'
      <4> SUFFICES ASSUME NEW c \in copies', NEW d \in copies', c # d, c.msg = d.msg, c.msg \notin torn
                   PROVE  {c, d} \cap hit # {}
        <5>1. hit \subseteq Named(Now(a))'
          BY <1>6, <3>1, <3>4 DEF Named
        <5> HIDE DEF hit
        <5> QED BY <1>1, <3>2, <5>1 DEF Pairs
      <4> HIDE DEF hit
      <4>1. \A x, y \in copies : x.msg = y.msg /\ x.msg \notin torn => x = y
        BY <1>2, LoneCopies DEF LInv
      <4>2. CASE c \in copies /\ d \in copies
        BY <4>1, <4>2
      <4>3. CASE c \in copies /\ d \notin copies
        BY <1>4, <1>6, <4>1, <4>3
      <4>4. CASE c \notin copies /\ d \in copies
        BY <1>4, <1>6, <4>1, <4>4
      <4> QED BY <1>4, <4>2, <4>3, <4>4
    <3> QED BY <3>5, <3>6, <3>7 DEF LInv
  <2> QED BY <2>1, <2>2
<1> QED BY <1>4, <1>7, <1>8, <1>9, <1>10 DEF MInv


LEMMA CopiedMsgs ==
  ASSUME GoodServer, NEW a \in Action
  PROVE  Copied(a) \in SUBSET Msg
<1>1. \A c \in Named(Now(a)) : c.msg \in Msg
  BY CopyFields DEF Named
<1> QED BY <1>1 DEF Copied

LEMMA DeleteMessagesGood ==
  ASSUME MInv, LInv, NEW a \in Action, DeleteMessages(a)
  PROVE  MInv' /\ LInv'
<1>1. /\ actions[a].at = "remove" /\ At(a, "remove") /\ syncMu = a
      /\ copies' = copies \ Named(Now(a))
      /\ astray' = IF Stale(a) THEN astray \cup Copied(a) ELSE astray
      /\ Goes(a, "drop")
      /\ UNCHANGED <<hasMove, uidValidity, uidNext, store, syncMu, archived, left>>
      /\ UNCHANGED <<home, markedIn, torn, phantom, moot, stuck, unrecorded>>
  BY RemoverHolds DEF DeleteMessages, At, MInv
<1>2. PICK t \in Task : t = Now(a)
  BY <1>1, ActAt DEF MInv
<1>3. GoodServer' /\ Follows
  <2> DEFINE gone == Named(Now(a))
  <2>1. copies' = copies \ gone
    BY <1>1
  <2> HIDE DEF gone
  <2> QED BY <1>1, <2>1, Removed DEF MInv
<1>4. GoodStore'
  <2>1. rows' \subseteq rows /\ spamOrigins' \in [Msg -> Folder \cup {NoFolder}]
    BY <1>1 DEF store, MInv, GoodStore
  <2> QED BY <1>3, <2>1, RowsKept DEF MInv
<1>5. GoodHistory'
  <2>1. Copied(a) \in SUBSET Msg
    BY CopiedMsgs DEF MInv
  <2> QED BY <1>1, <2>1 DEF MInv, GoodHistory
<1>6. /\ GoodActions' /\ actions'[a].at = "drop"
      /\ \A b \in Action \ {a} : actions'[b] = actions[b]
  <2>1. Held
    BY <1>1 DEF Held
  <2>2. "drop" \in Holding /\ "remove" \in Holding
    BY DEF Holding
  <2>3. actions[a].op = "undo" => Names(t)'
    <3>1. actions[a].op = "undo" => Names(t)
      BY <1>1, <1>2, <2>2 DEF MInv, GoodActions
    <3> QED BY <1>1, <1>3, <3>1, TaskFields, NamesKept DEF MInv
  <2> QED BY <1>1, <1>2, <1>3, <2>1, <2>2, <2>3, AtPut DEF MInv
<1>7. \A b \in Action : At(b, "remove") => b = a
  BY <1>1, RemoverHolds DEF MInv
<1>8. \A b \in Action : ~At(b, "remove")'
  BY <1>6, <1>7 DEF At
<1>9. Spare'
  BY <1>8 DEF Spare
<1>10. NothingLost'
  <2> SUFFICES ASSUME NEW m \in Msg \ astray' PROVE \E d \in copies' : d.msg = m
    BY DEF NothingLost, CopiesOf
  <2>1. PICK c \in copies : c.msg = m
    BY <1>1 DEF LInv, NothingLost, CopiesOf
  <2>2. CASE c \notin Named(Now(a))
    BY <1>1, <2>1, <2>2
  <2>3. CASE c \in Named(Now(a))
    <3>1. m \in Copied(a)
      BY <1>1, <2>1, <2>3 DEF Copied
    <3>2. ~Stale(a)
      BY <1>1, <3>1
    <3>3. PICK d \in copies : d # c /\ d.msg = c.msg
      BY <1>1, <2>3, <3>2 DEF LInv, Spare
    <3>4. d \notin Named(Now(a))
      BY <2>3, <3>3, NamedAtMostOne DEF MInv
    <3> QED BY <1>1, <2>1, <3>3, <3>4
  <2> QED BY <2>2, <2>3
<1>11. Pairs'
  <2> SUFFICES ASSUME NEW c \in copies', NEW d \in copies', c # d, c.msg = d.msg, c.msg \notin torn
               PROVE  FALSE
    BY <1>1 DEF Pairs
  <2>1. c \in copies /\ d \in copies
    BY <1>1
  <2>2. PICK b \in Action : At(b, "remove") /\ {c, d} \cap Named(Now(b)) # {}
    BY <2>1 DEF LInv, Pairs
  <2>3. b = a
    BY <1>7, <2>2
  <2> QED BY <1>1, <2>2, <2>3
<1> QED BY <1>3, <1>4, <1>5, <1>6, <1>9, <1>10, <1>11 DEF MInv, LInv

LEMMA DoneTasks ==
  ASSUME GoodActions, NEW a \in Action, actions[a].at # "idle"
  PROVE  actions[a].done \in Seq(Task) /\ Append(actions[a].done, Now(a)) \in Seq(Task)
<1>1. actions[a].done \in Seq(Task) /\ Now(a) \in Task
  BY ActAt DEF GoodAct, Act
<1> QED BY <1>1, AppendProperties

LEMMA DropRowGood ==
  ASSUME MInv, LInv, NEW a \in Action, DropRow(a)
  PROVE  MInv' /\ LInv'
<1>1. /\ actions[a].at = "drop" /\ syncMu = a /\ syncMu' = NoAction
      /\ UNCHANGED <<server, spamOrigins, left, history>>
      /\ rows' \subseteq rows
      /\ \/ Fails(a)
         \/ Succeeds(a)
         \/ Goes(a, "note") /\ UNCHANGED archived
  <2>1. actions[a].at = "drop" => syncMu = a
    BY DEF MInv, GoodActions, Holding
  <2> QED BY <2>1 DEF DropRow, At, Unlock
<1>2. GoodServer' /\ Follows /\ Held
  BY <1>1, ServerSame DEF MInv, Held, server
<1>3. GoodStore'
  <2>1. spamOrigins' \in [Msg -> Folder \cup {NoFolder}]
    BY <1>1 DEF MInv, GoodStore
  <2> QED BY <1>1, <1>2, <2>1, RowsKept DEF MInv
<1>4. GoodHistory'
  BY <1>1 DEF MInv, GoodHistory, history
<1>5. /\ GoodActions' /\ actions'[a].at # "remove"
      /\ \A b \in Action \ {a} : actions'[b] = actions[b]
  <2>1. syncMu' = IF syncMu = a THEN NoAction ELSE syncMu
    BY <1>1
  <2>2. CASE Fails(a) \/ Succeeds(a)
    <3>1. PICK done \in Seq(Task) : Finish(a, done)
      BY <1>1, <2>2, DoneTasks DEF Fails, Succeeds, MInv
    <3> QED BY <1>1, <2>1, <3>1, FinishPut DEF MInv, Holding
  <2>3. CASE Goes(a, "note") /\ UNCHANGED archived
    <3>1. PICK t \in Task : t = Now(a)
      BY <1>1, ActAt DEF MInv
    <3>2. "note" \notin Holding
      BY DEF Holding
    <3>3. a # NoAction
      OBVIOUS
    <3>4. /\ GoodActions' /\ actions'[a].at = "note"
          /\ \A b \in Action \ {a} : actions'[b] = actions[b]
      BY <1>1, <1>2, <2>3, <3>1, <3>2, <3>3, AtPut DEF MInv
    <3> QED BY <3>4
  <2> QED BY <1>1, <2>2, <2>3
<1>6. LInv'
  <2>1. \A b \in Action : ~At(b, "remove")
    BY <1>1, RemoverHolds DEF At, MInv
  <2>2. \A b \in Action : ~At(b, "remove")'
    BY <1>5, <2>1 DEF At
  <2> QED BY <1>1, <2>1, <2>2, QuietGood DEF server, history
<1> QED BY <1>2, <1>3, <1>4, <1>5, <1>6 DEF MInv

LEMMA NoteOriginGood ==
  ASSUME MInv, LInv, NEW a \in Action, NoteOrigin(a)
  PROVE  MInv' /\ LInv'
<1>1. /\ actions[a].at = "note" /\ syncMu # a
      /\ Finish(a, Append(actions[a].done, Now(a)))
      /\ UNCHANGED <<server, rows, syncMu>>
      /\ UNCHANGED <<home, markedIn, torn, astray, phantom, moot, stuck>>
  BY DEF NoteOrigin, At, Succeeds, MInv, GoodActions, Holding
<1>2. GoodServer' /\ Follows
  BY <1>1, ServerSame DEF MInv
<1>3. GoodStore'
  <2>1. spamOrigins' \in [Msg -> Folder \cup {NoFolder}]
    <3>1. Now(a).folder \in Folder
      BY <1>1, ActAt, TaskFields DEF MInv
    <3> QED BY <3>1 DEF NoteOrigin, MInv, GoodStore
  <2>2. rows' \subseteq rows
    BY <1>1
  <2> QED BY <1>2, <2>1, <2>2, RowsKept DEF MInv
<1>4. GoodHistory'
  <2>1. Now(a).msg \in Msg
    BY <1>1, ActAt, TaskFields DEF MInv
  <2>2. unrecorded' \in SUBSET Msg
    BY <2>1 DEF NoteOrigin, MInv, GoodHistory
  <2>3. left' \in [steps : 0..Steps, troubles : 0..Troubles]
    BY Spent DEF NoteOrigin, MInv, GoodHistory
  <2> QED BY <1>1, <2>2, <2>3 DEF MInv, GoodHistory
<1>5. /\ GoodActions' /\ actions'[a].at \notin Holding
      /\ \A b \in Action \ {a} : actions'[b] = actions[b]
  <2>1. Append(actions[a].done, Now(a)) \in Seq(Task)
    BY <1>1, DoneTasks DEF MInv
  <2>2. syncMu' = IF syncMu = a THEN NoAction ELSE syncMu
    BY <1>1
  <2>3. PICK done \in Seq(Task) : Finish(a, done)
    BY <1>1, <2>1
  <2> QED BY <1>1, <2>2, <2>3, FinishPut DEF MInv
<1>6. LInv'
  <2>1. \A b \in Action : At(b, "remove") \/ At(b, "remove")' => actions'[b] = actions[b]
    BY <1>1, <1>5 DEF At, Holding
  <2>2. \A b \in Action : ~(At(b, "remove") /\ ~At(b, "remove")')
    BY <2>1 DEF At
  <2> QED BY <1>1, <2>1, <2>2, FateTorn DEF MInv, server, history
<1> QED BY <1>2, <1>3, <1>4, <1>5, <1>6 DEF MInv

LEMMA BreakGood ==
  ASSUME MInv, LInv, NEW a \in Action, Break(a)
  PROVE  MInv' /\ LInv'
<1>1. /\ actions[a].at # "idle" /\ Finish(a, actions[a].done)
      /\ syncMu' = IF syncMu = a THEN NoAction ELSE syncMu
      /\ UNCHANGED <<server, store, home, markedIn, astray, phantom, stuck, unrecorded>>
      /\ torn' = torn \cup Copied(a) /\ moot' = moot \cup {Now(a).msg} \cup Copied(a)
  BY DEF Break, Fails, Unlock
<1>2. GoodServer' /\ Follows /\ GoodStore' /\ Held
  BY <1>1, Stays
<1>3. GoodHistory'
  <2>1. Copied(a) \in SUBSET Msg
    BY CopiedMsgs DEF MInv
  <2>2. Now(a).msg \in Msg
    BY <1>1, ActAt, TaskFields DEF MInv
  <2>3. left' \in [steps : 0..Steps, troubles : 0..Troubles]
    BY Spent DEF Break, MInv
  <2> QED BY <1>1, <2>1, <2>2, <2>3 DEF MInv, GoodHistory
<1>4. /\ GoodActions' /\ actions'[a].at \notin Holding
      /\ \A b \in Action \ {a} : actions'[b] = actions[b]
  BY <1>1, DoneTasks, FinishPut DEF MInv
<1>5. LInv'
  <2>1. \A b \in Action : At(b, "remove")' => actions'[b] = actions[b]
    BY <1>4 DEF At, Holding
  <2>2. \A b \in Action : At(b, "remove") /\ ~At(b, "remove")' => Copied(b) \subseteq torn'
    BY <1>1, <1>4 DEF At
  <2> QED BY <1>1, <2>1, <2>2, FateTorn DEF MInv, server
<1> QED BY <1>2, <1>3, <1>4, <1>5 DEF MInv


-----------------------------------------------------------------------------
(* Everybody else *)

LEMMA RowsRead ==
  ASSUME GoodServer
  PROVE  /\ IsFiniteSet({RowOf(c) : c \in copies})
         /\ \A c \in copies : RowOf(c) \in Row /\ Sound(RowOf(c))
<1> DEFINE F == [c \in copies |-> RowOf(c)]
           T == {RowOf(c) : c \in copies}
<1>1. IsFiniteSet(T)
  <2>1. F \in Surjection(copies, T)
    BY DEF Surjection
  <2>2. IsFiniteSet(copies)
    BY DEF GoodServer
  <2> HIDE DEF F, T
  <2> QED BY <2>1, <2>2, FS_Surjection
<1>2. ASSUME NEW c \in copies
      PROVE  RowOf(c) \in Row /\ Sound(RowOf(c))
  <2> DEFINE r == RowOf(c)
  <2>1. /\ r \in Row /\ r.msg = c.msg /\ r.folder = c.folder /\ r.uid = c.uid
        /\ r.validity = uidValidity[c.folder]
    BY CopyFields DEF RowOf, Row
  <2> HIDE DEF r
  <2>2. \A d \in Named(r) : d = c
    BY <2>1 DEF Named, GoodServer
  <2>3. Sound(r)
    BY <2>1, <2>2, CopyFields DEF Sound, Names
  <2> QED BY <2>1, <2>3 DEF r
<1> QED BY <1>1, <1>2

LEMMA SyncGood ==
  ASSUME MInv, LInv, NEW f \in Folder, Sync(f)
  PROVE  MInv' /\ LInv'
<1>1. /\ rows' = {r \in rows : r.folder # f} \cup RowsIn(f)
      /\ UNCHANGED <<server, spamOrigins, syncMu, actions, archived, left, history>>
  BY DEF Sync
<1>2. GoodServer' /\ Follows /\ Held
  BY <1>1, ServerSame DEF MInv, Held, server
<1>3. GoodStore'
  <2> DEFINE all == {RowOf(c) : c \in copies}
  <2>1. rows' \subseteq rows \cup all
    BY <1>1 DEF RowsIn
  <2>2. IsFiniteSet(all) /\ \A r \in all : r \in Row /\ Sound(r)
    BY RowsRead DEF MInv
  <2> HIDE DEF all
  <2>3. IsFiniteSet(rows')
    <3>1. IsFiniteSet(rows \cup all)
      BY <2>2, FS_Union DEF MInv, GoodStore
    <3> QED BY <2>1, <3>1, FS_Subset
  <2>4. \A r \in rows' : r \in Row /\ Sound(r)
    BY <2>1, <2>2 DEF MInv, GoodStore
  <2>5. \A r \in rows' : Sound(r)'
    <3> SUFFICES ASSUME NEW r \in rows' PROVE Sound(r)'
      OBVIOUS
    <3> QED BY <1>2, <2>4, RowFields, SoundKept DEF MInv
  <2>6. spamOrigins' \in [Msg -> Folder \cup {NoFolder}]
    BY <1>1 DEF MInv, GoodStore
  <2> QED BY <2>3, <2>4, <2>5, <2>6 DEF GoodStore
<1>4. GoodActions'
  BY <1>1, <1>2, ActionsSame DEF MInv
<1>5. GoodHistory'
  BY <1>1 DEF MInv, GoodHistory, history
<1>6. LInv'
  <2>1. \A b \in Action : actions'[b] = actions[b] /\ At(b, "remove")' = At(b, "remove")
    BY <1>1 DEF At
  <2> QED BY <1>1, <2>1, FateTorn DEF MInv, server, history
<1> QED BY <1>2, <1>3, <1>4, <1>5, <1>6 DEF MInv

LEMMA MoveElsewhereGood ==
  ASSUME MInv, LInv, NEW c \in copies, NEW to \in Folder, MoveElsewhere(c, to)
  PROVE  MInv' /\ LInv'
<1>1. /\ Trouble
      /\ copies' = (copies \ {c}) \cup Landed({c}, to)
      /\ uidNext' = [uidNext EXCEPT ![to] = @ + 1]
      /\ moot' = moot \cup {c.msg}
      /\ markedIn' = [markedIn EXCEPT ![c.msg] = NoFolder]
      /\ torn' = torn \cup ((UNION {Copied(a) : a \in Action}) \cap {c.msg})
      /\ UNCHANGED <<hasMove, uidValidity, store, syncMu, actions, archived>>
      /\ UNCHANGED <<home, astray, phantom, stuck, unrecorded>>
  BY DEF MoveElsewhere
<1>2. c.msg \in Msg
  BY CopyFields DEF MInv
<1>3. /\ GoodServer' /\ Follows
      /\ \E d \in copies' : d \notin copies /\ d.msg = c.msg /\ d.folder = to /\ d.uid = uidNext[to]
      /\ \A d \in copies' : d \in copies \ {c} \/ (d \notin copies /\ d.msg = c.msg)
      /\ \A u, v \in copies' : u \notin copies /\ v \notin copies => u = v
  <2>1. PICK h \in SUBSET copies : h = {c}
    OBVIOUS
  <2>2. /\ (\A u, v \in h : u = v) /\ h \in SUBSET h
        /\ copies' = (copies \ h) \cup Landed(h, to)
        /\ uidNext' = [uidNext EXCEPT ![to] = @ + (IF h = {} THEN 0 ELSE 1)]
        /\ UNCHANGED <<hasMove, uidValidity>> /\ GoodServer
    BY <1>1, <2>1 DEF MInv
  <2>3. /\ GoodServer' /\ Follows
        /\ \A x \in h : \E d \in copies' :
             d \notin copies /\ d.msg = x.msg /\ d.folder = to /\ d.uid = uidNext[to]
        /\ \A d \in copies' : d \in copies \ h \/ (d \notin copies /\ \E x \in h : d.msg = x.msg)
        /\ \A u, v \in copies' : u \notin copies /\ v \notin copies => u = v
    BY <2>2, Lands
  <2> QED BY <2>1, <2>3
<1>4. copies \ {c} \subseteq copies'
  BY <1>1
<1>5. Held
  BY <1>1 DEF Held
<1>6. GoodStore'
  <2>1. rows' \subseteq rows /\ spamOrigins' \in [Msg -> Folder \cup {NoFolder}]
    BY <1>1 DEF store, MInv, GoodStore
  <2> QED BY <1>3, <2>1, RowsKept DEF MInv
<1>7. GoodActions'
  BY <1>1, <1>3, <1>5, ActionsSame DEF MInv
<1>8. GoodHistory'
  <2>1. left' \in [steps : 0..Steps, troubles : 0..Troubles]
    BY <1>1, Spent DEF MInv
  <2>2. torn' \in SUBSET Msg
    <3> DEFINE half == UNION {Copied(a) : a \in Action}
    <3>1. torn' = torn \cup (half \cap {c.msg})
      BY <1>1
    <3> HIDE DEF half
    <3> QED BY <1>2, <3>1 DEF MInv, GoodHistory
  <2>3. markedIn' \in [Msg -> Folder \cup {NoFolder}]
    BY <1>1 DEF MInv, GoodHistory
  <2> QED BY <1>1, <1>2, <2>1, <2>2, <2>3 DEF MInv, GoodHistory
<1>9. \A b \in Action : /\ At(b, "remove")' <=> At(b, "remove")
                        /\ Now(b)' = Now(b) /\ Stale(b)' = Stale(b)
  BY <1>1 DEF At, Now, Stale
<1>10. Spare'
  <2> SUFFICES ASSUME NEW b \in Action, At(b, "remove"), ~Stale(b), NEW t, t = Now(b),
                      NEW x \in copies', x.folder = t.folder, x.uid = t.uid
               PROVE  \E d \in copies' : d # x /\ d.msg = x.msg
    BY <1>9 DEF Spare, Named
  <2>1. t \in Task /\ Sound(t)
    BY ActAt DEF MInv, At
  <2>2. Names(t)
    <3>1. actions[b].op = "undo" => Names(t)
      BY DEF MInv, GoodActions, At, Holding
    <3> QED BY <2>1, <3>1 DEF Stale, Sound
  <2>3. t.uid < uidNext[t.folder] /\ t.folder \in Folder
    BY <2>1, <2>2, TaskFields DEF Names
  <2>4. ~(uidValidity'[t.folder] > uidValidity[t.folder])
    BY <1>1, <2>3 DEF MInv, GoodServer
  <2>5. PICK y \in copies : y.folder = t.folder /\ y.uid = x.uid /\ y.msg = x.msg
    BY <2>3, <2>4, <1>3 DEF Follows
  <2>6. y \in Named(Now(b))
    BY <2>5 DEF Named
  <2>7. PICK d \in copies : d # y /\ d.msg = y.msg
    BY <2>6 DEF LInv, Spare
  <2>8. PICK e \in copies' : e \notin copies /\ e.msg = c.msg
    BY <1>3
  <2>9. CASE x \in copies
    <3>1. x = y
      BY <2>5, <2>9 DEF MInv, GoodServer
    <3>2. d = c \/ d \in copies'
      BY <1>4
    <3> QED BY <2>7, <2>8, <2>9, <3>1, <3>2
  <2>10. CASE x \notin copies
    <3>1. d \in copies \ {c} \/ y \in copies \ {c}
      BY <2>7
    <3> QED BY <1>4, <2>5, <2>7, <2>10, <3>1
  <2> QED BY <2>9, <2>10
<1>11. NothingLost'
  <2> SUFFICES ASSUME NEW m \in Msg \ astray PROVE \E d \in copies' : d.msg = m
    BY <1>1 DEF NothingLost, CopiesOf
  <2>1. PICK d \in copies : d.msg = m
    BY DEF LInv, NothingLost, CopiesOf
  <2> QED BY <1>3, <1>4, <2>1
<1>12. Pairs'
  <2> SUFFICES ASSUME NEW u \in copies', NEW v \in copies', u # v, u.msg = v.msg, u.msg \notin torn'
               PROVE  \E b \in Action : At(b, "remove") /\ {u, v} \cap Named(Now(b))' # {}
    BY <1>9 DEF Pairs
  <2>1. u.msg \notin torn
    BY <1>1
  <2>2. \A b \in Action : Named(Now(b)) \ {c} \subseteq Named(Now(b))'
    BY <1>4, <1>9 DEF Named
  <2>3. \A b \in Action : At(b, "remove") /\ c \in Named(Now(b)) => c.msg \in torn'
    <3> SUFFICES ASSUME NEW b \in Action, At(b, "remove"), c \in Named(Now(b))
                 PROVE  c.msg \in torn'
      OBVIOUS
    <3>1. c.msg \in Copied(b)
      BY DEF Copied
    <3>2. c.msg \in UNION {Copied(a) : a \in Action}
      BY <3>1
    <3> QED BY <1>1, <3>2
  <2>4. ASSUME NEW x \in copies \ {c}, NEW y \in copies, x # y, x.msg = y.msg, x.msg \notin torn'
        PROVE  \E b \in Action : /\ At(b, "remove")
                                 /\ x \in Named(Now(b))' \/ (y \in Named(Now(b))' /\ y # c)
    <3>1. PICK b \in Action : At(b, "remove") /\ {x, y} \cap Named(Now(b)) # {}
      BY <1>1, <2>4 DEF LInv, Pairs
    <3> QED BY <2>2, <2>3, <2>4, <3>1
  <2>5. CASE u \in copies \ {c} /\ v \in copies \ {c}
    BY <2>4, <2>5
  <2>6. CASE u \in copies \ {c} /\ v \notin copies
    <3>1. u # c /\ u.msg = c.msg
      BY <1>3, <2>6
    <3> QED BY <2>4, <2>6, <3>1
  <2>7. CASE v \in copies \ {c} /\ u \notin copies
    <3>1. v # c /\ v.msg = c.msg
      BY <1>3, <2>7
    <3> QED BY <2>4, <2>7, <3>1
  <2> QED BY <1>3, <2>5, <2>6, <2>7
<1> QED BY <1>3, <1>6, <1>7, <1>8, <1>10, <1>11, <1>12 DEF MInv, LInv


LEMMA RenumberGood ==
  ASSUME MInv, LInv, NEW f \in Folder, Renumber(f)
  PROVE  MInv' /\ LInv'
<1>1. /\ Trouble
      /\ syncMu # NoAction => Now(syncMu).folder # f
      /\ uidValidity' = [uidValidity EXCEPT ![f] = @ + 1]
      /\ UNCHANGED <<hasMove, store, syncMu, actions, archived, history>>
  BY DEF Renumber
<1>2. /\ GoodServer' /\ Follows
      /\ \A d \in copies' : \E c \in copies :
           c.msg = d.msg /\ c.folder = d.folder /\ (c.folder # f => c = d)
      /\ \A c \in copies : \E d \in copies' :
           d.msg = c.msg /\ d.folder = c.folder /\ (c.folder # f => c = d)
      /\ \A c, d \in copies' : c # d => \E x, y \in copies :
           /\ x # y /\ x.msg = c.msg /\ y.msg = d.msg
           /\ x.folder = c.folder /\ (c.folder # f => x = c)
           /\ y.folder = d.folder /\ (d.folder # f => y = d)
  BY Renumbered DEF MInv
<1>3. \A b \in Action : At(b, "remove") =>
        /\ syncMu = b /\ Now(b).folder \in Folder /\ Now(b).folder # f
        /\ uidValidity'[Now(b).folder] = uidValidity[Now(b).folder]
  <2> SUFFICES ASSUME NEW b \in Action, At(b, "remove")
               PROVE  /\ syncMu = b /\ Now(b).folder \in Folder /\ Now(b).folder # f
                      /\ uidValidity'[Now(b).folder] = uidValidity[Now(b).folder]
    OBVIOUS
  <2>1. syncMu = b /\ syncMu # NoAction
    BY RemoverHolds DEF MInv
  <2>2. Now(b).folder \in Folder
    BY ActAt, TaskFields DEF MInv, At
  <2> QED BY <1>1, <2>1, <2>2 DEF MInv, GoodServer
<1>4. Held
  <2> SUFFICES ASSUME syncMu # NoAction
               PROVE  uidValidity'[Now(syncMu).folder] = uidValidity[Now(syncMu).folder]
    BY DEF Held
  <2>1. syncMu \in Action /\ actions[syncMu].at # "idle"
    BY DEF MInv, GoodActions, Holding
  <2>2. Now(syncMu).folder \in Folder
    BY <2>1, ActAt, TaskFields DEF MInv
  <2> QED BY <1>1, <2>2 DEF MInv, GoodServer
<1>5. GoodStore'
  <2>1. rows' \subseteq rows /\ spamOrigins' \in [Msg -> Folder \cup {NoFolder}]
    BY <1>1 DEF store, MInv, GoodStore
  <2> QED BY <1>2, <2>1, RowsKept DEF MInv
<1>6. GoodActions'
  BY <1>1, <1>2, <1>4, ActionsSame DEF MInv
<1>7. GoodHistory'
  <2>1. left' \in [steps : 0..Steps, troubles : 0..Troubles]
    BY <1>1, Spent DEF MInv
  <2> QED BY <1>1, <2>1 DEF MInv, GoodHistory, history
<1>8. \A b \in Action : /\ At(b, "remove")' <=> At(b, "remove")
                        /\ Now(b)' = Now(b)
                        /\ At(b, "remove") => Stale(b)' = Stale(b)
  BY <1>1, <1>3 DEF At, Now, Stale
<1>9. Spare'
  <2> SUFFICES ASSUME NEW b \in Action, At(b, "remove"), ~Stale(b),
                      NEW x \in copies', x.folder = Now(b).folder, x.uid = Now(b).uid
               PROVE  \E d \in copies' : d # x /\ d.msg = x.msg
    BY <1>8 DEF Spare, Named
  <2>1. x.folder # f /\ x \in copies
    BY <1>2, <1>3
  <2>2. x \in Named(Now(b))
    BY <2>1 DEF Named
  <2>3. PICK d \in copies : d # x /\ d.msg = x.msg
    BY <2>2 DEF LInv, Spare
  <2>4. PICK e \in copies' : e.msg = d.msg /\ e.folder = d.folder /\ (d.folder # f => d = e)
    BY <1>2
  <2> QED BY <2>1, <2>3, <2>4
<1>10. NothingLost'
  <2> SUFFICES ASSUME NEW m \in Msg \ astray PROVE \E d \in copies' : d.msg = m
    BY <1>1 DEF NothingLost, CopiesOf, history
  <2>1. PICK d \in copies : d.msg = m
    BY DEF LInv, NothingLost, CopiesOf
  <2> QED BY <1>2, <2>1
<1>11. Pairs'
  <2> SUFFICES ASSUME NEW u \in copies', NEW v \in copies', u # v, u.msg = v.msg, u.msg \notin torn
               PROVE  \E b \in Action : At(b, "remove") /\ {u, v} \cap Named(Now(b))' # {}
    BY <1>1, <1>8 DEF Pairs, history
  <2>1. PICK x \in copies, y \in copies :
          /\ x # y /\ x.msg = u.msg /\ y.msg = v.msg
          /\ x.folder = u.folder /\ (u.folder # f => x = u)
          /\ y.folder = v.folder /\ (v.folder # f => y = v)
    BY <1>2
  <2>2. PICK b \in Action : At(b, "remove") /\ {x, y} \cap Named(Now(b)) # {}
    BY <2>1 DEF LInv, Pairs
  <2>3. Now(b).folder # f /\ Now(b)' = Now(b)
    BY <1>3, <1>8, <2>2
  <2>4. \A c \in Named(Now(b)) : c.folder # f /\ (c \in copies' => c \in Named(Now(b))')
    BY <2>3 DEF Named
  <2> QED BY <2>1, <2>2, <2>4
<1> QED BY <1>2, <1>5, <1>6, <1>7, <1>9, <1>10, <1>11 DEF MInv, LInv

LEMMA IdleGood == Idle \in GoodAct /\ Idle.todo = <<>> /\ Idle.at \notin Holding
                    /\ Idle.at # "remove" /\ Idle.op # "undo" /\ 1..Len(Idle.todo) = {}
<1>1. <<>> \in Seq(Task) /\ Len(<<>>) = 0
  BY EmptySeq
<1> QED BY <1>1 DEF Idle, GoodAct, Act, Holding

LEMMA AllIdle ==
  ASSUME syncMu = NoAction, actions = [a \in Action |-> Idle], archived = <<>>
  PROVE  GoodActions
<1>1. archived \in Seq(Seq(Task) \ {<<>>})
  BY EmptySeq
<1>2. \A a \in Action : actions[a] = Idle /\ syncMu # a
  OBVIOUS
<1>3. actions \in [Action -> GoodAct]
  BY IdleGood
<1> HIDE DEF GoodActions
<1> QED BY <1>1, <1>2, <1>3, IdleGood DEF GoodActions

LEMMA QuitGood ==
  ASSUME MInv, LInv, Quit
  PROVE  MInv' /\ LInv'
<1>1. /\ Trouble /\ moot' = Msg
      /\ actions' = [a \in Action |-> Idle] /\ archived' = <<>> /\ syncMu' = NoAction
      /\ torn' = torn \cup UNION {Copied(a) : a \in Action}
      /\ UNCHANGED <<server, store, home, markedIn, astray, phantom, stuck, unrecorded>>
  BY DEF Quit
<1>2. GoodServer' /\ Follows /\ GoodStore' /\ Held
  BY <1>1, Stays
<1>3. GoodActions'
  <2>1. archived' \in Seq(Seq(Task) \ {<<>>})
    BY <1>1, EmptySeq
  <2>2. \A a \in Action : actions'[a] = Idle /\ syncMu' # a
    BY <1>1
  <2>3. actions' \in [Action -> GoodAct]
    BY <1>1, IdleGood
  <2> QED BY <1>1, <2>1, <2>2, <2>3, IdleGood DEF GoodActions
<1>4. \A b \in Action : Copied(b) \subseteq torn'
  <2> DEFINE half == UNION {Copied(a) : a \in Action}
  <2>1. \A b \in Action : Copied(b) \subseteq half
    OBVIOUS
  <2>2. torn' = torn \cup half
    BY <1>1
  <2> HIDE DEF half
  <2> QED BY <2>1, <2>2
<1>5. GoodHistory'
  <2>1. left' \in [steps : 0..Steps, troubles : 0..Troubles]
    BY <1>1, Spent DEF MInv
  <2>2. torn' \in SUBSET Msg
    <3>1. \A b \in Action : Copied(b) \subseteq Msg
      BY CopiedMsgs DEF MInv
    <3>2. UNION {Copied(a) : a \in Action} \subseteq Msg
      BY <3>1
    <3> QED BY <1>1, <3>2 DEF MInv, GoodHistory
  <2> QED BY <1>1, <2>1, <2>2 DEF MInv, GoodHistory
<1>6. LInv'
  <2>1. \A b \in Action : ~At(b, "remove")'
    BY <1>1, IdleGood DEF At
  <2>2. UNCHANGED <<copies, uidValidity>> /\ UNCHANGED astray /\ torn \subseteq torn'
    BY <1>1 DEF server
  <2> QED BY <1>4, <2>1, <2>2, FateTorn DEF MInv
<1> QED BY <1>2, <1>3, <1>5, <1>6 DEF MInv

LEMMA StutterGood ==
  ASSUME MInv, LInv, UNCHANGED vars
  PROVE  MInv' /\ LInv'
<1>1. UNCHANGED <<server, store, syncMu, actions, archived, left, history>>
  BY DEF vars
<1>2. GoodServer' /\ Follows /\ GoodStore' /\ Held
  BY <1>1, Stays
<1>3. GoodActions'
  BY <1>1, <1>2, ActionsSame DEF MInv
<1>4. GoodHistory'
  BY <1>1 DEF MInv, GoodHistory, history
<1>5. LInv'
  <2>1. \A b \in Action : actions'[b] = actions[b] /\ At(b, "remove")' = At(b, "remove")
    BY <1>1 DEF At
  <2> QED BY <1>1, <2>1, FateTorn DEF MInv, server, history
<1> QED BY <1>2, <1>3, <1>4, <1>5 DEF MInv


-----------------------------------------------------------------------------
(* The invariant *)

LEMMA InitGood == Init => MInv /\ LInv
<1> SUFFICES ASSUME Init PROVE MInv /\ LInv
  OBVIOUS
<1> DEFINE n == Cardinality(Msg)
           uid == CHOOSE f \in [Msg -> 1..n] : IsInjective(f)
           C(m) == [msg |-> m, folder |-> home[m].folder, uid |-> uid[m],
                    keywords |-> home[m].keywords]
           F == [m \in Msg |-> C(m)]
<1>1. IsFiniteSet(Msg) /\ n \in Nat
  BY FS_CardinalityType
<1>2. uid \in [Msg -> 1..n] /\ IsInjective(uid)
  <2>1. ExistsBijection(1..n, Msg)
    BY <1>1, FS_CardinalityType
  <2>2. ExistsBijection(Msg, 1..n)
    BY <2>1, Fun_ExistsBijSymmetric
  <2>3. \E f \in [Msg -> 1..n] : IsInjective(f)
    BY <2>2 DEF ExistsBijection, Bijection, Injection
  <2> HIDE DEF n
  <2> QED BY <2>3
<1>3. copies = {C(m) : m \in Msg}
  BY DEF Init
<1> HIDE DEF n, uid
<1>4. /\ Folder # {} /\ Inbox \in Folder /\ Junk \in Folder
      /\ {"$Junk"} \in SUBSET Keyword /\ {} \in SUBSET Keyword
  BY DEF Folder, Keyword
<1>5. home \in [Msg -> [folder : Folder, keywords : SUBSET Keyword]]
  <2> DEFINE H(m) == IF m \in Filtered THEN [folder |-> Junk, keywords |-> {"$Junk"}]
                                       ELSE [folder |-> Inbox, keywords |-> {}]
  <2>1. \A m \in Msg : H(m) \in [folder : Folder, keywords : SUBSET Keyword]
    BY <1>4
  <2>2. home = [m \in Msg |-> H(m)]
    BY DEF Init
  <2> HIDE DEF H
  <2> QED BY <2>1, <2>2
<1>6. \A m \in Msg : /\ uid[m] \in Nat /\ uid[m] <= n
                     /\ C(m) \in Copy /\ C(m).msg = m /\ C(m).uid = uid[m]
                     /\ C(m).folder \in Folder
  BY <1>1, <1>2, <1>5 DEF Copy
<1>7. \A x, y \in Msg : uid[x] = uid[y] => x = y
  BY <1>2 DEF IsInjective
<1>8. IsFiniteSet(copies)
  <2>1. F \in Surjection(Msg, copies)
    BY <1>3 DEF Surjection
  <2> HIDE DEF F, C
  <2> QED BY <1>1, <2>1, FS_Surjection
<1>9. \A f \in Folder : uidNext[f] = n + 1 /\ uidValidity[f] = 1
  BY DEF Init, n
<1>10. GoodServer
  <2>1. \A c \in copies : \E m \in Msg : c = C(m)
    BY <1>3
  <2> HIDE DEF C
  <2>2. copies \in SUBSET Copy
    BY <1>6, <2>1
  <2>3. \A c, d \in copies : c.folder = d.folder /\ c.uid = d.uid => c = d
    BY <1>6, <1>7, <2>1
  <2>4. \A c \in copies : c.uid < uidNext[c.folder]
    BY <1>1, <1>6, <1>9, <2>1
  <2>5. hasMove \in Extensions
    BY DEF Init
  <2>6. uidValidity \in [Folder -> Nat \ {0}] /\ uidNext \in [Folder -> Nat]
    <3>1. uidValidity = [f \in Folder |-> 1] /\ uidNext = [f \in Folder |-> n + 1]
      BY DEF Init, n
    <3> QED BY <1>1, <3>1
  <2> QED BY <1>8, <2>2, <2>3, <2>4, <2>5, <2>6 DEF GoodServer
<1>11. GoodStore
  <2> DEFINE all == {RowOf(c) : c \in copies}
  <2>1. rows \subseteq all
    <3>1. \A f \in Folder : RowsIn(f) \subseteq all
      BY DEF RowsIn
    <3>2. rows = UNION {RowsIn(f) : f \in Folder}
      BY DEF Init
    <3> HIDE DEF all
    <3> QED BY <3>1, <3>2
  <2>2. IsFiniteSet(all) /\ \A r \in all : r \in Row /\ Sound(r)
    BY <1>10, RowsRead
  <2> HIDE DEF all
  <2>3. IsFiniteSet(rows)
    BY <2>1, <2>2, FS_Subset
  <2>4. spamOrigins \in [Msg -> Folder \cup {NoFolder}]
    BY DEF Init
  <2> QED BY <2>1, <2>2, <2>3, <2>4 DEF GoodStore
<1>12. GoodActions
  BY AllIdle DEF Init
<1>13. GoodHistory
  <2>1. left \in [steps : 0..Steps, troubles : 0..Troubles]
    <3>1. Steps \in 0..Steps /\ Troubles \in 0..Troubles
      OBVIOUS
    <3> QED BY <3>1 DEF Init
  <2>2. markedIn \in [Msg -> Folder \cup {NoFolder}]
    BY DEF Init
  <2>3. /\ torn \in SUBSET Msg /\ astray \in SUBSET Msg
        /\ phantom \in SUBSET Msg /\ moot \in SUBSET Msg
        /\ stuck \in [Msg -> SUBSET Keyword] /\ unrecorded \in SUBSET Msg
    BY DEF Init
  <2> QED BY <1>5, <2>1, <2>2, <2>3 DEF GoodHistory
<1>14. Spare
  <2>1. \A a \in Action : ~At(a, "remove")
    BY IdleGood DEF Init, At
  <2> QED BY <2>1 DEF Spare
<1>15. NothingLost
  <2>1. \A m \in Msg : C(m) \in copies
    BY <1>3
  <2> HIDE DEF C
  <2> QED BY <1>6, <2>1 DEF NothingLost, CopiesOf
<1>16. Pairs
  <2>1. \A c \in copies : \E m \in Msg : c = C(m)
    BY <1>3
  <2> HIDE DEF C
  <2>2. \A c, d \in copies : c.msg = d.msg => c = d
    BY <1>6, <2>1
  <2> QED BY <2>2 DEF Pairs
<1> QED BY <1>10, <1>11, <1>12, <1>13, <1>14, <1>15, <1>16 DEF MInv, LInv

LEMMA StepGood ==
  ASSUME MInv, LInv, [Next]_vars
  PROVE  MInv' /\ LInv'
<1>1. CASE \E a \in Action : User(a)
  BY <1>1, MoveRowsGood, ToggleSpamGood, UndoArchiveGood DEF User
<1>2. CASE \E a \in Action : Work(a)
  BY <1>2, GetMessageGood, TagVerdictGood, SearchGood, NotFoundGood, MoveMessageGood,
     DeleteMessagesGood, DropRowGood, NoteOriginGood DEF Work
<1>3. CASE \E a \in Action : Break(a)
  BY <1>3, BreakGood
<1>4. CASE \E f \in Folder : Sync(f) \/ Renumber(f)
  BY <1>4, SyncGood, RenumberGood
<1>5. CASE \E c \in copies, to \in Folder : MoveElsewhere(c, to)
  BY <1>5, MoveElsewhereGood
<1>6. CASE Quit
  BY <1>6, QuitGood
<1>7. CASE UNCHANGED vars
  BY <1>7, StutterGood
<1> QED BY <1>1, <1>2, <1>3, <1>4, <1>5, <1>6, <1>7 DEF Next

LEMMA Invariant == Spec => [](MInv /\ LInv)
<1>1. Init => MInv /\ LInv
  BY InitGood
<1>2. MInv /\ LInv /\ [Next]_vars => (MInv /\ LInv)'
  BY StepGood
<1> QED BY <1>1, <1>2, PTL DEF Spec

-----------------------------------------------------------------------------
(* What it says *)

\* Every variable of Moves keeps its type, no folder gives a uid twice, and an
\* action has a message in hand exactly while it is under way.
THEOREM MovesTypes == Spec => []TypeOK
<1>1. MInv => TypeOK
  <2> SUFFICES ASSUME MInv PROVE TypeOK
    OBVIOUS
  <2>1. actions \in [Action -> Act]
        /\ \A a \in Action : actions[a].op = "none" <=> actions[a].todo = <<>>
    BY DEF MInv, GoodActions, GoodAct
  <2>2. archived \in Seq(Seq(Task))
    <3>1. archived \in Seq(Seq(Task) \ {<<>>})
      BY DEF MInv, GoodActions
    <3>2. \A i \in 1..Len(archived) : archived[i] \in Seq(Task)
      BY <3>1, ElementOfSeq
    <3>3. archived \in [1..Len(archived) -> Seq(Task)] /\ Len(archived) \in Nat
      BY <3>1, <3>2, LenProperties
    <3> QED BY <3>3, SeqDef
  <2>3. uidValidity \in [Folder -> Nat]
    BY DEF MInv, GoodServer
  <2> QED BY <2>1, <2>2, <2>3
        DEF TypeOK, MInv, GoodServer, GoodStore, GoodActions, GoodHistory
<1> QED BY <1>1, Invariant, PTL

\* Whatever breaks off when, MoveMessages and DeleteMessages leave every message
\* somewhere on the server.
THEOREM KeepsAll == Spec => []NothingLost
<1>1. LInv => NothingLost
  BY DEF LInv
<1> QED BY <1>1, Invariant, PTL

\* A message that no move left torn is on the server once, except while its
\* original is about to be deleted.
THEOREM KeepsOne == Spec => []NothingDoubled
<1>1. MInv /\ LInv => NothingDoubled
  <2> SUFFICES ASSUME MInv, LInv, NEW m \in Msg \ torn, Cardinality(CopiesOf(m)) > 1
               PROVE  \E a \in Action : At(a, "remove") /\ Named(Now(a)) # {}
    BY DEF NothingDoubled
  <2>1. \E c, d \in CopiesOf(m) : c # d
    <3> SUFFICES ASSUME \A c, d \in CopiesOf(m) : c = d PROVE FALSE
      OBVIOUS
    <3>1. CASE CopiesOf(m) = {}
      BY <3>1, FS_EmptySet
    <3>2. CASE CopiesOf(m) # {}
      <4>1. PICK c : CopiesOf(m) = {c}
        BY <3>2
      <4>2. Cardinality({c}) = 1
        BY FS_Singleton
      <4>3. Cardinality(CopiesOf(m)) = 1
        BY <4>1, <4>2
      <4> QED BY <4>3
    <3> QED BY <3>1, <3>2
  <2>2. PICK c \in copies, d \in copies : c # d /\ c.msg = m /\ d.msg = m
    BY <2>1 DEF CopiesOf
  <2> QED BY <2>2 DEF LInv, Pairs
<1> QED BY <1>1, Invariant, PTL

\* An undo that waits for syncMu moves nothing before it has looked for its message.
LEMMA UndoLooksFirst ==
  ASSUME MInv, Next, NEW a \in Action, actions[a].op = "undo", actions[a].at = "lock"
  PROVE  actions'[a].at \notin {"remove", "drop"}
<1> DEFINE P == actions'[a].at \notin {"remove", "drop"}
<1>1. ASSUME actions'[a] = actions[a] PROVE P
  BY <1>1
<1>2. ASSUME NEW done \in Seq(Task), Finish(a, done) PROVE P
  <2>1. PICK x \in GoodAct : actions' = [actions EXCEPT ![a] = x] /\ x.at \notin Holding
    BY <1>2, FinishGood DEF MInv
  <2> QED BY <2>1 DEF MInv, GoodActions, Holding
<1>3. actions \in [Action -> GoodAct]
  BY DEF MInv, GoodActions
<1>4. ASSUME NEW b \in Action, User(b) PROVE P
  <2>1. actions[b] = Idle /\ \A c \in Action \ {b} : actions'[c] = actions[c]
    BY <1>3, <1>4 DEF User, MoveRows, ToggleSpam, UndoArchive, Start
  <2> QED BY <1>1, <2>1 DEF Idle
<1>5. ASSUME NEW b \in Action, b # a, Work(b) \/ Break(b) PROVE P
  <2>1. actions'[a] = actions[a]
    BY <1>3, <1>5 DEF Work, GetMessage, TagVerdict, Search, NotFound, MoveMessage, DeleteMessages,
       DropRow, NoteOrigin, Break, Goes, Fails, Succeeds, Finish
  <2> QED BY <1>1, <2>1
<1>6. CASE Search(a)
  <2>1. actions'[a].at = "move"
    BY <1>3, <1>6 DEF Search, GoodAct, Act
  <2> QED BY <2>1
<1>7. CASE NotFound(a) \/ Break(a)
  <2>1. PICK done \in Seq(Task) : Finish(a, done)
    BY <1>7, DoneTasks DEF NotFound, Break, Fails, MInv
  <2> QED BY <1>2, <2>1
<1>8. ASSUME Work(a), ~Search(a), ~NotFound(a) PROVE FALSE
  BY <1>8 DEF Work, GetMessage, TagVerdict, MoveMessage, DeleteMessages, DropRow, NoteOrigin, At, Lock
<1>9. CASE (\E f \in Folder : Sync(f) \/ Renumber(f))
             \/ \E c \in copies, to \in Folder : MoveElsewhere(c, to)
  <2>1. actions' = actions
    BY <1>9 DEF Sync, Renumber, MoveElsewhere
  <2> QED BY <1>1, <2>1
<1>10. CASE Quit
  BY <1>10 DEF Quit, Idle
<1> QED BY <1>4, <1>5, <1>6, <1>7, <1>8, <1>9, <1>10 DEF Next

\* However long a call of moveMessageTo or RestoreMessage waited, the copy it moves
\* is of its message, unless a renumbered folder has given the uid to another.
THEOREM MovesMeant == Spec => MovesTheOneMeant
<1>1. MInv /\ [Next]_vars =>
        [\A a \in Action :
           actions[a].at \in {"lock", "move"} /\ actions'[a].at \in {"remove", "drop"} =>
             Stale(a) \/ \A c \in Named(Now(a)) : c.msg = Now(a).msg]_vars
  <2> SUFFICES ASSUME MInv, Next, NEW a \in Action, actions[a].at \in {"lock", "move"},
                      actions'[a].at \in {"remove", "drop"}, ~Stale(a)
               PROVE  \A c \in Named(Now(a)) : c.msg = Now(a).msg
    OBVIOUS
  <2>1. Sound(Now(a))
    BY ActAt DEF MInv
  <2>2. Names(Now(a))
    <3>1. CASE actions[a].op = "undo"
      <4>1. actions[a].at = "move"
        BY <3>1, UndoLooksFirst
      <4> QED BY <3>1, <4>1 DEF MInv, GoodActions, Holding
    <3>2. CASE actions[a].op # "undo"
      BY <2>1, <3>2 DEF Stale, Sound
    <3> QED BY <3>1, <3>2
  <2> QED BY <2>2 DEF Names
<1> QED BY <1>1, Invariant, PTL DEF MovesTheOneMeant, Spec

-----------------------------------------------------------------------------
(* Where each message is on its way through moves and undos *)

HIDE MovesAssumption

Vouched(m) == m \notin moot \cup phantom

\* The tasks of a sequence that are about m; whether there is one at most.
Of(s, m)  == {s[i] : i \in {j \in 1..Len(s) : s[j].msg = m}}
One(s, m) == \A i, j \in 1..Len(s) : s[i].msg = m /\ s[j].msg = m => i = j

\* What an action has moved, and what it has still to move.
Moved     == {"remove", "drop", "note"}
Behind(x) == IF x.at \in Moved THEN Append(x.done, Head(x.todo)) ELSE x.done
Ahead(x)  == IF x.at \in Moved THEN Tail(x.todo) ELSE x.todo
Has(x, m) == Of(Ahead(x), m) # {} \/ Of(Behind(x), m) # {}

\* A step of m from f to g that is on no stack: it is taken, and is not yet there,
\* or has been popped, and is not yet taken back.
LooseIn(x, m, f, g) ==
  IF x.op = "undo" THEN \E t \in Of(Ahead(x), m) : t.to = f /\ t.folder = g
                   ELSE \E t \in Of(Behind(x), m) : t.folder = f /\ t.to = g

Loose(m, f, g) == \E a \in Action : LooseIn(actions[a], m, f, g)

\* The folder that the tasks of s, and that the first n batches of a stack, took m to.
Took(s, m, f) == \E t \in Of(s, m) : t.to = f

After(s, m, n, f) ==
  \/ f = home[m].folder /\ \A i \in 1..n : Of(s[i], m) = {}
  \/ \E i \in 1..n : /\ Took(s[i], m, f)
                     /\ \A k \in (i + 1)..n : Of(s[k], m) = {}

OnRoute(m, g) ==
  \/ \E f \in Folder : Loose(m, f, g)
  \/ (\A f, h \in Folder : ~Loose(m, f, h)) /\ After(archived, m, Len(archived), g)

\* The copies of m but one that is about to be deleted.
Left(m) ==
  {c \in copies : c.msg = m /\ \A a \in Action : At(a, "remove") => c \notin Named(Now(a))}

\* One action at a time has m, and moves it once.
OneHand(m) == \A a, b \in Action : Has(actions[a], m) /\ Has(actions[b], m) => a = b

OnceIn(x, m) ==
  IF x.op = "undo" THEN One(Ahead(x), m)
  ELSE /\ One(Behind(x), m)
       /\ Of(Behind(x), m) # {} =>
            \A t \in Of(Ahead(x), m) :
              t.validity = uidValidity[t.folder] => Named(t) \cap Left(m) = {}

Once(m) == \A a \in Action : OnceIn(actions[a], m)

\* Each batch on the stack takes m on from where the one below it left it.
Chain(m) ==
  \A i \in 1..Len(archived) :
    One(archived[i], m) /\ \A t \in Of(archived[i], m) : After(archived, m, i - 1, t.folder)

Leaves(m)  == \A f, g \in Folder : Loose(m, f, g) => After(archived, m, Len(archived), f)
Located(m) == \A c \in Left(m) : OnRoute(m, c.folder)

Hands(m) == OneHand(m) /\ Once(m)
Way(m)   == Chain(m) /\ Leaves(m) /\ Located(m)
Track    == \A m \in Msg : Vouched(m) => Hands(m) /\ Way(m)

\* What an action of each kind is about.
Tasks(s) == {s[i] : i \in 1..Len(s)}

Aimed(x) ==
  /\ x.op = "undo" => x.at # "read" /\ \A t \in Tasks(x.todo) : t.validity = 0
  /\ x.op = "spam" => \A t \in Tasks(x.todo) : t.to = Junk
  /\ x.op = "notSpam" => \A t \in Tasks(x.todo) : t.folder = Junk
  /\ x.op # "undo" /\ x.at \notin {"idle", "read"} => Head(x.todo).to # Head(x.todo).folder
  /\ x.at = "note" => x.op \in {"spam", "notSpam"}

Aims == \A a \in Action : Aimed(actions[a])

\* The row that an action read is there until it drops it.
HasRow(a) == \E r \in rows : TaskFor(r, Now(a).to) = Now(a)

There(a) ==
  /\ actions[a].at \in {"lock", "move"} =>
       (Vouched(Now(a).msg) /\ ~Stale(a) /\ Named(Now(a)) # {} => HasRow(a))
  /\ actions[a].at \in {"remove", "drop"} =>
       (Vouched(Now(a).msg) => ~Stale(a) /\ HasRow(a))

RowThere == \A a \in Action : actions[a].op # "undo" => There(a)

RInv == torn \subseteq moot /\ Aims /\ RowThere /\ Track

-----------------------------------------------------------------------------
(* Sequences of tasks, again *)

LEMMA OfIn ==
  ASSUME NEW s, NEW m, NEW t
  PROVE  t \in Of(s, m) <=> t.msg = m /\ \E i \in 1..Len(s) : s[i] = t
BY DEF Of

LEMMA OfTail ==
  ASSUME NEW s \in Seq(Task), s # <<>>, NEW m
  PROVE  /\ Head(s) = s[1] /\ Head(s) \in Task /\ Tail(s) \in Seq(Task)
         /\ Of(s, m) = (IF Head(s).msg = m THEN {Head(s)} ELSE {}) \cup Of(Tail(s), m)
         /\ One(s, m) <=> One(Tail(s), m) /\ (Head(s).msg = m => Of(Tail(s), m) = {})
<1> DEFINE u == Tail(s)
           h == s[1]
<1>1. /\ Tail(s) \in Seq(Task) /\ Len(Tail(s)) = Len(s) - 1 /\ Head(s) = s[1] /\ Head(s) \in Task
      /\ \A i \in 1..Len(Tail(s)) : Tail(s)[i] = s[i + 1]
  BY HeadTailProperties
<1>2. Len(s) \in Nat \ {0}
  BY EmptySeq
<1>3. Len(u) = Len(s) - 1 /\ \A i \in 1..Len(u) : u[i] = s[i + 1]
  BY <1>1
<1> HIDE DEF u
<1>4. \A i \in 1..Len(s) : i = 1 \/ (i - 1 \in 1..Len(u) /\ s[i] = u[i - 1])
  <2> SUFFICES ASSUME NEW i \in 1..Len(s), i # 1
               PROVE  i - 1 \in 1..Len(u) /\ s[i] = u[i - 1]
    OBVIOUS
  <2>1. i - 1 \in 1..Len(u) /\ (i - 1) + 1 = i
    BY <1>2, <1>3
  <2> QED BY <1>3, <2>1
<1>5. 1 \in 1..Len(s) /\ \A i \in 1..Len(u) : i + 1 \in 1..Len(s) /\ i + 1 # 1
  BY <1>2, <1>3
<1>6. \A t : t \in Of(s, m) <=> (t.msg = m /\ t = h) \/ t \in Of(u, m)
  <2> SUFFICES ASSUME NEW t
               PROVE  t \in Of(s, m) <=> (t.msg = m /\ t = h) \/ t \in Of(u, m)
    OBVIOUS
  <2>1. t \in Of(s, m) => (t.msg = m /\ t = h) \/ t \in Of(u, m)
    BY <1>4, OfIn
  <2>2. (t.msg = m /\ t = h) \/ t \in Of(u, m) => t \in Of(s, m)
    BY <1>3, <1>5, OfIn
  <2> QED BY <2>1, <2>2
<1>7. One(s, m) => One(u, m) /\ (h.msg = m => Of(u, m) = {})
  <2> SUFFICES ASSUME One(s, m) PROVE One(u, m) /\ (h.msg = m => Of(u, m) = {})
    OBVIOUS
  <2>1. One(u, m)
    <3> SUFFICES ASSUME NEW i \in 1..Len(u), NEW j \in 1..Len(u), u[i].msg = m, u[j].msg = m
                 PROVE  i = j
      BY DEF One
    <3>1. i + 1 = j + 1
      BY <1>3, <1>5 DEF One
    <3> QED BY <3>1
  <2>2. ASSUME NEW t \in Of(u, m), h.msg = m
        PROVE  FALSE
    <3>1. PICK i \in 1..Len(u) : u[i] = t /\ t.msg = m
      BY <2>2, OfIn
    <3> QED BY <1>3, <1>5, <2>2, <3>1 DEF One
  <2> QED BY <2>1, <2>2
<1>8. ASSUME One(u, m), h.msg = m => Of(u, m) = {}
      PROVE  One(s, m)
  <2> SUFFICES ASSUME NEW i \in 1..Len(s), NEW j \in 1..Len(s), s[i].msg = m, s[j].msg = m
               PROVE  i = j
    BY DEF One
  <2>0. \A k \in 1..Len(u) : u[k].msg = m => u[k] \in Of(u, m)
    BY OfIn
  <2>1. CASE i = 1 \/ j = 1
    BY <1>4, <1>8, <2>0, <2>1
  <2>2. CASE i # 1 /\ j # 1
    <3>1. i - 1 \in 1..Len(u) /\ j - 1 \in 1..Len(u) /\ u[i - 1].msg = m /\ u[j - 1].msg = m
      BY <1>4, <2>2
    <3>2. i - 1 = j - 1
      BY <1>8, <3>1 DEF One
    <3> QED BY <3>2
  <2> QED BY <2>1, <2>2
<1>9. Of(s, m) = (IF h.msg = m THEN {h} ELSE {}) \cup Of(u, m)
  BY <1>6
<1> QED BY <1>1, <1>7, <1>8, <1>9 DEF u

LEMMA OfAppend ==
  ASSUME NEW s \in Seq(Task), NEW t \in Task, NEW m
  PROVE  /\ Append(s, t) \in Seq(Task)
         /\ Of(Append(s, t), m) = Of(s, m) \cup (IF t.msg = m THEN {t} ELSE {})
         /\ One(Append(s, t), m) <=> One(s, m) /\ (t.msg = m => Of(s, m) = {})
<1> DEFINE u == Append(s, t)
           n == Len(s)
<1>1. u \in Seq(Task) /\ Len(u) = n + 1 /\ n \in Nat /\ u[n + 1] = t
      /\ \A i \in 1..n : u[i] = s[i]
  BY AppendProperties, LenProperties
<1> HIDE DEF u, n
<1>2. \A i \in 1..Len(u) : i = n + 1 \/ (i \in 1..n /\ i # n + 1)
  BY <1>1
<1>3. n + 1 \in 1..Len(u) /\ \A i \in 1..n : i \in 1..Len(u) /\ i # n + 1
  BY <1>1
<1>4. \A v : v \in Of(s, m) <=> v.msg = m /\ \E i \in 1..n : s[i] = v
  BY OfIn DEF n
<1>5. \A v : v \in Of(u, m) <=> v \in Of(s, m) \/ (v.msg = m /\ v = t)
  <2> SUFFICES ASSUME NEW v
               PROVE  v \in Of(u, m) <=> v \in Of(s, m) \/ (v.msg = m /\ v = t)
    OBVIOUS
  <2>1. v \in Of(u, m) => v \in Of(s, m) \/ (v.msg = m /\ v = t)
    BY <1>1, <1>2, <1>4, OfIn
  <2>2. v \in Of(s, m) \/ (v.msg = m /\ v = t) => v \in Of(u, m)
    BY <1>1, <1>3, <1>4, OfIn
  <2> QED BY <2>1, <2>2
<1>6. One(s, m) <=> \A i, j \in 1..n : s[i].msg = m /\ s[j].msg = m => i = j
  BY DEF One, n
<1>7. One(u, m) => One(s, m) /\ (t.msg = m => Of(s, m) = {})
  <2> SUFFICES ASSUME One(u, m) PROVE One(s, m) /\ (t.msg = m => Of(s, m) = {})
    OBVIOUS
  <2>1. \A i, j \in 1..n : s[i].msg = m /\ s[j].msg = m => i = j
    BY <1>1, <1>3 DEF One
  <2>2. t.msg = m => \A i \in 1..n : s[i].msg # m
    BY <1>1, <1>3 DEF One
  <2> QED BY <1>4, <1>6, <2>1, <2>2
<1>8. One(s, m) /\ (t.msg = m => Of(s, m) = {}) => One(u, m)
  <2> SUFFICES ASSUME One(s, m), t.msg = m => Of(s, m) = {},
                      NEW i \in 1..Len(u), NEW j \in 1..Len(u), u[i].msg = m, u[j].msg = m
               PROVE  i = j
    BY DEF One
  <2>1. \A k \in 1..n : s[k].msg = m => s[k] \in Of(s, m)
    BY <1>4
  <2> QED BY <1>1, <1>2, <1>6, <2>1
<1>9. Of(u, m) = Of(s, m) \cup (IF t.msg = m THEN {t} ELSE {})
  BY <1>5
<1> QED BY <1>1, <1>7, <1>8, <1>9 DEF u

LEMMA OfEmpty ==
  ASSUME NEW m
  PROVE  Of(<<>>, m) = {} /\ One(<<>>, m)
<1>1. Len(<<>>) = 0
  OBVIOUS
<1>2. 1..0 = {}
  OBVIOUS
<1> QED BY <1>1, <1>2 DEF Of, One

-----------------------------------------------------------------------------
(* What an action has in hand *)

LEMMA Shares ==
  ASSUME NEW x \in GoodAct, x.at # "idle", NEW m
  PROVE  /\ x.op # "none" /\ x.todo \in Seq(Task) /\ x.todo # <<>> /\ x.done \in Seq(Task)
         /\ Head(x.todo) \in Task /\ Tail(x.todo) \in Seq(Task)
         /\ Of(Ahead(x), m) = (IF x.at \notin Moved /\ Head(x.todo).msg = m THEN {Head(x.todo)}
                                                                          ELSE {})
                                \cup Of(Tail(x.todo), m)
         /\ Of(Behind(x), m) = (IF x.at \in Moved /\ Head(x.todo).msg = m THEN {Head(x.todo)}
                                                                        ELSE {})
                                 \cup Of(x.done, m)
         /\ One(Ahead(x), m) <=>
              /\ One(Tail(x.todo), m)
              /\ x.at \notin Moved /\ Head(x.todo).msg = m => Of(Tail(x.todo), m) = {}
         /\ One(Behind(x), m) <=>
              /\ One(x.done, m)
              /\ x.at \in Moved /\ Head(x.todo).msg = m => Of(x.done, m) = {}
<1>1. /\ x.op # "none" /\ x.todo \in Seq(Task) /\ x.todo # <<>> /\ x.done \in Seq(Task)
  BY DEF GoodAct, Act
<1>2. /\ Head(x.todo) \in Task /\ Tail(x.todo) \in Seq(Task)
      /\ Of(x.todo, m) = (IF Head(x.todo).msg = m THEN {Head(x.todo)} ELSE {})
                           \cup Of(Tail(x.todo), m)
      /\ One(x.todo, m) <=>
           One(Tail(x.todo), m) /\ (Head(x.todo).msg = m => Of(Tail(x.todo), m) = {})
  BY <1>1, OfTail
<1>3. LET t == Head(x.todo) IN
      /\ Of(Append(x.done, t), m) = Of(x.done, m) \cup (IF t.msg = m THEN {t} ELSE {})
      /\ One(Append(x.done, t), m) <=> One(x.done, m) /\ (t.msg = m => Of(x.done, m) = {})
  BY <1>1, <1>2, OfAppend
<1>4. CASE x.at \in Moved
  <2>1. Ahead(x) = Tail(x.todo) /\ Behind(x) = Append(x.done, Head(x.todo))
    BY <1>4 DEF Ahead, Behind
  <2> QED BY <1>1, <1>2, <1>3, <1>4, <2>1
<1>5. CASE x.at \notin Moved
  <2>1. Ahead(x) = x.todo /\ Behind(x) = x.done
    BY <1>5 DEF Ahead, Behind
  <2> QED BY <1>1, <1>2, <1>5, <2>1
<1> QED BY <1>4, <1>5

LEMMA NothingInIdle ==
  ASSUME NEW m
  PROVE  /\ Of(Ahead(Idle), m) = {} /\ Of(Behind(Idle), m) = {} /\ ~Has(Idle, m)
         /\ One(Ahead(Idle), m) /\ One(Behind(Idle), m)
         /\ \A f, g : ~LooseIn(Idle, m, f, g)
<1>1. Ahead(Idle) = <<>> /\ Behind(Idle) = <<>> /\ Idle.op # "undo"
  BY DEF Ahead, Behind, Idle, Moved
<1> QED BY <1>1, OfEmpty DEF Has, LooseIn

\* What is still to do with m gets no more, and what was done no less.
Smaller(x, y, m) ==
  \/ y = Idle
  \/ /\ y.op = x.op
     /\ Has(y, m) => Has(x, m)
     /\ One(Ahead(x), m) => One(Ahead(y), m)
     /\ One(Behind(x), m) => One(Behind(y), m)
     /\ Of(Behind(y), m) # {} => Of(Behind(x), m) # {}
     /\ x.op # "undo" => \A t \in Of(Ahead(y), m) : \E u \in Of(Ahead(x), m) :
          t.folder = u.folder /\ t.uid = u.uid /\ t.validity = u.validity

LEMMA PutView ==
  ASSUME GoodActions, NEW a \in Action, actions[a].at # "idle",
         NEW t \in Task, NEW at \in {"read", "lock", "move", "remove", "drop", "note"},
         actions' = [actions EXCEPT ![a].at = at, ![a].todo = <<t>> \o Tail(@)]
  PROVE  /\ \A b \in Action \ {a} : actions'[b] = actions[b]
         /\ actions'[a] \in GoodAct /\ actions'[a].at = at /\ actions'[a].op = actions[a].op
         /\ actions'[a].done = actions[a].done
         /\ Head(actions'[a].todo) = t /\ Tail(actions'[a].todo) = Tail(actions[a].todo)
<1>0. PICK x \in GoodAct : x = actions[a]
  BY DEF GoodActions
<1>1. x \in Act /\ x.todo \in Seq(Task) /\ x.todo # <<>> /\ x.op # "none"
  BY <1>0 DEF GoodAct, Act
<1> DEFINE todo == <<t>> \o Tail(x.todo)
<1>2. todo \in Seq(Task) /\ todo # <<>> /\ Len(todo) = Len(x.todo) /\ todo[1] = t
      /\ \A i \in 2..Len(x.todo) : todo[i] = x.todo[i]
  BY <1>1, SetHead
<1>3. Head(todo) = t /\ Tail(todo) = Tail(x.todo)
  <2>1. /\ Tail(todo) \in Seq(Task) /\ Len(Tail(todo)) = Len(todo) - 1 /\ Head(todo) = todo[1]
        /\ \A i \in 1..Len(Tail(todo)) : Tail(todo)[i] = todo[i + 1]
    BY <1>2, HeadTailProperties
  <2>2. /\ Tail(x.todo) \in Seq(Task) /\ Len(Tail(x.todo)) = Len(x.todo) - 1
        /\ \A i \in 1..Len(Tail(x.todo)) : Tail(x.todo)[i] = x.todo[i + 1]
    BY <1>1, HeadTailProperties
  <2>3. Len(x.todo) \in Nat \ {0}
    BY <1>1, EmptySeq
  <2> DEFINE p == Tail(todo)
             q == Tail(x.todo)
  <2>4. p \in Seq(Task) /\ q \in Seq(Task) /\ Len(p) = Len(q)
    BY <1>2, <2>1, <2>2
  <2>5. ASSUME NEW i \in 1..Len(p) PROVE p[i] = q[i]
    <3>1. i + 1 \in 2..Len(x.todo)
      BY <1>2, <2>1, <2>3
    <3> HIDE DEF todo
    <3> QED BY <1>2, <2>1, <2>2, <2>4, <3>1
  <2>6. p = q
    <3> HIDE DEF p, q
    <3> QED BY <2>4, <2>5, SeqEqual
  <2> QED BY <1>2, <2>1, <2>6
<1> HIDE DEF todo
<1>4. PICK y : y = [op |-> x.op, at |-> at, todo |-> todo, done |-> x.done]
  OBVIOUS
<1>5. y \in GoodAct
  BY <1>1, <1>2, <1>4 DEF GoodAct, Act
<1>6. actions' = [actions EXCEPT ![a] = y]
  <2>1. actions' = [actions EXCEPT ![a] = [x EXCEPT !.at = at, !.todo = todo]]
    BY <1>0 DEF todo
  <2>2. [x EXCEPT !.at = at, !.todo = todo] = [op |-> x.op, at |-> at, todo |-> todo, done |-> x.done]
    BY <1>1, Updated
  <2> QED BY <1>4, <2>1, <2>2
<1>7. actions'[a] = y /\ \A b \in Action \ {a} : actions'[b] = actions[b]
  BY <1>6 DEF GoodActions
<1>8. y.at = at /\ y.op = x.op /\ y.done = x.done /\ y.todo = todo
  BY <1>4
<1> QED BY <1>0, <1>3, <1>5, <1>7, <1>8

\* The head is replaced, and not moved by that.
LEMMA PutSmaller ==
  ASSUME NEW x \in GoodAct, x.at # "idle", NEW y \in GoodAct, y.at # "idle", NEW m,
         y.op = x.op, y.done = x.done, Tail(y.todo) = Tail(x.todo),
         Head(y.todo).msg = Head(x.todo).msg, Head(y.todo).folder = Head(x.todo).folder,
         x.op # "undo" => /\ Head(y.todo).uid = Head(x.todo).uid
                          /\ Head(y.todo).validity = Head(x.todo).validity,
         x.op = "undo" \/ x.at \in Moved => Head(y.todo).to = Head(x.todo).to,
         (y.at \in Moved <=> x.at \in Moved) \/ Head(x.todo).msg # m
  PROVE  Smaller(x, y, m) /\ \A f, g : LooseIn(y, m, f, g) <=> LooseIn(x, m, f, g)
<1> DEFINE h == Head(x.todo)
           k == Head(y.todo)
           rest == Of(Tail(x.todo), m)
<1>1. /\ Of(Ahead(x), m) = (IF x.at \notin Moved /\ h.msg = m THEN {h} ELSE {}) \cup rest
      /\ Of(Behind(x), m) = (IF x.at \in Moved /\ h.msg = m THEN {h} ELSE {}) \cup Of(x.done, m)
      /\ One(Ahead(x), m) <=>
           One(Tail(x.todo), m) /\ (x.at \notin Moved /\ h.msg = m => rest = {})
      /\ One(Behind(x), m) <=>
           One(x.done, m) /\ (x.at \in Moved /\ h.msg = m => Of(x.done, m) = {})
      /\ h \in Task
  BY Shares
<1>2. /\ Of(Ahead(y), m) = (IF y.at \notin Moved /\ k.msg = m THEN {k} ELSE {}) \cup rest
      /\ Of(Behind(y), m) = (IF y.at \in Moved /\ k.msg = m THEN {k} ELSE {}) \cup Of(x.done, m)
      /\ One(Ahead(y), m) <=>
           One(Tail(x.todo), m) /\ (y.at \notin Moved /\ k.msg = m => rest = {})
      /\ One(Behind(y), m) <=>
           One(x.done, m) /\ (y.at \in Moved /\ k.msg = m => Of(x.done, m) = {})
      /\ k \in Task
  BY Shares
<1>3. /\ k.msg = h.msg /\ k.folder = h.folder
      /\ x.op # "undo" => k.uid = h.uid /\ k.validity = h.validity
      /\ x.op = "undo" \/ x.at \in Moved => k.to = h.to
      /\ (y.at \in Moved <=> x.at \in Moved) \/ h.msg # m
  OBVIOUS
<1> HIDE DEF h, k, rest
<1>4. Of(Ahead(y), m) # {} => Of(Ahead(x), m) # {}
  BY <1>1, <1>2, <1>3
<1>5. Of(Behind(y), m) # {} => Of(Behind(x), m) # {}
  BY <1>1, <1>2, <1>3
<1>6. ASSUME x.op # "undo"
      PROVE  \A t \in Of(Ahead(y), m) : \E u \in Of(Ahead(x), m) :
               t.folder = u.folder /\ t.uid = u.uid /\ t.validity = u.validity
  BY <1>1, <1>2, <1>3, <1>6
<1>7. Smaller(x, y, m)
  BY <1>1, <1>2, <1>3, <1>4, <1>5, <1>6 DEF Smaller, Has
<1>8. ASSUME NEW f, NEW g
      PROVE  LooseIn(y, m, f, g) <=> LooseIn(x, m, f, g)
  <2>1. CASE x.op = "undo"
    <3>1. (\E t \in Of(Ahead(y), m) : t.to = f /\ t.folder = g)
            <=> \E t \in Of(Ahead(x), m) : t.to = f /\ t.folder = g
      BY <1>1, <1>2, <1>3, <2>1
    <3> QED BY <2>1, <3>1 DEF LooseIn
  <2>2. CASE x.op # "undo"
    <3>1. (\E t \in Of(Behind(y), m) : t.folder = f /\ t.to = g)
            <=> \E t \in Of(Behind(x), m) : t.folder = f /\ t.to = g
      BY <1>1, <1>2, <1>3, <2>2
    <3> QED BY <2>2, <3>1 DEF LooseIn
  <2> QED BY <2>1, <2>2
<1> QED BY <1>7, <1>8

\* The head is done with, and the next is up or none is.
LEMMA FinishView ==
  ASSUME GoodActions, NEW a \in Action, actions[a].at # "idle",
         NEW done \in Seq(Task), Finish(a, done)
  PROVE  /\ \A b \in Action \ {a} : actions'[b] = actions[b]
         /\ \/ /\ actions'[a] = Idle /\ Tail(actions[a].todo) = <<>>
               /\ archived' = IF actions[a].op = "undo" \/ done = <<>> THEN archived
                                                                       ELSE Append(archived, done)
            \/ /\ Ahead(actions'[a]) = Tail(actions[a].todo) /\ Behind(actions'[a]) = done
               /\ actions'[a].op = actions[a].op
               /\ actions'[a].at = IF actions[a].op = "undo" THEN "lock" ELSE "read"
               /\ actions'[a].todo = Tail(actions[a].todo) /\ actions'[a].todo # <<>>
               /\ actions'[a] \in GoodAct /\ archived' = archived
<1> DEFINE x == actions[a]
<1>1. /\ x \in GoodAct /\ x.todo \in Seq(Task) /\ x.todo # <<>> /\ Len(x.todo) \in Nat \ {0}
      /\ x.op # "none" /\ actions \in [Action -> GoodAct]
  BY ActAt DEF GoodActions
<1>2. Tail(x.todo) \in Seq(Task) /\ Len(Tail(x.todo)) = Len(x.todo) - 1
  BY <1>1, HeadTailProperties
<1>3. CASE Len(x.todo) > 1
  <2> DEFINE y == [op |-> x.op, at |-> IF x.op = "undo" THEN "lock" ELSE "read",
                   todo |-> Tail(x.todo), done |-> done]
  <2>1. actions' = [actions EXCEPT ![a] = y] /\ archived' = archived
    BY <1>3 DEF Finish
  <2>2. actions'[a] = y /\ \A b \in Action \ {a} : actions'[b] = actions[b]
    <3> HIDE DEF y
    <3> QED BY <1>1, <2>1
  <2>3. /\ y.op = x.op /\ y.todo = Tail(x.todo) /\ y.done = done
        /\ y.at = IF x.op = "undo" THEN "lock" ELSE "read"
    OBVIOUS
  <2>4. Tail(x.todo) # <<>>
    <3> DEFINE rest == Tail(x.todo)
               n    == Len(x.todo)
    <3>1. rest \in Seq(Task) /\ Len(rest) = n - 1 /\ n \in Nat /\ n > 1
      BY <1>1, <1>2, <1>3
    <3> HIDE DEF rest, n
    <3>2. rest # <<>>
      BY <3>1, EmptySeq
    <3> QED BY <3>2 DEF rest
  <2>5. y \in GoodAct
    BY <1>1, <1>2, <2>4 DEF GoodAct, Act
  <2> HIDE DEF y
  <2>6. Ahead(y) = Tail(x.todo) /\ Behind(y) = done
    BY <2>3 DEF Ahead, Behind, Moved
  <2> QED BY <2>1, <2>2, <2>3, <2>4, <2>5, <2>6
<1>4. CASE ~(Len(x.todo) > 1)
  <2>1. /\ actions' = [actions EXCEPT ![a] = Idle]
        /\ archived' = IF x.op = "undo" \/ done = <<>> THEN archived ELSE Append(archived, done)
    BY <1>4 DEF Finish
  <2>2. actions'[a] = Idle /\ \A b \in Action \ {a} : actions'[b] = actions[b]
    BY <1>1, <2>1
  <2>3. Tail(x.todo) = <<>>
    BY <1>1, <1>2, <1>4, EmptySeq
  <2> QED BY <2>1, <2>2, <2>3
<1> QED BY <1>3, <1>4

\* What the tasks are that an action finishes with.
Done(a) == {actions[a].done} \cup
             IF actions[a].at \in Moved THEN {Append(actions[a].done, Now(a))} ELSE {}

LEMMA FinishSmaller ==
  ASSUME GoodActions, NEW a \in Action, actions[a].at # "idle",
         NEW done \in Done(a), Finish(a, done), NEW m
  PROVE  Smaller(actions[a], actions'[a], m)
<1> DEFINE x == actions[a]
<1>1. x \in GoodAct /\ x.at # "idle"
  BY DEF GoodActions
<1>2. PICK y : y = actions'[a]
  OBVIOUS
<1>3. done \in Seq(Task)
  BY DoneTasks DEF Done
<1>4. \/ y = Idle
      \/ Ahead(y) = Tail(x.todo) /\ Behind(y) = done /\ y.op = x.op
  BY <1>2, <1>3, FinishView
<1>5. done = x.done \/ done = Behind(x)
  BY DEF Done, Behind, Now
<1> HIDE DEF x
<1>6. /\ Of(Ahead(x), m) = (IF x.at \notin Moved /\ Head(x.todo).msg = m THEN {Head(x.todo)}
                                                                       ELSE {})
                             \cup Of(Tail(x.todo), m)
      /\ Of(x.done, m) \subseteq Of(Behind(x), m)
      /\ One(Ahead(x), m) => One(Tail(x.todo), m)
      /\ One(Behind(x), m) => One(x.done, m)
  BY <1>1, Shares
<1>7. ASSUME Ahead(y) = Tail(x.todo), Behind(y) = done, y.op = x.op
      PROVE  Smaller(x, y, m)
  <2>1. Of(Ahead(y), m) \subseteq Of(Ahead(x), m) /\ Of(Behind(y), m) \subseteq Of(Behind(x), m)
    BY <1>5, <1>6, <1>7
  <2>2. One(Ahead(x), m) => One(Ahead(y), m)
    BY <1>6, <1>7
  <2>3. One(Behind(x), m) => One(Behind(y), m)
    BY <1>5, <1>6, <1>7
  <2> QED BY <1>7, <2>1, <2>2, <2>3 DEF Smaller, Has
<1>8. Smaller(x, y, m)
  BY <1>4, <1>7 DEF Smaller
<1> QED BY <1>2, <1>8 DEF x

-----------------------------------------------------------------------------
(* Hands *)

\* What is left of m was left before, and where it is now unless it is renumbered.
LeftKept(m) ==
  \A c \in Left(m)' : /\ c.folder \in Folder
                      /\ \E d \in Left(m) :
                           /\ d.folder = c.folder
                           /\ uidValidity'[c.folder] = uidValidity[c.folder] => d.uid = c.uid

LEMMA NothingNamed ==
  ASSUME GoodServer, GoodServer', Follows, NEW t \in Task, Sound(t), NEW m, LeftKept(m),
         t.validity = uidValidity[t.folder] => Named(t) \cap Left(m) = {},
         t.validity = uidValidity'[t.folder]
  PROVE  Named(t)' \cap Left(m)' = {}
<1>1. /\ t.folder \in Folder /\ t.uid \in Nat /\ t.validity \in Nat
      /\ uidValidity[t.folder] \in Nat /\ uidValidity'[t.folder] \in Nat
  BY TaskFields DEF GoodServer
<1>2. uidValidity'[t.folder] = uidValidity[t.folder]
  BY <1>1 DEF Follows, Sound
<1> SUFFICES ASSUME NEW c \in Left(m)', c \in Named(t)' PROVE FALSE
  OBVIOUS
<1>3. c.folder = t.folder /\ c.uid = t.uid
  BY DEF Named
<1>4. PICK d \in Left(m) : d.folder = c.folder /\ d.uid = c.uid
  BY <1>2, <1>3 DEF LeftKept
<1>5. d \in Named(t)
  BY <1>3, <1>4 DEF Named, Left
<1> QED BY <1>2, <1>5

LEMMA AheadSound ==
  ASSUME GoodActions, NEW a \in Action, NEW m, NEW t \in Of(Ahead(actions[a]), m)
  PROVE  t \in Task /\ Sound(t)
<1> DEFINE x == actions[a]
<1>1. x \in GoodAct
  BY DEF GoodActions
<1>2. x.at # "idle"
  <2>1. x.at = "idle" => x.todo = <<>> /\ Ahead(x) = x.todo
    BY <1>1 DEF GoodAct, Act, Ahead, Moved
  <2> QED BY <2>1, OfEmpty
<1>3. t \in Of(x.todo, m)
  <2>1. x.todo \in Seq(Task) /\ x.todo # <<>>
    BY <1>1, <1>2, Shares
  <2>2. Of(Ahead(x), m) = Of(x.todo, m) \/ Of(Ahead(x), m) = Of(Tail(x.todo), m)
    BY DEF Ahead
  <2> QED BY <2>1, <2>2, OfTail
<1>4. PICK i \in 1..Len(x.todo) : x.todo[i] = t
  BY <1>3, OfIn
<1>5. x.todo \in Seq(Task)
  BY <1>1, <1>2, Shares
<1> QED BY <1>4, <1>5, ElementOfSeq DEF GoodActions

LEMMA OnceSmaller ==
  ASSUME MInv, GoodServer', Follows, NEW a \in Action, NEW m, LeftKept(m),
         NEW x, x = actions[a], NEW y, OnceIn(x, m), Smaller(x, y, m)
  PROVE  OnceIn(y, m)'
<1>1. CASE y = Idle
  BY <1>1, NothingInIdle DEF OnceIn, Idle
<1>2. CASE y # Idle
  <2>1. y.op = x.op
    BY <1>2 DEF Smaller
  <2>2. CASE x.op = "undo"
    <3>1. One(Ahead(y), m)
      BY <1>2, <2>2 DEF OnceIn, Smaller
    <3> QED BY <2>1, <2>2, <3>1 DEF OnceIn
  <2>3. CASE x.op # "undo"
    <3>1. One(Behind(y), m)
      BY <1>2, <2>3 DEF OnceIn, Smaller
    <3>2. ASSUME Of(Behind(y), m) # {}, NEW t \in Of(Ahead(y), m),
                 t.validity = uidValidity'[t.folder]
          PROVE  Named(t)' \cap Left(m)' = {}
      <4>1. PICK u \in Of(Ahead(x), m) :
              t.folder = u.folder /\ t.uid = u.uid /\ t.validity = u.validity
        BY <1>2, <2>3, <3>2 DEF Smaller
      <4>2. u.validity = uidValidity[u.folder] => Named(u) \cap Left(m) = {}
        BY <1>2, <2>3, <3>2 DEF Smaller, OnceIn
      <4>3. Named(u)' \cap Left(m)' = {}
        BY <3>2, <4>1, <4>2, AheadSound, NothingNamed DEF MInv
      <4> QED BY <4>1, <4>3 DEF Named
    <3> QED BY <2>1, <2>3, <3>1, <3>2 DEF OnceIn
  <2> QED BY <2>2, <2>3
<1> QED BY <1>1, <1>2

LEMMA HandsKept ==
  ASSUME MInv, GoodServer', Follows, NEW m, LeftKept(m), Hands(m),
         \A b \in Action : actions'[b] = actions[b] \/ Smaller(actions[b], actions'[b], m)
  PROVE  Hands(m)'
<1>1. ASSUME NEW b \in Action
      PROVE  /\ Smaller(actions[b], actions'[b], m)
             /\ Has(actions'[b], m) => Has(actions[b], m)
             /\ OnceIn(actions[b], m)'
  <2>1. PICK x, y : x = actions[b] /\ y = actions'[b]
    OBVIOUS
  <2>2. Smaller(x, y, m)
    <3>1. Smaller(x, x, m)
      BY DEF Smaller
    <3> QED BY <2>1, <3>1
  <2>3. Has(y, m) => Has(x, m)
    BY <2>2, NothingInIdle DEF Smaller
  <2>4. OnceIn(x, m)
    BY <2>1 DEF Hands, Once
  <2>5. OnceIn(y, m)'
    BY <2>1, <2>2, <2>4, OnceSmaller
  <2> QED BY <2>1, <2>2, <2>3, <2>5
<1>2. OneHand(m)'
  BY <1>1 DEF Hands, OneHand
<1>3. Once(m)'
  BY <1>1 DEF Once
<1> QED BY <1>2, <1>3 DEF Hands

-----------------------------------------------------------------------------
(* Ways *)

LEMMA AfterPrefix ==
  ASSUME NEW s, NEW u, NEW m, NEW n \in Nat, NEW f, \A i \in 1..n : u[i] = s[i]
  PROVE  After(u, m, n, f) <=> After(s, m, n, f)
<1>1. \A i \in 1..n : Of(u[i], m) = Of(s[i], m)
  OBVIOUS
<1>2. \A i \in 1..n : \A k \in (i + 1)..n : k \in 1..n
  OBVIOUS
<1> QED BY <1>1, <1>2 DEF After

\* What the last batch of a stack has to do with m.
LEMMA AfterNone ==
  ASSUME NEW s, NEW m, NEW n \in Nat, NEW k, k = n + 1, NEW f, Of(s[k], m) = {}
  PROVE  After(s, m, k, f) <=> After(s, m, n, f)
<1>1. \A i \in 1..k : i \in 1..n \/ i = k
  OBVIOUS
<1>2. k \in 1..k /\ \A i \in 1..n : i \in 1..k /\ k \in (i + 1)..k
  OBVIOUS
<1>3. \A i \in 1..n : \A j \in (i + 1)..k : j \in (i + 1)..n \/ j = k
  OBVIOUS
<1>4. \A i \in 1..n : \A j \in (i + 1)..n : j \in (i + 1)..k
  OBVIOUS
<1>5. After(s, m, k, f) => After(s, m, n, f)
  BY <1>1, <1>2, <1>4 DEF After, Took
<1>6. After(s, m, n, f) => After(s, m, k, f)
  BY <1>1, <1>2, <1>3 DEF After
<1> QED BY <1>5, <1>6

LEMMA AfterSome ==
  ASSUME NEW s, NEW m, NEW n \in Nat, NEW k, k = n + 1, NEW f, Of(s[k], m) # {}
  PROVE  After(s, m, k, f) <=> Took(s[k], m, f)
<1>1. k \in 1..k /\ \A i \in 1..k : i # k => k \in (i + 1)..k
  OBVIOUS
<1>2. (k + 1)..k = {}
  OBVIOUS
<1>3. After(s, m, k, f) => \E t \in Of(s[k], m) : t.to = f
  BY <1>1 DEF After, Took
<1>4. Took(s[k], m, f) => After(s, m, k, f)
  BY <1>1, <1>2 DEF After, Took
<1> QED BY <1>3, <1>4 DEF After, Took

LEMMA AfterHome ==
  ASSUME UNCHANGED home, NEW s, s = archived', NEW m, NEW n, NEW f
  PROVE  After(archived, m, n, f)' <=> After(s, m, n, f)
BY DEF After

LEMMA WayKept ==
  ASSUME UNCHANGED <<home, archived>>, NEW m, Way(m),
         \A f, g : Loose(m, f, g)' => Loose(m, f, g),
         LeftKept(m),
         Left(m)' = {} \/ \A f, g : Loose(m, f, g) => Loose(m, f, g)'
  PROVE  Way(m)'
<1>1. \A n, f : After(archived, m, n, f)' <=> After(archived, m, n, f)
  BY DEF After
<1>2. Chain(m)'
  BY <1>1 DEF Way, Chain
<1>3. Leaves(m)'
  BY <1>1 DEF Way, Leaves
<1>4. Located(m)'
  <2> SUFFICES ASSUME NEW c \in Left(m)' PROVE OnRoute(m, c.folder)'
    BY DEF Located
  <2>1. PICK d \in Left(m) : d.folder = c.folder
    BY DEF LeftKept
  <2>2. \A f, g : Loose(m, f, g)' <=> Loose(m, f, g)
    OBVIOUS
  <2>3. OnRoute(m, d.folder)
    BY DEF Way, Located
  <2> QED BY <1>1, <2>1, <2>2, <2>3 DEF OnRoute
<1> QED BY <1>2, <1>3, <1>4 DEF Way

\* A batch is done and goes on the stack: what it did to m is loose no longer.
LEMMA WayAppended ==
  ASSUME GoodActions, UNCHANGED home, NEW m, Way(m), NEW done \in Seq(Task),
         archived' = Append(archived, done), One(done, m),
         Of(done, m) = {} => \A f, g : Loose(m, f, g)' <=> Loose(m, f, g),
         Of(done, m) # {} => \A f, g : ~Loose(m, f, g)',
         Of(done, m) # {} => \A f, g : Loose(m, f, g) <=>
                               \E t \in Of(done, m) : t.folder = f /\ t.to = g,
         LeftKept(m)
  PROVE  Way(m)'
<1> DEFINE n == Len(archived)
<1>0. PICK s, u : s = archived /\ u = archived'
  OBVIOUS
<1>1. /\ n \in Nat /\ Len(u) = n + 1 /\ u[n + 1] = done
      /\ \A i \in 1..n : u[i] = s[i]
  BY <1>0, AppendProperties, LenProperties DEF GoodActions
<1>2. \A k, f : After(archived, m, k, f)' <=> After(u, m, k, f)
  BY <1>0, AfterHome
<1> HIDE DEF n
<1>3. ASSUME NEW k \in 0..n, NEW f
      PROVE  After(u, m, k, f) <=> After(archived, m, k, f)
  <2>1. k \in Nat /\ \A i \in 1..k : u[i] = s[i]
    BY <1>1
  <2> QED BY <1>0, <2>1, AfterPrefix
<1>4. \A f : /\ Of(done, m) = {} => (After(u, m, n + 1, f) <=> After(archived, m, n, f))
             /\ Of(done, m) # {} => (After(u, m, n + 1, f) <=> Took(done, m, f))
  <2> SUFFICES ASSUME NEW f
               PROVE  /\ Of(done, m) = {} =>
                           (After(u, m, n + 1, f) <=> After(archived, m, n, f))
                      /\ Of(done, m) # {} =>
                           (After(u, m, n + 1, f) <=> Took(done, m, f))
    OBVIOUS
  <2>1. n \in 0..n
    BY <1>1
  <2>2. After(u, m, n, f) <=> After(archived, m, n, f)
    BY <1>3, <2>1
  <2>3. PICK k : k = n + 1 /\ n \in Nat
    BY <1>1
  <2>4. Of(u[k], m) = {} => (After(u, m, k, f) <=> After(u, m, n, f))
    BY <2>3, AfterNone
  <2>5. Of(u[k], m) # {} => (After(u, m, k, f) <=> Took(u[k], m, f))
    BY <2>3, AfterSome
  <2> QED BY <1>1, <2>2, <2>3, <2>4, <2>5
<1>5. \A t \in Of(done, m) : t.folder \in Folder /\ t.to \in Folder
  <2>1. \A t \in Of(done, m) : t \in Task
    BY OfIn, ElementOfSeq
  <2> QED BY <2>1, TaskFields
<1>6. Chain(m)'
  <2> SUFFICES ASSUME NEW i \in 1..(n + 1)
               PROVE  One(u[i], m) /\ \A t \in Of(u[i], m) : After(u, m, i - 1, t.folder)
    BY <1>0, <1>1, <1>2 DEF Chain
  <2>1. CASE i = n + 1
    <3>1. n \in 0..n
      BY <1>1
    <3>2. \A t \in Of(done, m) : After(archived, m, n, t.folder)
      BY <1>5 DEF Way, Leaves, n
    <3> QED BY <1>1, <1>3, <2>1, <3>1, <3>2
  <2>2. CASE i # n + 1
    <3>1. i \in 1..n /\ i - 1 \in 0..n
      BY <1>1, <2>2
    <3>2. One(s[i], m) /\ \A t \in Of(s[i], m) : After(archived, m, i - 1, t.folder)
      BY <1>0, <3>1 DEF Way, Chain, n
    <3> QED BY <1>1, <1>3, <3>1, <3>2
  <2> QED BY <2>1, <2>2
<1>7. Leaves(m)'
  <2> SUFFICES ASSUME NEW f \in Folder, NEW g \in Folder, Loose(m, f, g)'
               PROVE  After(u, m, n + 1, f)
    BY <1>0, <1>1, <1>2 DEF Leaves
  <2>1. Of(done, m) = {} /\ Loose(m, f, g)
    OBVIOUS
  <2>2. After(archived, m, n, f)
    BY <2>1 DEF Way, Leaves, n
  <2> QED BY <1>4, <2>1, <2>2
<1>8. Located(m)'
  <2> SUFFICES ASSUME NEW c \in Left(m)' PROVE OnRoute(m, c.folder)'
    BY DEF Located
  <2>1. PICK d \in Left(m) : d.folder = c.folder
    BY DEF LeftKept
  <2>2. OnRoute(m, c.folder)
    BY <2>1 DEF Way, Located
  <2>3. OnRoute(m, c.folder)' <=>
          \/ \E f \in Folder : Loose(m, f, c.folder)'
          \/ (\A f, h \in Folder : ~Loose(m, f, h)') /\ After(u, m, n + 1, c.folder)
    BY <1>0, <1>1, <1>2 DEF OnRoute
  <2>4. CASE Of(done, m) = {}
    BY <1>4, <2>2, <2>3, <2>4 DEF OnRoute, n
  <2>5. CASE Of(done, m) # {}
    <3>1. PICK t \in Of(done, m) : t.to = c.folder
      <4>1. PICK t \in Of(done, m) : TRUE
        BY <2>5
      <4>2. Loose(m, t.folder, t.to)
        BY <2>5
      <4>3. \E f \in Folder : Loose(m, f, c.folder)
        BY <1>5, <2>2, <4>2 DEF OnRoute
      <4> QED BY <2>5, <4>3
    <3> QED BY <1>4, <2>3, <2>5, <3>1 DEF Took
  <2> QED BY <2>4, <2>5
<1> QED BY <1>6, <1>7, <1>8 DEF Way

\* What is left of the stack when the last batch is taken.
LEMMA Popped ==
  ASSUME GoodActions, archived # <<>>, archived' = Front(archived)
  PROVE  /\ Len(archived) \in Nat \ {0} /\ Len(archived') = Len(archived) - 1
         /\ Last(archived) = archived[Len(archived)]
         /\ \A i \in 1..(Len(archived) - 1) : archived'[i] = archived[i]
<1> DEFINE n == Len(archived) - 1
<1>1. Len(archived) \in Nat \ {0}
  BY EmptySeq, LenProperties DEF GoodActions
<1>2. n \in Int /\ n \in Nat /\ 1 \in Int /\ \A i \in 1..n : i \in 1..Len(archived)
  BY <1>1
<1>3. \A i \in 1..n : archived[i] \in Seq(Task) \ {<<>>}
  BY <1>2, ElementOfSeq DEF GoodActions
<1>4. archived' = SubSeq(archived, 1, n)
  BY DEF Front
<1> HIDE DEF n
<1>5. /\ Len(SubSeq(archived, 1, n)) = IF 1 <= n THEN n - 1 + 1 ELSE 0
      /\ \A i \in 1..(n - 1 + 1) : SubSeq(archived, 1, n)[i] = archived[1 + i - 1]
  BY <1>2, <1>3, SubSeqProperties
<1>6. Len(archived') = n /\ \A i \in 1..n : archived'[i] = archived[i]
  BY <1>2, <1>4, <1>5
<1> QED BY <1>1, <1>6 DEF Last, n

\* The last batch is popped, to be taken back: what it did to m is loose again.
LEMMA WayPopped ==
  ASSUME GoodActions, UNCHANGED home, NEW m, Way(m), archived # <<>>, archived' = Front(archived),
         Of(Last(archived), m) = {} => \A f, g : Loose(m, f, g)' <=> Loose(m, f, g),
         Of(Last(archived), m) # {} =>
           /\ \A f, g : ~Loose(m, f, g)
           /\ \A f, g : Loose(m, f, g)' <=>
                \E t \in Of(Last(archived), m) : t.folder = f /\ t.to = g,
         LeftKept(m)
  PROVE  Way(m)'
<1> DEFINE n == Len(archived) - 1
           last == Last(archived)
<1>0. PICK s, u : s = archived /\ u = archived'
  OBVIOUS
<1>1. /\ n \in Nat /\ Len(s) = n + 1 /\ Len(u) = n /\ s[n + 1] = last
      /\ \A i \in 1..n : u[i] = s[i]
  BY <1>0, Popped
<1>2. \A k, f : After(archived, m, k, f)' <=> After(u, m, k, f)
  BY <1>0, AfterHome
<1> HIDE DEF n, last
<1>3. ASSUME NEW k \in 0..n, NEW f
      PROVE  After(u, m, k, f) <=> After(s, m, k, f)
  <2>1. k \in Nat /\ \A i \in 1..k : u[i] = s[i]
    BY <1>1
  <2> QED BY <2>1, AfterPrefix
<1>4. \A f : /\ Of(last, m) = {} => (After(s, m, n + 1, f) <=> After(u, m, n, f))
             /\ Of(last, m) # {} => (After(s, m, n + 1, f) <=> Took(last, m, f))
  <2> SUFFICES ASSUME NEW f
               PROVE  /\ Of(last, m) = {} => (After(s, m, n + 1, f) <=> After(u, m, n, f))
                      /\ Of(last, m) # {} =>
                           (After(s, m, n + 1, f) <=> Took(last, m, f))
    OBVIOUS
  <2>1. n \in 0..n
    BY <1>1
  <2>2. After(u, m, n, f) <=> After(s, m, n, f)
    BY <1>3, <2>1
  <2>3. PICK k : k = n + 1 /\ n \in Nat
    BY <1>1
  <2>4. Of(s[k], m) = {} => (After(s, m, k, f) <=> After(s, m, n, f))
    BY <2>3, AfterNone
  <2>5. Of(s[k], m) # {} => (After(s, m, k, f) <=> Took(s[k], m, f))
    BY <2>3, AfterSome
  <2> QED BY <1>1, <2>2, <2>3, <2>4, <2>5
<1>5. \A i \in 1..(n + 1) :
        One(s[i], m) /\ \A t \in Of(s[i], m) : After(s, m, i - 1, t.folder)
  BY <1>0, <1>1 DEF Way, Chain
<1>6. Chain(m)'
  <2> SUFFICES ASSUME NEW i \in 1..n
               PROVE  One(u[i], m) /\ \A t \in Of(u[i], m) : After(u, m, i - 1, t.folder)
    BY <1>0, <1>1, <1>2 DEF Chain
  <2>1. i \in 1..(n + 1) /\ i - 1 \in 0..n
    BY <1>1
  <2> QED BY <1>1, <1>3, <1>5, <2>1
<1>7. Leaves(m)'
  <2> SUFFICES ASSUME NEW f \in Folder, NEW g \in Folder, Loose(m, f, g)'
               PROVE  After(u, m, n, f)
    BY <1>0, <1>1, <1>2 DEF Leaves
  <2>1. CASE Of(last, m) = {}
    <3>1. Loose(m, f, g)
      BY <2>1 DEF last
    <3>2. After(s, m, n + 1, f)
      BY <1>0, <1>1, <3>1 DEF Way, Leaves
    <3> QED BY <1>4, <2>1, <3>2
  <2>2. CASE Of(last, m) # {}
    <3>1. PICK t \in Of(last, m) : t.folder = f /\ t.to = g
      BY <2>2 DEF last
    <3>2. n + 1 \in 1..(n + 1) /\ (n + 1) - 1 = n /\ n \in 0..n
      BY <1>1
    <3>3. After(s, m, n, f)
      BY <1>1, <1>5, <3>1, <3>2
    <3> QED BY <1>3, <3>2, <3>3
  <2> QED BY <2>1, <2>2
<1>8. Located(m)'
  <2> SUFFICES ASSUME NEW c \in Left(m)' PROVE OnRoute(m, c.folder)'
    BY DEF Located
  <2>1. PICK d \in Left(m) : d.folder = c.folder
    BY DEF LeftKept
  <2>2. OnRoute(m, c.folder)
    BY <2>1 DEF Way, Located
  <2>3. OnRoute(m, c.folder)' <=>
          \/ \E f \in Folder : Loose(m, f, c.folder)'
          \/ (\A f, h \in Folder : ~Loose(m, f, h)') /\ After(u, m, n, c.folder)
    BY <1>0, <1>1, <1>2 DEF OnRoute
  <2>4. OnRoute(m, c.folder) <=>
          \/ \E f \in Folder : Loose(m, f, c.folder)
          \/ (\A f, h \in Folder : ~Loose(m, f, h)) /\ After(s, m, n + 1, c.folder)
    BY <1>0, <1>1 DEF OnRoute
  <2>5. CASE Of(last, m) = {}
    BY <1>4, <2>2, <2>3, <2>4, <2>5 DEF last
  <2>6. CASE Of(last, m) # {}
    <3>1. PICK t \in Of(last, m) : t.to = c.folder
      BY <1>4, <2>2, <2>4, <2>6 DEF last, Took
    <3>2. t.folder \in Folder
      <4>1. last \in Seq(Task)
        <5>1. n + 1 \in 1..Len(archived)
          BY <1>0, <1>1
        <5>2. s[n + 1] \in Seq(Task) \ {<<>>}
          BY <1>0, <5>1, ElementOfSeq DEF GoodActions
        <5> QED BY <1>1, <5>2
      <4>2. t \in Task
        BY <3>1, <4>1, OfIn, ElementOfSeq
      <4> QED BY <4>2, TaskFields
    <3>3. Loose(m, t.folder, c.folder)'
      BY <2>6, <3>1 DEF last
    <3> QED BY <2>3, <3>2, <3>3
  <2> QED BY <2>5, <2>6
<1> QED BY <1>6, <1>7, <1>8 DEF Way

LEMMA LooseSame ==
  ASSUME NEW m, \A b \in Action : \A f, g : LooseIn(actions'[b], m, f, g)
                                              <=> LooseIn(actions[b], m, f, g)
  PROVE  \A f, g : Loose(m, f, g)' <=> Loose(m, f, g)
BY DEF Loose

LEMMA LooseHas ==
  ASSUME NEW x, NEW m, NEW f, NEW g, LooseIn(x, m, f, g)
  PROVE  Has(x, m)
BY DEF LooseIn, Has

\* An action is done with a message.
LEMMA FinishWay ==
  ASSUME GoodActions, NEW a \in Action, actions[a].at # "idle",
         NEW done \in Done(a), Finish(a, done), UNCHANGED home, NEW m, Hands(m), Way(m), LeftKept(m),
         \/ Now(a).msg # m
         \/ actions[a].op = "undo" /\ (actions[a].at \in Moved \/ Left(m)' = {})
         \/ actions[a].op # "undo" /\ (actions[a].at \notin Moved \/ done # actions[a].done)
  PROVE  Way(m)'
<1>0. PICK x, y : x = actions[a] /\ y = actions'[a]
  OBVIOUS
<1>1. x \in GoodAct /\ x.at # "idle" /\ Now(a) = Head(x.todo)
  BY <1>0 DEF GoodActions, Now
<1>2. done \in Seq(Task) /\ (done = x.done \/ (x.at \in Moved /\ done = Behind(x)))
  BY <1>0, DoneTasks DEF Done, Behind, Now
<1>3. /\ Of(Ahead(x), m) = (IF x.at \notin Moved /\ Head(x.todo).msg = m THEN {Head(x.todo)}
                                                                        ELSE {})
                             \cup Of(Tail(x.todo), m)
      /\ Of(Behind(x), m) = (IF x.at \in Moved /\ Head(x.todo).msg = m THEN {Head(x.todo)}
                                                                     ELSE {})
                              \cup Of(x.done, m)
      /\ One(Behind(x), m) => One(x.done, m)
  BY <1>1, Shares
<1>4. x.op # "undo" => Of(done, m) = Of(Behind(x), m) /\ One(done, m)
  <2> SUFFICES ASSUME x.op # "undo" PROVE Of(done, m) = Of(Behind(x), m) /\ One(done, m)
    OBVIOUS
  <2>1. One(Behind(x), m)
    BY <1>0 DEF Hands, Once, OnceIn
  <2> QED BY <1>0, <1>1, <1>2, <1>3, <2>1
<1>5. x.op = "undo" => Of(Tail(x.todo), m) = Of(Ahead(x), m) \/ Left(m)' = {}
  BY <1>0, <1>1, <1>3
<1>6. Of(Tail(x.todo), m) \subseteq Of(Ahead(x), m)
  BY <1>3
<1>7. /\ \A b \in Action \ {a} : actions'[b] = actions[b]
      /\ \/ /\ y = Idle /\ Tail(x.todo) = <<>>
            /\ archived' = IF x.op = "undo" \/ done = <<>> THEN archived ELSE Append(archived, done)
         \/ Ahead(y) = Tail(x.todo) /\ Behind(y) = done /\ y.op = x.op /\ archived' = archived
  BY <1>0, <1>1, <1>2, FinishView
<1>8. ASSUME archived' = archived,
             \A f, g : LooseIn(y, m, f, g) => LooseIn(x, m, f, g),
             Left(m)' = {} \/ \A f, g : LooseIn(x, m, f, g) => LooseIn(y, m, f, g)
      PROVE  Way(m)'
  <2>1. \A f, g : Loose(m, f, g)' => Loose(m, f, g)
    BY <1>0, <1>7, <1>8 DEF Loose
  <2>2. Left(m)' = {} \/ \A f, g : Loose(m, f, g) => Loose(m, f, g)'
    BY <1>0, <1>7, <1>8 DEF Loose
  <2> QED BY <1>8, <2>1, <2>2, WayKept
<1>9. CASE Ahead(y) = Tail(x.todo) /\ Behind(y) = done /\ y.op = x.op /\ archived' = archived
  <2>1. CASE x.op = "undo"
    <3>1. \A f, g : LooseIn(y, m, f, g) => LooseIn(x, m, f, g)
      BY <1>6, <1>9, <2>1 DEF LooseIn
    <3>2. Left(m)' = {} \/ \A f, g : LooseIn(x, m, f, g) => LooseIn(y, m, f, g)
      BY <1>5, <1>9, <2>1 DEF LooseIn
    <3> QED BY <1>8, <1>9, <3>1, <3>2
  <2>2. CASE x.op # "undo"
    <3>1. \A f, g : LooseIn(y, m, f, g) <=> LooseIn(x, m, f, g)
      BY <1>4, <1>9, <2>2 DEF LooseIn
    <3> QED BY <1>8, <1>9, <3>1
  <2> QED BY <2>1, <2>2
<1>10. CASE y = Idle /\ Tail(x.todo) = <<>> /\ (x.op = "undo" \/ done = <<>>) /\ archived' = archived
  <2>1. \A f, g : ~LooseIn(y, m, f, g)
    BY <1>10, NothingInIdle
  <2>2. Left(m)' = {} \/ \A f, g : ~LooseIn(x, m, f, g)
    BY <1>4, <1>5, <1>10, OfEmpty DEF LooseIn
  <2> QED BY <1>8, <1>10, <2>1, <2>2
<1>11. CASE y = Idle /\ x.op # "undo" /\ archived' = Append(archived, done)
  <2>1. \A f, g : ~LooseIn(y, m, f, g)
    BY <1>11, NothingInIdle
  <2>2. \A f, g : LooseIn(x, m, f, g) <=> \E t \in Of(done, m) : t.folder = f /\ t.to = g
    BY <1>4, <1>11 DEF LooseIn
  <2>3. CASE Of(done, m) = {}
    <3>1. \A b \in Action : \A f, g : LooseIn(actions'[b], m, f, g) <=> LooseIn(actions[b], m, f, g)
      BY <1>0, <1>7, <2>1, <2>2, <2>3
    <3>2. \A f, g : Loose(m, f, g)' <=> Loose(m, f, g)
      BY <3>1, LooseSame
    <3> QED BY <1>2, <1>4, <1>11, <2>3, <3>2, WayAppended
  <2>4. CASE Of(done, m) # {}
    <3>1. Has(x, m)
      BY <1>4, <1>11, <2>4 DEF Has
    <3>2. \A b \in Action \ {a} : ~Has(actions[b], m)
      BY <1>0, <3>1 DEF Hands, OneHand
    <3>3. \A b \in Action \ {a} : \A f, g : ~LooseIn(actions[b], m, f, g)
      BY <3>2, LooseHas
    <3>4. \A f, g : Loose(m, f, g) <=> \E t \in Of(done, m) : t.folder = f /\ t.to = g
      BY <1>0, <2>2, <3>3 DEF Loose
    <3>5. \A f, g : ~Loose(m, f, g)'
      BY <1>0, <1>7, <2>1, <3>3 DEF Loose
    <3> QED BY <1>2, <1>4, <1>11, <2>4, <3>4, <3>5, WayAppended
  <2> QED BY <2>3, <2>4
<1> QED BY <1>7, <1>9, <1>10, <1>11

-----------------------------------------------------------------------------
(* What is left of a message *)

LEMMA GoesView ==
  ASSUME GoodActions, NEW a \in Action, actions[a].at # "idle",
         NEW at \in {"read", "lock", "move", "remove", "drop", "note"}, Goes(a, at)
  PROVE  /\ \A b \in Action \ {a} : actions'[b] = actions[b]
         /\ actions'[a] \in GoodAct /\ actions'[a].at = at /\ actions'[a].op = actions[a].op
         /\ actions'[a].todo = actions[a].todo /\ actions'[a].done = actions[a].done
<1> DEFINE x == actions[a]
           y == [x EXCEPT !.at = at]
<1>1. actions \in [Action -> GoodAct] /\ x \in Act /\ x.at # "idle" /\ x \in GoodAct
  BY DEF GoodActions, GoodAct
<1>2. actions' = [actions EXCEPT ![a] = y]
  BY DEF Goes
<1>3. y \in Act /\ y.at = at /\ y.op = x.op /\ y.todo = x.todo /\ y.done = x.done
  BY <1>1 DEF Act
<1>4. y \in GoodAct
  BY <1>1, <1>3 DEF GoodAct
<1> HIDE DEF y
<1>5. actions'[a] = y /\ \A b \in Action \ {a} : actions'[b] = actions[b]
  BY <1>1, <1>2
<1> QED BY <1>3, <1>4, <1>5

\* Nobody is about to delete anything, and the copies stay where they are.
LEMMA LeftQuiet ==
  ASSUME GoodServer', NEW m, \A b \in Action : ~At(b, "remove"),
         \A c \in copies' : c.msg = m =>
           \E d \in copies : d.msg = m /\ d.folder = c.folder /\ d.uid = c.uid
  PROVE  LeftKept(m)
<1> SUFFICES ASSUME NEW c \in Left(m)'
             PROVE  c.folder \in Folder /\ \E d \in Left(m) : d.folder = c.folder /\ d.uid = c.uid
  BY DEF LeftKept
<1>1. c \in copies' /\ c.msg = m
  BY DEF Left
<1>2. c.folder \in Folder
  BY <1>1 DEF GoodServer, Copy
<1>3. PICK d \in copies : d.msg = m /\ d.folder = c.folder /\ d.uid = c.uid
  BY <1>1
<1>4. d \in Left(m)
  BY <1>3 DEF Left
<1> QED BY <1>2, <1>3, <1>4

\* The copies stay, and nobody leaves one he was about to delete.
LEMMA LeftFate ==
  ASSUME GoodServer', NEW m, UNCHANGED copies,
         \A b \in Action : At(b, "remove") =>
           m \notin Copied(b) \/ (At(b, "remove")' /\ actions'[b] = actions[b])
  PROVE  LeftKept(m)
<1> SUFFICES ASSUME NEW c \in Left(m)'
             PROVE  c.folder \in Folder /\ c \in Left(m)
  BY DEF LeftKept
<1>1. c \in copies /\ c.msg = m
  BY DEF Left
<1>2. c.folder \in Folder
  BY <1>1 DEF GoodServer, Copy
<1>3. ASSUME NEW b \in Action, At(b, "remove"), c \in Named(Now(b))
      PROVE  FALSE
  <2>1. m \in Copied(b)
    BY <1>1, <1>3 DEF Copied
  <2>2. At(b, "remove")' /\ Now(b)' = Now(b)
    BY <1>3, <2>1 DEF Now
  <2>3. c \notin Named(Now(b))'
    BY <1>3, <2>2 DEF Left
  <2>4. Named(Now(b))' = Named(Now(b))
    BY <2>2 DEF Named
  <2> QED BY <1>3, <2>3, <2>4
<1> QED BY <1>1, <1>2, <1>3 DEF Left

-----------------------------------------------------------------------------
(* A move *)

\* The move of m itself: from loose in one stack to loose on the way.
LEMMA MoveWay ==
  ASSUME GoodActions, UNCHANGED <<home, archived>>, NEW a \in Action, NEW m, NEW t \in Task,
         actions[a].at # "idle", actions[a].at \notin Moved, t = Head(actions[a].todo), t.msg = m,
         NEW y \in GoodAct, y = actions'[a], y.at \in Moved, y.op = actions[a].op,
         y.todo = actions[a].todo, y.done = actions[a].done,
         \A b \in Action \ {a} : actions'[b] = actions[b],
         Hands(m), Way(m), actions[a].op # "undo" => Of(actions[a].done, m) = {},
         \E c \in Left(m) : c.folder = t.folder, \A c \in Left(m)' : c.folder = t.to
  PROVE  Way(m)'
<1>0. PICK x \in GoodAct : x = actions[a]
  BY DEF GoodActions
<1>1. /\ x.at # "idle" /\ x.at \notin Moved /\ Head(x.todo) = t /\ y.op = x.op /\ y.at # "idle"
      /\ Head(y.todo) = t /\ Tail(y.todo) = Tail(x.todo) /\ y.done = x.done
  BY <1>0 DEF Moved
<1> DEFINE rest == Of(Tail(x.todo), m)
<1>2. /\ Of(Ahead(x), m) = {t} \cup rest /\ Of(Behind(x), m) = Of(x.done, m)
      /\ One(Ahead(x), m) => rest = {}
  <2>1. /\ Of(Ahead(x), m) = (IF x.at \notin Moved /\ Head(x.todo).msg = m THEN {Head(x.todo)}
                                                                          ELSE {})
                               \cup Of(Tail(x.todo), m)
        /\ Of(Behind(x), m) = (IF x.at \in Moved /\ Head(x.todo).msg = m THEN {Head(x.todo)}
                                                                       ELSE {})
                                \cup Of(x.done, m)
        /\ One(Ahead(x), m) <=>
             /\ One(Tail(x.todo), m)
             /\ x.at \notin Moved /\ Head(x.todo).msg = m => Of(Tail(x.todo), m) = {}
    BY <1>1, Shares
  <2> QED BY <1>1, <2>1
<1>3. Of(Ahead(y), m) = rest /\ Of(Behind(y), m) = {t} \cup Of(x.done, m)
  <2>1. /\ Of(Ahead(y), m) = (IF y.at \notin Moved /\ Head(y.todo).msg = m THEN {Head(y.todo)}
                                                                          ELSE {})
                               \cup Of(Tail(y.todo), m)
        /\ Of(Behind(y), m) = (IF y.at \in Moved /\ Head(y.todo).msg = m THEN {Head(y.todo)}
                                                                       ELSE {})
                                \cup Of(y.done, m)
    BY <1>1, Shares
  <2> QED BY <1>1, <2>1
<1>4. Has(x, m)
  BY <1>2 DEF Has
<1>5. \A b \in Action \ {a} : \A f, g : ~LooseIn(actions[b], m, f, g)
  BY <1>0, <1>4, LooseHas DEF Hands, OneHand
<1>6. \A f, g : Loose(m, f, g) <=> LooseIn(x, m, f, g)
  BY <1>0, <1>5 DEF Loose
<1>7. \A f, g : Loose(m, f, g)' <=> LooseIn(y, m, f, g)
  BY <1>0, <1>5 DEF Loose
<1>8. \A n, f : After(archived, m, n, f)' <=> After(archived, m, n, f)
  BY DEF After
<1>9. t.folder \in Folder /\ t.to \in Folder
  BY TaskFields
<1> HIDE DEF rest
<1>10. OnRoute(m, t.folder)
  BY DEF Way, Located
<1>11. Chain(m)'
  BY <1>8 DEF Way, Chain
<1>12. CASE x.op # "undo"
  <2>1. \A f, g : ~Loose(m, f, g)
    BY <1>0, <1>2, <1>6, <1>12 DEF LooseIn
  <2>2. \A f, g : Loose(m, f, g)' <=> f = t.folder /\ g = t.to
    <3>1. Of(Behind(y), m) = {t}
      BY <1>0, <1>3, <1>12
    <3> QED BY <1>1, <1>7, <1>12, <3>1 DEF LooseIn
  <2>3. After(archived, m, Len(archived), t.folder)
    BY <1>10, <2>1 DEF OnRoute
  <2>4. Leaves(m)'
    BY <1>8, <2>2, <2>3 DEF Leaves
  <2>5. Located(m)'
    <3>1. ASSUME NEW c \in Left(m)' PROVE OnRoute(m, c.folder)'
      <4>1. c.folder = t.to
        OBVIOUS
      <4>2. Loose(m, t.folder, c.folder)'
        BY <2>2, <4>1
      <4> QED BY <1>9, <4>2 DEF OnRoute
    <3> QED BY <3>1 DEF Located
  <2> QED BY <1>11, <2>4, <2>5 DEF Way
<1>13. CASE x.op = "undo"
  <2>1. rest = {}
    BY <1>0, <1>2, <1>13 DEF Hands, Once, OnceIn
  <2>2. Loose(m, t.to, t.folder)
    BY <1>2, <1>6, <1>13 DEF LooseIn
  <2>3. \A f, g : ~Loose(m, f, g)'
    BY <1>1, <1>3, <1>7, <1>13, <2>1 DEF LooseIn
  <2>4. After(archived, m, Len(archived), t.to)
    BY <1>9, <2>2 DEF Way, Leaves
  <2>5. Leaves(m)'
    BY <2>3 DEF Leaves
  <2>6. Located(m)'
    <3>1. ASSUME NEW c \in Left(m)' PROVE OnRoute(m, c.folder)'
      <4>1. c.folder = t.to
        OBVIOUS
      <4> QED BY <1>8, <2>3, <2>4, <4>1 DEF OnRoute
    <3> QED BY <3>1 DEF Located
  <2> QED BY <1>11, <2>5, <2>6 DEF Way
<1> QED BY <1>12, <1>13

LEMMA MoveMessageTrack ==
  ASSUME MInv, LInv, torn \subseteq moot, NEW a \in Action, MoveMessage(a),
         NEW m \in Msg, Vouched(m)', Vouched(m) => Hands(m) /\ Way(m)
  PROVE  Hands(m)' /\ Way(m)'
<1>1. /\ UNCHANGED <<hasMove, uidValidity, store, archived, left, home, torn, astray>>
      /\ Goes(a, IF hasMove THEN "drop" ELSE "remove")
      /\ Noted(a, Named(Now(a)))
  BY DEF MoveMessage, Noted
<1>2. /\ actions[a].at \in {"lock", "move"} /\ actions[a].at # "idle" /\ actions[a].at \notin Moved
      /\ actions[a].op = "undo" => actions[a].at \in Holding
      /\ \A b \in Action : ~At(b, "remove")
  BY MoveHeld DEF Moved
<1>3. PICK t \in Task : t = Now(a) /\ Sound(t)
  BY <1>2, ActAt DEF MInv
<1>4. /\ GoodServer' /\ Follows
      /\ copies \ Gone(t) \subseteq copies'
      /\ \A c \in Named(t) : \E d \in copies' :
           d \notin copies /\ d.msg = c.msg /\ d.folder = t.to /\ d.uid = uidNext[t.to]
      /\ \A d \in copies' :
           d \in copies \ Gone(t) \/ (d \notin copies /\ \E c \in Named(t) : d.msg = c.msg)
      /\ \A c, d \in copies' : c \notin copies /\ d \notin copies => c = d
  BY <1>3, MoveLands
<1>5. PICK x, y : x = actions[a] /\ y = actions'[a]
  OBVIOUS
<1>6. /\ \A b \in Action \ {a} : actions'[b] = actions[b]
      /\ x \in GoodAct /\ y \in GoodAct /\ y.at = (IF hasMove THEN "drop" ELSE "remove")
      /\ y.op = x.op /\ y.todo = x.todo /\ y.done = x.done
  <2>1. PICK at \in {"drop", "remove"} : at = IF hasMove THEN "drop" ELSE "remove"
    OBVIOUS
  <2>2. Goes(a, at)
    BY <1>1, <2>1
  <2> QED BY <1>2, <1>5, <2>1, <2>2, GoesView DEF MInv, GoodActions
<1>7. y.at \in Moved /\ y.at # "idle" /\ x.at \notin Moved /\ x.at # "idle" /\ t = Head(x.todo)
  BY <1>2, <1>3, <1>5, <1>6 DEF Moved, Now
<1>8. /\ moot \subseteq moot' /\ phantom \subseteq phantom'
      /\ Stale(a) => t.msg \in moot' /\ \A c \in Named(t) : c.msg \in moot'
      /\ Named(t) = {} => t.msg \in phantom'
  BY <1>1, <1>3 DEF Noted
<1>9. Vouched(m) /\ Hands(m) /\ Way(m) /\ m \notin moot' /\ m \notin phantom' /\ m \notin torn
  BY <1>8 DEF Vouched
<1>10. ~Stale(a) => Names(t) /\ \A c \in Named(t) : c.msg = t.msg
  <2>1. x.op = "undo" => Names(t)
    BY <1>2, <1>3, <1>5 DEF MInv, GoodActions
  <2>2. x.op # "undo" /\ ~Stale(a) => Names(t)
    BY <1>3, <1>5 DEF Stale, Sound
  <2> QED BY <2>1, <2>2 DEF Names
<1>11. CASE t.msg # m
  <2>1. \A c \in Named(t) : c.msg # m
    BY <1>8, <1>9, <1>10, <1>11
  <2>2. LeftKept(m)
    <3>1. \A c \in copies' : c.msg = m => c \in copies
      BY <1>4, <2>1
    <3> QED BY <1>2, <1>4, <3>1, LeftQuiet
  <2>3. Smaller(x, y, m) /\ \A f, g : LooseIn(y, m, f, g) <=> LooseIn(x, m, f, g)
    BY <1>6, <1>7, <1>11, PutSmaller
  <2>4. Hands(m)'
    BY <1>4, <1>5, <1>6, <1>9, <2>2, <2>3, HandsKept
  <2>5. \A f, g : Loose(m, f, g)' <=> Loose(m, f, g)
    BY <1>5, <1>6, <2>3, LooseSame
  <2>6. Way(m)'
    BY <1>1, <1>9, <2>2, <2>5, WayKept
  <2> QED BY <2>4, <2>6
<1>12. CASE t.msg = m
  <2>1. ~Stale(a) /\ Names(t) /\ Named(t) # {}
    BY <1>8, <1>9, <1>10, <1>12
  <2>2. PICK c \in copies : c \in Named(t) /\ c.msg = m /\ c.folder = t.folder /\ c.uid = t.uid
    BY <1>12, <2>1 DEF Names, Named
  <2>3. \A d \in copies : d.msg = m => d = c
    BY <1>2, <1>9, <2>2, LoneCopies DEF LInv
  <2>4. c \in Left(m)
    BY <1>2, <2>2 DEF Left
  <2>5. \A d \in Left(m)' : d \notin copies /\ d.folder = t.to /\ d.uid = uidNext[t.to]
    <3> SUFFICES ASSUME NEW d \in Left(m)'
                 PROVE  d \notin copies /\ d.folder = t.to /\ d.uid = uidNext[t.to]
      OBVIOUS
    <3>1. d \in copies' /\ d.msg = m /\ (At(a, "remove")' => d \notin Named(Now(a))')
      BY DEF Left
    <3>2. Now(a)' = t
      BY <1>3, <1>5, <1>6 DEF Now
    <3>3. d # c
      <4>1. CASE hasMove
        <5>1. c \in Gone(t)
          BY <2>2, <4>1 DEF Gone
        <5> QED BY <1>4, <2>2, <3>1, <5>1
      <4>2. CASE ~hasMove
        <5>1. At(a, "remove")'
          BY <1>5, <1>6, <4>2 DEF At
        <5>2. d = c => d \in Named(Now(a))'
          BY <2>2, <3>1, <3>2 DEF Named
        <5> QED BY <3>1, <5>1, <5>2
      <4> QED BY <4>1, <4>2
    <3>4. d \notin copies
      BY <2>3, <3>1, <3>3
    <3>5. PICK e \in copies' : e \notin copies /\ e.folder = t.to /\ e.uid = uidNext[t.to]
      BY <1>4, <2>2
    <3> QED BY <1>4, <3>1, <3>4, <3>5
  <2>6. Of(Ahead(x), m) = {t} \cup Of(Tail(x.todo), m) /\ Of(Behind(x), m) = Of(x.done, m)
        /\ (One(Ahead(x), m) <=> One(Tail(x.todo), m) /\ Of(Tail(x.todo), m) = {})
    <3>1. /\ Of(Ahead(x), m) = (IF x.at \notin Moved /\ Head(x.todo).msg = m THEN {Head(x.todo)}
                                                                             ELSE {})
                                 \cup Of(Tail(x.todo), m)
          /\ Of(Behind(x), m) = (IF x.at \in Moved /\ Head(x.todo).msg = m THEN {Head(x.todo)}
                                                                         ELSE {})
                                  \cup Of(x.done, m)
          /\ One(Ahead(x), m) <=>
               /\ One(Tail(x.todo), m)
               /\ x.at \notin Moved /\ Head(x.todo).msg = m => Of(Tail(x.todo), m) = {}
      BY <1>6, <1>7, Shares
    <3> QED BY <1>7, <1>12, <3>1
  <2>7. Of(Ahead(y), m) = Of(Tail(x.todo), m) /\ Of(Behind(y), m) = {t} \cup Of(x.done, m)
        /\ (One(Ahead(y), m) <=> One(Tail(x.todo), m))
        /\ (One(Behind(y), m) <=> One(x.done, m) /\ Of(x.done, m) = {})
    <3>1. /\ Of(Ahead(y), m) = (IF y.at \notin Moved /\ Head(y.todo).msg = m THEN {Head(y.todo)}
                                                                             ELSE {})
                                 \cup Of(Tail(y.todo), m)
          /\ Of(Behind(y), m) = (IF y.at \in Moved /\ Head(y.todo).msg = m THEN {Head(y.todo)}
                                                                         ELSE {})
                                  \cup Of(y.done, m)
          /\ One(Ahead(y), m) <=>
               /\ One(Tail(y.todo), m)
               /\ y.at \notin Moved /\ Head(y.todo).msg = m => Of(Tail(y.todo), m) = {}
          /\ One(Behind(y), m) <=>
               /\ One(y.done, m)
               /\ y.at \in Moved /\ Head(y.todo).msg = m => Of(y.done, m) = {}
      BY <1>6, <1>7, Shares
    <3> QED BY <1>6, <1>7, <1>12, <3>1
  <2>8. OnceIn(x, m)
    BY <1>5, <1>9 DEF Hands, Once
  <2>9. x.op # "undo" => Of(x.done, m) = {}
    <3> SUFFICES ASSUME x.op # "undo", Of(x.done, m) # {} PROVE FALSE
      OBVIOUS
    <3>1. t \in Of(Ahead(x), m) /\ Of(Behind(x), m) # {}
      BY <2>6
    <3>2. t.validity = uidValidity[t.folder]
      BY <1>3, <1>5, <2>1 DEF Stale
    <3>3. Named(t) \cap Left(m) = {}
      BY <2>8, <3>1, <3>2 DEF OnceIn
    <3> QED BY <2>2, <2>4, <3>3
  <2>10. Way(m)'
    <3>1. c.folder = t.folder /\ \A d \in Left(m)' : d.folder = t.to
      BY <2>2, <2>5
    <3> QED BY <1>1, <1>2, <1>5, <1>6, <1>7, <1>9, <1>12, <2>4, <2>9, <3>1, MoveWay DEF MInv
  <2>11. Has(x, m)
    BY <2>6 DEF Has
  <2>12. \A b \in Action \ {a} : ~Has(actions'[b], m)
    BY <1>5, <1>6, <1>9, <2>11 DEF Hands, OneHand
  <2>13. OneHand(m)'
    BY <2>12 DEF OneHand
  <2>14. OnceIn(y, m)'
    <3>1. CASE x.op = "undo"
      BY <1>6, <2>6, <2>7, <2>8, <3>1 DEF OnceIn
    <3>2. CASE x.op # "undo"
      <4>1. One(Behind(y), m)
        <5>1. One(Behind(x), m) /\ Of(x.done, m) = {}
          BY <2>8, <2>9, <3>2 DEF OnceIn
        <5>2. One(x.done, m)
          BY <5>1 DEF One, Of
        <5> QED BY <2>7, <5>1, <5>2
      <4>2. ASSUME NEW u \in Of(Ahead(y), m), u.validity = uidValidity'[u.folder]
            PROVE  Named(u)' \cap Left(m)' = {}
        <5>1. u \in Of(Ahead(actions[a]), m)
          BY <1>5, <2>6, <2>7
        <5>2. u \in Task /\ Sound(u)
          BY <5>1, AheadSound DEF MInv
        <5>3. Names(u) /\ u.folder \in Folder /\ u.uid \in Nat
          BY <1>1, <4>2, <5>2, TaskFields DEF Sound
        <5> SUFFICES ASSUME NEW d \in Left(m)', d \in Named(u)' PROVE FALSE
          OBVIOUS
        <5>4. d.folder = t.to /\ d.uid = uidNext[t.to] /\ d.folder = u.folder /\ d.uid = u.uid
          BY <2>5 DEF Named
        <5>5. u.uid < uidNext[u.folder] /\ uidNext[u.folder] \in Nat
          BY <5>3 DEF Names, MInv, GoodServer
        <5> QED BY <5>3, <5>4, <5>5
      <4> QED BY <1>6, <3>2, <4>1, <4>2 DEF OnceIn
    <3> QED BY <3>1, <3>2
  <2>15. Once(m)'
    <3> SUFFICES ASSUME NEW b \in Action PROVE OnceIn(actions[b], m)'
      BY DEF Once
    <3>1. CASE b = a
      BY <1>5, <2>14, <3>1
    <3>2. CASE b # a
      <4>1. PICK z : z = actions'[b] /\ z = actions[b]
        BY <1>6, <3>2
      <4>2. Of(Ahead(z), m) = {} /\ Of(Behind(z), m) = {}
        <5>1. ~Has(z, m)
          BY <2>12, <3>2, <4>1
        <5> QED BY <5>1 DEF Has
      <4>3. OnceIn(z, m)
        BY <1>9, <4>1 DEF Hands, Once
      <4>4. OnceIn(z, m)'
        BY <4>2, <4>3 DEF OnceIn
      <4> QED BY <4>1, <4>4
    <3> QED BY <3>1, <3>2
  <2> QED BY <2>10, <2>13, <2>15 DEF Hands
<1> QED BY <1>11, <1>12

-----------------------------------------------------------------------------
(* Every step, for one message *)

LEMMA PutTrack ==
  ASSUME MInv, GoodServer', Follows, UNCHANGED <<home, archived>>,
         NEW a \in Action, \A b \in Action \ {a} : actions'[b] = actions[b],
         NEW x \in GoodAct, x = actions[a], x.at # "idle",
         NEW y \in GoodAct, y = actions'[a], y.at # "idle", NEW m,
         y.op = x.op, y.done = x.done, Tail(y.todo) = Tail(x.todo),
         Head(y.todo).msg = Head(x.todo).msg, Head(y.todo).folder = Head(x.todo).folder,
         x.op # "undo" => /\ Head(y.todo).uid = Head(x.todo).uid
                          /\ Head(y.todo).validity = Head(x.todo).validity,
         x.op = "undo" \/ x.at \in Moved => Head(y.todo).to = Head(x.todo).to,
         (y.at \in Moved <=> x.at \in Moved) \/ Head(x.todo).msg # m,
         Hands(m), Way(m), LeftKept(m)
  PROVE  Hands(m)' /\ Way(m)'
<1>1. Smaller(x, y, m) /\ \A f, g : LooseIn(y, m, f, g) <=> LooseIn(x, m, f, g)
  BY PutSmaller
<1>2. Hands(m)'
  BY <1>1, HandsKept
<1>3. \A f, g : Loose(m, f, g)' <=> Loose(m, f, g)
  BY <1>1, LooseSame
<1>4. Way(m)'
  BY <1>3, WayKept
<1> QED BY <1>2, <1>4

LEMMA FinishTrack ==
  ASSUME MInv, GoodServer', Follows, UNCHANGED home,
         NEW a \in Action, actions[a].at # "idle", NEW done \in Done(a), Finish(a, done),
         NEW m, Hands(m), Way(m), LeftKept(m),
         \/ Now(a).msg # m
         \/ actions[a].op = "undo" /\ (actions[a].at \in Moved \/ Left(m)' = {})
         \/ actions[a].op # "undo" /\ (actions[a].at \notin Moved \/ done # actions[a].done)
  PROVE  Hands(m)' /\ Way(m)'
<1>1. GoodActions
  BY DEF MInv
<1>2. Smaller(actions[a], actions'[a], m)
  BY <1>1, FinishSmaller
<1>3. \A b \in Action \ {a} : actions'[b] = actions[b]
  BY <1>1, DoneTasks, FinishView DEF Done
<1>4. Hands(m)'
  BY <1>2, <1>3, HandsKept
<1>5. Way(m)'
  BY <1>1, FinishWay
<1> QED BY <1>4, <1>5

LEMMA SameTrack ==
  ASSUME MInv, GoodServer', Follows, UNCHANGED <<home, archived, actions>>,
         NEW m, Hands(m), Way(m), LeftKept(m)
  PROVE  Hands(m)' /\ Way(m)'
<1>1. Hands(m)'
  BY HandsKept
<1>2. \A f, g : Loose(m, f, g)' <=> Loose(m, f, g)
  BY LooseSame
<1>3. Way(m)'
  BY <1>2, WayKept
<1> QED BY <1>1, <1>3

LEMMA GetMessageTrack ==
  ASSUME MInv, Aims, NEW a \in Action, GetMessage(a), NEW m, Hands(m), Way(m)
  PROVE  Hands(m)' /\ Way(m)'
<1>1. /\ actions[a].at = "read" /\ actions[a].at # "idle"
      /\ UNCHANGED <<server, store, syncMu, left, history>>
  BY DEF GetMessage, At
<1>2. GoodServer' /\ Follows /\ UNCHANGED home
  BY <1>1, Stays DEF history
<1>3. PICK x \in GoodAct : x = actions[a]
  BY DEF MInv, GoodActions
<1>4. x.op # "undo" /\ x.at \notin Moved
  BY <1>1, <1>3 DEF Aims, Aimed, Moved
<1>5. CASE Fails(a)
  <2>1. LeftKept(m)
    <3>1. \A b \in Action \ {a} : actions'[b] = actions[b]
      BY <1>1, <1>5, DoneTasks, FinishView DEF Fails, MInv
    <3>2. \A b \in Action : At(b, "remove") => At(b, "remove")' /\ actions'[b] = actions[b]
      BY <1>1, <3>1 DEF At
    <3> QED BY <1>1, <1>2, <3>2, LeftFate DEF server
  <2> QED BY <1>1, <1>2, <1>3, <1>4, <1>5, <2>1, FinishTrack DEF Fails, Done
<1>6. CASE /\ actions' = [actions EXCEPT ![a].at = "lock",
                            ![a].todo = <<[Now(a) EXCEPT !.to = Destination(a)]>> \o Tail(@)]
           /\ UNCHANGED archived
  <2> DEFINE to == Destination(a)
  <2>1. Now(a) \in Task /\ Now(a) = Head(x.todo)
    BY <1>1, <1>3, ActAt DEF MInv, Now
  <2>2. to \in Folder
    <3>1. Now(a).to \in Folder /\ Inbox \in Folder /\ Junk \in Folder
      BY <2>1, TaskFields DEF Folder
    <3> QED BY <3>1 DEF Destination, NotSpamDestination
  <2> HIDE DEF to
  <2>3. PICK u \in Task : /\ u = [Now(a) EXCEPT !.to = to]
                          /\ u.folder = Now(a).folder /\ u.uid = Now(a).uid
                          /\ u.validity = Now(a).validity /\ u.msg = Now(a).msg
    BY <2>1, <2>2, Headed
  <2>4. actions' = [actions EXCEPT ![a].at = "lock", ![a].todo = <<u>> \o Tail(@)]
    BY <1>6, <2>3 DEF to
  <2>5. /\ \A b \in Action \ {a} : actions'[b] = actions[b]
        /\ actions'[a] \in GoodAct /\ actions'[a].at = "lock" /\ actions'[a].op = actions[a].op
        /\ actions'[a].done = actions[a].done
        /\ Head(actions'[a].todo) = u /\ Tail(actions'[a].todo) = Tail(actions[a].todo)
    BY <1>1, <2>4, PutView DEF MInv
  <2>6. PICK y \in GoodAct : y = actions'[a]
    BY <2>5
  <2>7. /\ y.at = "lock" /\ y.op = x.op /\ y.done = x.done
        /\ Head(y.todo) = u /\ Tail(y.todo) = Tail(x.todo)
        /\ x.at # "idle" /\ y.at # "idle" /\ Head(x.todo) = Now(a)
    BY <1>1, <1>3, <2>1, <2>5, <2>6
  <2>8. LeftKept(m)
    <3>1. \A b \in Action : At(b, "remove") => At(b, "remove")' /\ actions'[b] = actions[b]
      BY <1>1, <2>5 DEF At
    <3>2. UNCHANGED copies
      BY <1>1 DEF server
    <3> QED BY <1>2, <3>1, <3>2, LeftFate
  <2>9. y.at \notin Moved
    BY <2>7 DEF Moved
  <2>10. /\ Head(y.todo).msg = Head(x.todo).msg /\ Head(y.todo).folder = Head(x.todo).folder
         /\ Head(y.todo).uid = Head(x.todo).uid /\ Head(y.todo).validity = Head(x.todo).validity
         /\ ~(x.op = "undo" \/ x.at \in Moved)
    BY <1>4, <2>3, <2>7
  <2>11. (y.at \in Moved <=> x.at \in Moved) /\ UNCHANGED <<home, archived>>
    BY <1>2, <1>4, <1>6, <2>9
  <2>12. \A b \in Action \ {a} : actions'[b] = actions[b]
    BY <2>5
  <2> QED BY <1>2, <1>3, <2>6, <2>7, <2>8, <2>10, <2>11, <2>12, PutTrack
<1> QED BY <1>5, <1>6 DEF GetMessage

LEMMA TagVerdictTrack ==
  ASSUME MInv, NEW a \in Action, TagVerdict(a), NEW m, Hands(m), Way(m)
  PROVE  Hands(m)' /\ Way(m)'
<1>1. /\ actions[a].at = "lock" /\ syncMu = NoAction /\ Goes(a, "move")
      /\ UNCHANGED <<hasMove, uidValidity, uidNext, archived, home>>
  BY DEF TagVerdict, Lock, At
<1>2. /\ GoodServer' /\ Follows
      /\ \A d \in copies' : \E c \in copies : c.folder = d.folder /\ c.uid = d.uid /\ c.msg = d.msg
  BY TagVerdictTags
<1>3. LeftKept(m)
  <2>1. \A b \in Action : ~At(b, "remove")
    BY <1>1, FreeIsQuiet DEF MInv
  <2> QED BY <1>2, <2>1, LeftQuiet
<1>4. /\ \A b \in Action \ {a} : actions'[b] = actions[b]
      /\ actions'[a] \in GoodAct /\ actions'[a].at = "move" /\ actions'[a].op = actions[a].op
      /\ actions'[a].todo = actions[a].todo /\ actions'[a].done = actions[a].done
  BY <1>1, GoesView DEF MInv
<1>5. PICK x \in GoodAct, y \in GoodAct : x = actions[a] /\ y = actions'[a]
  BY <1>4 DEF MInv, GoodActions
<1> QED BY <1>1, <1>2, <1>3, <1>4, <1>5, PutTrack DEF Moved

LEMMA SearchTrack ==
  ASSUME MInv, NEW a \in Action, Search(a), NEW m, Hands(m), Way(m)
  PROVE  Hands(m)' /\ Way(m)'
<1> DEFINE c == Newest(SearchByMessageID(Now(a)))
<1>1. /\ actions[a].at = "lock" /\ actions[a].op = "undo" /\ syncMu = NoAction
      /\ UNCHANGED <<hasMove, uidValidity, uidNext, archived, home>>
  BY DEF Search, Lock, At, history
<1>2. Now(a) \in Task /\ Now(a) = Head(actions[a].todo)
  BY <1>1, ActAt DEF MInv, Now
<1>3. c \in copies
  BY <1>2, SearchFinds DEF Search, MInv
<1> HIDE DEF c
<1>4. /\ GoodServer' /\ Follows
      /\ \A d \in copies' : \E e \in copies : e.folder = d.folder /\ e.uid = d.uid /\ e.msg = d.msg
  BY SearchTags
<1>5. LeftKept(m)
  <2>1. \A b \in Action : ~At(b, "remove")
    BY <1>1, FreeIsQuiet DEF MInv
  <2> QED BY <1>4, <2>1, LeftQuiet
<1>6. PICK u \in Task : /\ u = [Now(a) EXCEPT !.uid = c.uid]
                        /\ u.folder = Now(a).folder /\ u.validity = Now(a).validity
                        /\ u.msg = Now(a).msg /\ u.to = Now(a).to
  <2>1. c.uid \in Nat
    BY <1>3, CopyFields DEF MInv
  <2>2. PICK u \in Task : /\ u = [Now(a) EXCEPT !.uid = c.uid]
                          /\ u.folder = Now(a).folder /\ u.uid = c.uid
                          /\ u.validity = Now(a).validity /\ u.msg = Now(a).msg
    BY <1>2, <2>1, Found
  <2>3. u.to = Now(a).to
    BY <1>2, <2>2 DEF Task
  <2> QED BY <2>2, <2>3
<1>7. actions' = [actions EXCEPT ![a].at = "move", ![a].todo = <<u>> \o Tail(@)]
  BY <1>6 DEF Search, c
<1>8. /\ \A b \in Action \ {a} : actions'[b] = actions[b]
      /\ actions'[a] \in GoodAct /\ actions'[a].at = "move" /\ actions'[a].op = actions[a].op
      /\ actions'[a].done = actions[a].done
      /\ Head(actions'[a].todo) = u /\ Tail(actions'[a].todo) = Tail(actions[a].todo)
  BY <1>1, <1>7, PutView DEF MInv
<1>9. PICK x \in GoodAct, y \in GoodAct : x = actions[a] /\ y = actions'[a]
  BY <1>8 DEF MInv, GoodActions
<1>10. /\ y.at = "move" /\ y.op = x.op /\ y.done = x.done /\ x.op = "undo"
       /\ Head(y.todo) = u /\ Tail(y.todo) = Tail(x.todo)
       /\ x.at # "idle" /\ y.at # "idle" /\ Head(x.todo) = Now(a)
       /\ x.at \notin Moved /\ y.at \notin Moved
  BY <1>1, <1>2, <1>8, <1>9 DEF Moved
<1>11. /\ Head(y.todo).msg = Head(x.todo).msg /\ Head(y.todo).folder = Head(x.todo).folder
       /\ Head(y.todo).to = Head(x.todo).to
  BY <1>6, <1>10
<1>12. (y.at \in Moved <=> x.at \in Moved) /\ UNCHANGED <<home, archived>>
  BY <1>1, <1>10
<1>13. \A b \in Action \ {a} : actions'[b] = actions[b]
  BY <1>8
<1> QED BY <1>4, <1>5, <1>9, <1>10, <1>11, <1>12, <1>13, PutTrack

\* A step that is on no stack tells where the message is.
LEMMA WhereLoose ==
  ASSUME MInv, NEW a \in Action, actions[a].at # "idle", NEW m, Now(a).msg = m,
         Hands(m), Way(m), NEW c \in Left(m),
         NEW f, NEW g, \/ /\ actions[a].op = "undo" /\ actions[a].at \notin Moved
                          /\ f = Now(a).to /\ g = Now(a).folder
                       \/ /\ actions[a].op # "undo" /\ actions[a].at \in Moved
                          /\ f = Now(a).folder /\ g = Now(a).to
  PROVE  Loose(m, f, g) /\ f \in Folder /\ c.folder = g
<1>0. PICK x \in GoodAct : x = actions[a]
  BY DEF MInv, GoodActions
<1>1. x.at # "idle" /\ Now(a) = Head(x.todo) /\ Now(a) \in Task
  BY <1>0, ActAt DEF Now, MInv
<1> DEFINE t == Now(a)
<1>2. /\ Of(Ahead(x), m) = (IF x.at \notin Moved /\ t.msg = m THEN {t} ELSE {})
                             \cup Of(Tail(x.todo), m)
      /\ Of(Behind(x), m) = (IF x.at \in Moved /\ t.msg = m THEN {t} ELSE {})
                              \cup Of(x.done, m)
      /\ One(Ahead(x), m) <=>
           One(Tail(x.todo), m) /\ (x.at \notin Moved /\ t.msg = m => Of(Tail(x.todo), m) = {})
      /\ One(Behind(x), m) <=>
           One(x.done, m) /\ (x.at \in Moved /\ t.msg = m => Of(x.done, m) = {})
  BY <1>1, Shares
<1> HIDE DEF t
<1>3. t.msg = m /\ t.folder \in Folder /\ t.to \in Folder
  BY <1>1, TaskFields DEF t
<1>4. OnceIn(x, m)
  BY <1>0 DEF Hands, Once
<1>5. /\ LooseIn(x, m, f, g) /\ \A p, q : LooseIn(x, m, p, q) => q = g
      /\ Has(x, m) /\ f \in Folder /\ g \in Folder
  <2>1. CASE /\ x.op = "undo" /\ x.at \notin Moved /\ f = t.to /\ g = t.folder
    <3>1. Of(Ahead(x), m) = {t}
      BY <1>2, <1>3, <1>4, <2>1 DEF OnceIn
    <3> QED BY <1>3, <2>1, <3>1 DEF LooseIn, Has
  <2>2. CASE /\ x.op # "undo" /\ x.at \in Moved /\ f = t.folder /\ g = t.to
    <3>1. Of(Behind(x), m) = {t}
      BY <1>2, <1>3, <1>4, <2>2 DEF OnceIn
    <3> QED BY <1>3, <2>2, <3>1 DEF LooseIn, Has
  <2> QED BY <1>0, <2>1, <2>2 DEF t
<1>6. \A p, q : Loose(m, p, q) <=> LooseIn(x, m, p, q)
  <2>1. \A b \in Action \ {a} : \A p, q : ~LooseIn(actions[b], m, p, q)
    BY <1>0, <1>5, LooseHas DEF Hands, OneHand
  <2> QED BY <1>0, <2>1 DEF Loose
<1>7. OnRoute(m, c.folder)
  BY DEF Way, Located
<1> QED BY <1>5, <1>6, <1>7 DEF OnRoute

LEMMA NotFoundTrack ==
  ASSUME MInv, NEW a \in Action, NotFound(a), NEW m, Hands(m), Way(m)
  PROVE  Hands(m)' /\ Way(m)'
<1>1. /\ actions[a].op = "undo" /\ actions[a].at = "lock" /\ actions[a].at # "idle"
      /\ actions[a].at \notin Moved /\ syncMu = NoAction /\ SearchByMessageID(Now(a)) = {}
      /\ Finish(a, actions[a].done) /\ actions[a].done \in Done(a)
      /\ UNCHANGED <<server, store, syncMu, left, history>>
  BY DEF NotFound, At, Moved, Fails, Done
<1>2. GoodServer' /\ Follows /\ UNCHANGED home
  BY <1>1, Stays DEF history
<1>3. \A b \in Action : ~At(b, "remove")
  BY <1>1, FreeIsQuiet DEF MInv
<1>4. LeftKept(m)
  BY <1>1, <1>2, <1>3, LeftFate DEF server
<1>5. ASSUME Now(a).msg = m, NEW c \in Left(m)'
      PROVE  FALSE
  <2>1. c \in copies /\ c.msg = m
    BY <1>1 DEF Left, server
  <2>2. c \in Left(m)
    BY <1>3, <2>1 DEF Left
  <2>3. PICK f, g : f = Now(a).to /\ g = Now(a).folder
    OBVIOUS
  <2>4. c.folder = g
    BY <1>1, <1>5, <2>2, <2>3, WhereLoose
  <2> QED BY <1>1, <1>5, <2>1, <2>3, <2>4 DEF SearchByMessageID
<1>6. Now(a).msg # m \/ Left(m)' = {}
  BY <1>5
<1> QED BY <1>1, <1>2, <1>4, <1>6, FinishTrack

LEMMA DeleteMessagesTrack ==
  ASSUME MInv, NEW a \in Action, DeleteMessages(a), NEW m, Hands(m), Way(m)
  PROVE  Hands(m)' /\ Way(m)'
<1>1. /\ actions[a].at = "remove" /\ Goes(a, "drop") /\ copies' = copies \ Named(Now(a))
      /\ UNCHANGED <<hasMove, uidValidity, uidNext, archived, home>>
  BY DEF DeleteMessages, At
<1>2. GoodServer' /\ Follows
  BY <1>1, Removed DEF MInv
<1>3. \A b \in Action : At(b, "remove") => b = a
  BY <1>1, RemoverHolds DEF MInv, At
<1>4. /\ \A b \in Action \ {a} : actions'[b] = actions[b]
      /\ actions'[a] \in GoodAct /\ actions'[a].at = "drop" /\ actions'[a].op = actions[a].op
      /\ actions'[a].todo = actions[a].todo /\ actions'[a].done = actions[a].done
  BY <1>1, GoesView DEF MInv
<1>5. LeftKept(m)
  <2> SUFFICES ASSUME NEW c \in Left(m)'
               PROVE  c.folder \in Folder /\ c \in Left(m)
    BY DEF LeftKept
  <2>1. c \in copies /\ c.msg = m /\ c \notin Named(Now(a))
    BY <1>1 DEF Left
  <2>2. c.folder \in Folder
    BY <2>1, CopyFields DEF MInv
  <2> QED BY <1>3, <2>1, <2>2 DEF Left
<1>6. PICK x \in GoodAct, y \in GoodAct : x = actions[a] /\ y = actions'[a]
  BY <1>4 DEF MInv, GoodActions
<1> QED BY <1>1, <1>2, <1>4, <1>5, <1>6, PutTrack DEF Moved

\* A row that is dropped for a message that is vouched for was there.
LEMMA DropRowTrack ==
  ASSUME MInv, RowThere, NEW a \in Action, DropRow(a), NEW m, Vouched(m), Hands(m), Way(m)
  PROVE  Hands(m)' /\ Way(m)'
<1>1. /\ actions[a].at = "drop" /\ actions[a].at # "idle" /\ actions[a].at \in Moved /\ syncMu = a
      /\ UNCHANGED <<server, home>>
  <2>1. actions[a].at = "drop" => syncMu = a
    BY DEF MInv, GoodActions, Holding
  <2> QED BY <2>1 DEF DropRow, At, Moved, history
<1>2. GoodServer' /\ Follows
  BY <1>1, ServerSame DEF MInv
<1>3. \A b \in Action : ~At(b, "remove")
  BY <1>1, RemoverHolds DEF At, MInv
<1>4. LeftKept(m)
  BY <1>1, <1>2, <1>3, LeftFate DEF server
<1>5. CASE Goes(a, "note") /\ UNCHANGED archived
  <2>1. /\ \A b \in Action \ {a} : actions'[b] = actions[b]
        /\ actions'[a] \in GoodAct /\ actions'[a].at = "note" /\ actions'[a].op = actions[a].op
        /\ actions'[a].todo = actions[a].todo /\ actions'[a].done = actions[a].done
    BY <1>1, <1>5, GoesView DEF MInv
  <2>2. PICK x \in GoodAct, y \in GoodAct : x = actions[a] /\ y = actions'[a]
    BY <2>1 DEF MInv, GoodActions
  <2> QED BY <1>1, <1>2, <1>4, <1>5, <2>1, <2>2, PutTrack DEF Moved
<1>6. CASE Succeeds(a)
  <2>1. PICK done : done = Append(actions[a].done, Now(a))
    OBVIOUS
  <2>2. done \in Done(a) /\ Finish(a, done)
    BY <1>1, <1>6, <2>1 DEF Done, Succeeds
  <2>3. done # actions[a].done
    BY <1>1, <2>1, DoneTasks, AppendProperties, LenProperties DEF MInv
  <2> QED BY <1>1, <1>2, <1>4, <2>2, <2>3, FinishTrack
<1>7. CASE Fails(a) /\ actions[a].op # "undo" /\ {r \in rows : TaskFor(r, Now(a).to) = Now(a)} = {}
  <2>1. Now(a).msg # m
    BY <1>1, <1>7 DEF RowThere, There, HasRow
  <2>2. actions[a].done \in Done(a) /\ Finish(a, actions[a].done)
    BY <1>7 DEF Done, Fails
  <2> QED BY <1>1, <1>2, <1>4, <2>1, <2>2, FinishTrack
<1>8. \/ Goes(a, "note") /\ UNCHANGED archived
      \/ Succeeds(a)
      \/ Fails(a) /\ actions[a].op # "undo" /\ {r \in rows : TaskFor(r, Now(a).to) = Now(a)} = {}
  BY DEF DropRow
<1> QED BY <1>5, <1>6, <1>7, <1>8

LEMMA NoteOriginTrack ==
  ASSUME MInv, Aims, NEW a \in Action, NoteOrigin(a), NEW m, Hands(m), Way(m)
  PROVE  Hands(m)' /\ Way(m)'
<1>1. /\ actions[a].at = "note" /\ actions[a].at # "idle" /\ actions[a].at \in Moved
      /\ Finish(a, Append(actions[a].done, Now(a)))
      /\ UNCHANGED <<server, home>>
  BY DEF NoteOrigin, At, Succeeds, Moved
<1>2. GoodServer' /\ Follows
  BY <1>1, ServerSame DEF MInv
<1>3. PICK done \in Done(a) : done = Append(actions[a].done, Now(a))
  BY <1>1 DEF Done
<1>4. done \in Seq(Task) /\ Finish(a, done) /\ done # actions[a].done
  BY <1>1, <1>3, DoneTasks, AppendProperties, LenProperties DEF MInv
<1>5. \A b \in Action \ {a} : actions'[b] = actions[b]
  BY <1>1, <1>4, FinishView DEF MInv
<1>6. LeftKept(m)
  <2>1. \A b \in Action : At(b, "remove") => At(b, "remove")' /\ actions'[b] = actions[b]
    BY <1>1, <1>5 DEF At
  <2> QED BY <1>1, <1>2, <2>1, LeftFate DEF server
<1> QED BY <1>1, <1>2, <1>4, <1>6, FinishTrack

LEMMA BreakTrack ==
  ASSUME MInv, NEW a \in Action, Break(a), NEW m, m \notin moot', Hands(m), Way(m)
  PROVE  Hands(m)' /\ Way(m)'
<1>1. /\ actions[a].at # "idle" /\ Finish(a, actions[a].done) /\ actions[a].done \in Done(a)
      /\ UNCHANGED <<server, home>>
      /\ moot' = moot \cup {Now(a).msg} \cup Copied(a)
  BY DEF Break, Fails, Done
<1>2. GoodServer' /\ Follows
  BY <1>1, ServerSame DEF MInv
<1>3. Now(a).msg # m /\ m \notin Copied(a)
  BY <1>1
<1>4. \A b \in Action \ {a} : actions'[b] = actions[b]
  BY <1>1, DoneTasks, FinishView DEF MInv
<1>5. LeftKept(m)
  <2>1. \A b \in Action : At(b, "remove") =>
          m \notin Copied(b) \/ (At(b, "remove")' /\ actions'[b] = actions[b])
    BY <1>3, <1>4 DEF At
  <2> QED BY <1>1, <1>2, <2>1, LeftFate DEF server
<1> QED BY <1>1, <1>2, <1>3, <1>5, FinishTrack

LEMMA SyncTrack ==
  ASSUME MInv, NEW f \in Folder, Sync(f), NEW m, Hands(m), Way(m)
  PROVE  Hands(m)' /\ Way(m)'
<1>1. UNCHANGED <<server, actions, archived, home>>
  BY DEF Sync, history
<1>2. GoodServer' /\ Follows
  BY <1>1, ServerSame DEF MInv
<1>3. LeftKept(m)
  <2>1. \A b \in Action : At(b, "remove") => At(b, "remove")' /\ actions'[b] = actions[b]
    BY <1>1 DEF At
  <2> QED BY <1>1, <1>2, <2>1, LeftFate DEF server
<1> QED BY <1>1, <1>2, <1>3, SameTrack

LEMMA Elsewhere ==
  ASSUME GoodServer, NEW c \in copies, NEW to \in Folder, MoveElsewhere(c, to)
  PROVE  /\ GoodServer' /\ Follows
         /\ \A d \in copies' : d \in copies \ {c} \/ (d \notin copies /\ d.msg = c.msg)
         /\ copies \ {c} \subseteq copies' /\ uidValidity' = uidValidity
<1>1. /\ copies' = (copies \ {c}) \cup Landed({c}, to)
      /\ uidNext' = [uidNext EXCEPT ![to] = @ + 1]
      /\ UNCHANGED <<hasMove, uidValidity>>
  BY DEF MoveElsewhere
<1>2. PICK h \in SUBSET copies : h = {c}
  OBVIOUS
<1>3. /\ (\A u, v \in h : u = v) /\ h \in SUBSET h
      /\ copies' = (copies \ h) \cup Landed(h, to)
      /\ uidNext' = [uidNext EXCEPT ![to] = @ + (IF h = {} THEN 0 ELSE 1)]
      /\ UNCHANGED <<hasMove, uidValidity>>
  BY <1>1, <1>2
<1>4. /\ GoodServer' /\ Follows
      /\ \A d \in copies' : d \in copies \ h \/ (d \notin copies /\ \E x \in h : d.msg = x.msg)
  BY <1>3, Lands
<1> QED BY <1>1, <1>2, <1>4

LEMMA MoveElsewhereTrack ==
  ASSUME MInv, NEW c \in copies, NEW to \in Folder, MoveElsewhere(c, to),
         NEW m, m \notin moot', Hands(m), Way(m)
  PROVE  Hands(m)' /\ Way(m)'
<1>1. /\ UNCHANGED <<actions, archived, home>> /\ moot' = moot \cup {c.msg}
  BY DEF MoveElsewhere
<1>2. /\ GoodServer' /\ Follows
      /\ \A d \in copies' : d \in copies \ {c} \/ (d \notin copies /\ d.msg = c.msg)
  BY Elsewhere DEF MInv
<1>3. LeftKept(m)
  <2> SUFFICES ASSUME NEW d \in Left(m)'
               PROVE  d.folder \in Folder /\ d \in Left(m)
    BY DEF LeftKept
  <2>1. d \in copies' /\ d.msg = m /\ \A b \in Action : At(b, "remove")' => d \notin Named(Now(b))'
    BY DEF Left
  <2>2. d \in copies
    BY <1>1, <1>2, <2>1
  <2>3. \A b \in Action : At(b, "remove") => d \notin Named(Now(b))
    BY <1>1, <2>1, <2>2 DEF At, Named, Now
  <2> QED BY <2>1, <2>2, <2>3, CopyFields DEF Left, MInv
<1> QED BY <1>1, <1>2, <1>3, SameTrack

LEMMA RenumberTrack ==
  ASSUME MInv, NEW f \in Folder, Renumber(f), NEW m, Hands(m), Way(m)
  PROVE  Hands(m)' /\ Way(m)'
<1>1. /\ syncMu # NoAction => Now(syncMu).folder # f
      /\ UNCHANGED <<actions, archived, home>>
  BY DEF Renumber, history
<1>2. /\ GoodServer' /\ Follows
      /\ uidValidity' = [uidValidity EXCEPT ![f] = @ + 1]
      /\ \A d \in copies' : \E c \in copies :
           c.msg = d.msg /\ c.folder = d.folder /\ (c.folder # f => c = d)
  BY Renumbered DEF MInv
<1>3. LeftKept(m)
  <2> SUFFICES ASSUME NEW d \in Left(m)'
               PROVE  /\ d.folder \in Folder
                      /\ \E c \in Left(m) :
                           /\ c.folder = d.folder
                           /\ uidValidity'[d.folder] = uidValidity[d.folder] => c.uid = d.uid
    BY DEF LeftKept
  <2>1. d \in copies' /\ d.msg = m /\ \A b \in Action : At(b, "remove")' => d \notin Named(Now(b))'
    BY DEF Left
  <2>2. PICK c \in copies : c.msg = d.msg /\ c.folder = d.folder /\ (c.folder # f => c = d)
    BY <1>2, <2>1
  <2>3. ASSUME NEW b \in Action, At(b, "remove"), c \in Named(Now(b))
        PROVE  FALSE
    <3>1. syncMu = b
      BY <2>3, RemoverHolds DEF MInv
    <3>2. c.folder = Now(b).folder
      BY <2>3 DEF Named
    <3>3. b # NoAction
      BY MovesAssumption
    <3>4. Now(b).folder # f
      BY <1>1, <3>1, <3>3
    <3>5. c = d
      BY <2>2, <3>2, <3>4
    <3>6. d \in Named(Now(b))' /\ At(b, "remove")'
      BY <1>1, <2>1, <2>3, <3>5 DEF Named, At, Now
    <3> QED BY <2>1, <3>6
  <2>4. c \in Left(m) /\ d.folder \in Folder
    BY <2>1, <2>2, <2>3, CopyFields DEF Left, MInv
  <2>5. uidValidity'[d.folder] = uidValidity[d.folder] => c = d
    BY <1>2, <2>2, <2>4 DEF MInv, GoodServer
  <2> QED BY <2>2, <2>4, <2>5
<1> QED BY <1>1, <1>2, <1>3, SameTrack

-----------------------------------------------------------------------------
(* Something new is begun *)

LEMMA OfConcat ==
  ASSUME NEW s \in Seq(Task), NEW u \in Seq(Task), NEW m,
         Of(s, m) # {} \/ Of(u, m) # {}
  PROVE  m \in MsgsOf(s \o u)
<1>1. /\ s \o u \in Seq(Task) /\ Len(s \o u) = Len(s) + Len(u)
      /\ Len(s) \in Nat /\ Len(u) \in Nat
      /\ \A i \in 1..Len(s) : (s \o u)[i] = s[i]
      /\ \A i \in 1..Len(u) : (s \o u)[Len(s) + i] = u[i]
  BY ConcatProperties, LenProperties
<1>2. \A i \in 1..Len(s \o u) : i \in DOMAIN (s \o u)
  BY <1>1, LenProperties
<1>3. CASE Of(s, m) # {}
  <2>1. PICK i \in 1..Len(s) : s[i].msg = m
    BY <1>3 DEF Of
  <2>2. i \in 1..Len(s \o u) /\ (s \o u)[i].msg = m
    BY <1>1, <2>1
  <2> QED BY <1>2, <2>2 DEF MsgsOf
<1>4. CASE Of(u, m) # {}
  <2>1. PICK i \in 1..Len(u) : u[i].msg = m
    BY <1>4 DEF Of
  <2>2. Len(s) + i \in 1..Len(s \o u) /\ (s \o u)[Len(s) + i].msg = m
    BY <1>1, <2>1
  <2> QED BY <1>2, <2>2 DEF MsgsOf
<1> QED BY <1>3, <1>4

LEMMA HasInHand ==
  ASSUME GoodActions, NEW a \in Action, NEW b \in Action \ {a}, NEW m, Has(actions[b], m)
  PROVE  m \in InHand(a)
<1>1. PICK x \in GoodAct : x = actions[b]
  BY DEF GoodActions
<1>2. x.todo \in Seq(Task) /\ x.done \in Seq(Task)
  BY DEF GoodAct, Act
<1>3. CASE x.at = "idle"
  <2>1. Ahead(x) = <<>> /\ Behind(x) = x.done
    BY <1>3 DEF Ahead, Behind, Moved, GoodAct
  <2> QED BY <1>1, <1>2, <2>1, OfEmpty, OfConcat DEF Has, InHand
<1>4. CASE x.at # "idle"
  <2>1. Of(Ahead(x), m) # {} \/ Of(Behind(x), m) # {}
    BY <1>1 DEF Has
  <2>2. Of(x.todo, m) = (IF Head(x.todo).msg = m THEN {Head(x.todo)} ELSE {})
                          \cup Of(Tail(x.todo), m)
    BY <1>2, <1>4, Shares, OfTail
  <2>3. /\ Of(Ahead(x), m) = (IF x.at \notin Moved /\ Head(x.todo).msg = m THEN {Head(x.todo)}
                                                                          ELSE {})
                                \cup Of(Tail(x.todo), m)
        /\ Of(Behind(x), m) = (IF x.at \in Moved /\ Head(x.todo).msg = m THEN {Head(x.todo)}
                                                                        ELSE {})
                                 \cup Of(x.done, m)
    BY <1>4, Shares
  <2>4. Of(x.todo, m) # {} \/ Of(x.done, m) # {}
    BY <2>1, <2>2, <2>3
  <2> QED BY <1>1, <1>2, <2>4, OfConcat DEF InHand
<1> QED BY <1>3, <1>4

LEMMA StartView ==
  ASSUME GoodActions, NEW a \in Action, NEW op \in {"move", "spam", "notSpam", "undo"},
         NEW at \in {"read", "lock"}, NEW tasks \in Seq(Task), tasks # <<>>,
         Start(a, op, at, tasks)
  PROVE  /\ UNCHANGED <<server, store, home, stuck>> /\ actions[a] = Idle
         /\ \A b \in Action \ {a} : actions'[b] = actions[b]
         /\ actions'[a] = [op |-> op, at |-> at, todo |-> tasks, done |-> <<>>]
         /\ actions'[a] \in GoodAct
         /\ moot' = moot \cup (MsgsOf(tasks) \cap InHand(a))
<1> DEFINE y == [op |-> op, at |-> at, todo |-> tasks, done |-> <<>>]
<1>1. /\ actions' = [actions EXCEPT ![a] = y] /\ actions[a] = Idle
      /\ UNCHANGED <<server, store, home, stuck>>
      /\ moot' = moot \cup (MsgsOf(tasks) \cap InHand(a))
  BY DEF Start
<1>2. y \in GoodAct
  <2>1. <<>> \in Seq(Task)
    BY EmptySeq
  <2> QED BY <2>1 DEF GoodAct, Act
<1> HIDE DEF y
<1>3. actions'[a] = y /\ \A b \in Action \ {a} : actions'[b] = actions[b]
  BY <1>1 DEF GoodActions
<1> QED BY <1>1, <1>2, <1>3 DEF y

\* Nobody else has what is begun, or it is no longer vouched for.
LEMMA StartHands ==
  ASSUME MInv, NEW a \in Action, NEW op \in {"move", "spam", "notSpam", "undo"},
         NEW at \in {"read", "lock"}, NEW tasks \in Seq(Task), tasks # <<>>,
         Start(a, op, at, tasks), NEW m, m \notin moot', Hands(m),
         op = "undo" => One(tasks, m)
  PROVE  /\ GoodServer' /\ Follows /\ LeftKept(m) /\ Hands(m)'
         /\ Of(tasks, m) # {} => \A b \in Action \ {a} : ~Has(actions[b], m)
<1>1. /\ UNCHANGED <<server, store, home>> /\ actions[a] = Idle
      /\ \A b \in Action \ {a} : actions'[b] = actions[b]
      /\ moot' = moot \cup (MsgsOf(tasks) \cap InHand(a))
      /\ actions'[a] = [op |-> op, at |-> at, todo |-> tasks, done |-> <<>>]
      /\ actions'[a] \in GoodAct
  <2>1. GoodActions
    BY DEF MInv
  <2> QED BY <2>1, StartView
<1>2. PICK y \in GoodAct : /\ y = actions'[a]
                           /\ y = [op |-> op, at |-> at, todo |-> tasks, done |-> <<>>]
  BY <1>1
<1>3. Ahead(y) = tasks /\ Behind(y) = <<>> /\ y.op = op
  BY <1>2 DEF Ahead, Behind, Moved
<1>4. GoodServer' /\ Follows
  BY <1>1, ServerSame DEF MInv
<1>5. LeftKept(m)
  <2>1. \A b \in Action : At(b, "remove") => At(b, "remove")' /\ actions'[b] = actions[b]
    BY <1>1 DEF At, Idle
  <2> QED BY <1>1, <1>4, <2>1, LeftFate DEF server
<1>6. ASSUME Of(tasks, m) # {}, NEW b \in Action \ {a}
      PROVE  ~Has(actions[b], m)
  <2> SUFFICES ASSUME Has(actions[b], m) PROVE FALSE
    OBVIOUS
  <2>1. m \in InHand(a)
    BY HasInHand DEF MInv
  <2>2. m \in MsgsOf(tasks)
    <3>1. PICK i \in 1..Len(tasks) : tasks[i].msg = m
      BY <1>6 DEF Of
    <3>2. i \in DOMAIN tasks
      BY <3>1, LenProperties
    <3> QED BY <3>1, <3>2 DEF MsgsOf
  <2> QED BY <1>1, <2>1, <2>2
<1>7. Has(y, m) => \A b \in Action \ {a} : ~Has(actions'[b], m)
  <2>1. Has(y, m) => Of(tasks, m) # {}
    BY <1>3, OfEmpty DEF Has
  <2> QED BY <1>1, <1>6, <2>1
<1>8. OneHand(m)'
  <2> SUFFICES ASSUME NEW b \in Action, NEW d \in Action, Has(actions'[b], m), Has(actions'[d], m)
               PROVE  b = d
    BY DEF OneHand
  <2>1. CASE b = a \/ d = a
    BY <1>2, <1>7, <2>1
  <2>2. CASE b # a /\ d # a
    BY <1>1, <2>2 DEF Hands, OneHand
  <2> QED BY <2>1, <2>2
<1>9. OnceIn(y, m)'
  BY <1>3, OfEmpty DEF OnceIn
<1>10. ASSUME NEW b \in Action
       PROVE  OnceIn(actions[b], m)'
  <2>1. CASE b = a
    BY <1>2, <1>9, <2>1
  <2>2. CASE b # a
    <3>1. PICK z : z = actions[b] /\ z = actions'[b]
      BY <1>1, <2>2
    <3>2. OnceIn(z, m) /\ Smaller(z, z, m)
      BY <3>1 DEF Hands, Once, Smaller
    <3>3. OnceIn(z, m)'
      BY <1>4, <1>5, <3>1, <3>2, OnceSmaller
    <3> QED BY <3>1, <3>3
  <2> QED BY <2>1, <2>2
<1>11. Once(m)'
  BY <1>10 DEF Once
<1> QED BY <1>4, <1>5, <1>6, <1>8, <1>11 DEF Hands

\* Nothing has been moved yet.
LEMMA StartTrack ==
  ASSUME MInv, NEW a \in Action, NEW op \in {"move", "spam", "notSpam"},
         NEW at \in {"read", "lock"}, NEW tasks \in Seq(Task), tasks # <<>>,
         Start(a, op, at, tasks), UNCHANGED archived, NEW m, m \notin moot', Hands(m), Way(m)
  PROVE  Hands(m)' /\ Way(m)'
<1>1. /\ UNCHANGED home /\ actions[a] = Idle
      /\ \A b \in Action \ {a} : actions'[b] = actions[b]
      /\ actions'[a] = [op |-> op, at |-> at, todo |-> tasks, done |-> <<>>]
  BY StartView DEF MInv
<1>2. Hands(m)' /\ LeftKept(m)
  BY StartHands
<1>3. PICK y : /\ y = actions'[a]
               /\ y = [op |-> op, at |-> at, todo |-> tasks, done |-> <<>>]
  BY <1>1
<1>4. \A f, g : ~LooseIn(y, m, f, g)
  <2>1. Behind(y) = <<>> /\ y.op # "undo"
    BY <1>3 DEF Behind, Moved
  <2> QED BY <2>1, OfEmpty DEF LooseIn
<1>5. \A b \in Action : \A f, g : LooseIn(actions'[b], m, f, g) <=> LooseIn(actions[b], m, f, g)
  BY <1>1, <1>3, <1>4, NothingInIdle
<1>6. \A f, g : Loose(m, f, g)' <=> Loose(m, f, g)
  BY <1>5, LooseSame
<1>7. Way(m)'
  BY <1>1, <1>2, <1>6, WayKept
<1> QED BY <1>2, <1>7

LEMMA MoveRowsTrack ==
  ASSUME MInv, NEW a \in Action, NEW to \in Folder, MoveRows(a, to),
         NEW m, m \notin moot', Hands(m), Way(m)
  PROVE  Hands(m)' /\ Way(m)'
BY MoveRowsStarts, StartTrack

LEMMA ToggleSpamTrack ==
  ASSUME MInv, NEW a \in Action, ToggleSpam(a), NEW m, m \notin moot', Hands(m), Way(m)
  PROVE  Hands(m)' /\ Way(m)'
BY ToggleSpamStarts, StartTrack

\* The way back of a batch.
LEMMA BackOf ==
  ASSUME NEW s \in Seq(Task), NEW u \in Seq(Task), Len(u) = Len(s),
         \A i \in 1..Len(u) : u[i] = Back(s[i]), NEW m
  PROVE  /\ Of(u, m) # {} <=> Of(s, m) # {}
         /\ One(s, m) => One(u, m)
         /\ \A f, g : (\E t \in Of(u, m) : t.to = f /\ t.folder = g)
                        <=> \E t \in Of(s, m) : t.folder = f /\ t.to = g
<1>1. \A i \in 1..Len(s) : /\ u[i].msg = s[i].msg /\ u[i].to = s[i].folder
                           /\ u[i].folder = s[i].to
  <2> SUFFICES ASSUME NEW i \in 1..Len(s)
               PROVE  u[i].msg = s[i].msg /\ u[i].to = s[i].folder /\ u[i].folder = s[i].to
    OBVIOUS
  <2>1. PICK t \in Task : t = s[i]
    BY ElementOfSeq
  <2>2. Back(t).msg = t.msg /\ Back(t).to = t.folder /\ Back(t).folder = t.to
    BY DEF Back, Task
  <2> QED BY <2>1, <2>2
<1>2. \A i \in 1..Len(s) : /\ s[i].msg = m => s[i] \in Of(s, m)
                           /\ u[i].msg = m => u[i] \in Of(u, m)
  BY OfIn
<1>3. /\ \A t \in Of(s, m) : \E i \in 1..Len(s) : s[i] = t /\ t.msg = m
      /\ \A t \in Of(u, m) : \E i \in 1..Len(s) : u[i] = t /\ t.msg = m
  BY OfIn
<1>4. One(s, m) => One(u, m)
  BY <1>1 DEF One
<1>5. Of(u, m) # {} <=> Of(s, m) # {}
  <2>1. ASSUME NEW t \in Of(u, m) PROVE Of(s, m) # {}
    BY <1>1, <1>2, <1>3
  <2>2. ASSUME NEW t \in Of(s, m) PROVE Of(u, m) # {}
    BY <1>1, <1>2, <1>3
  <2> QED BY <2>1, <2>2
<1>6. ASSUME NEW f, NEW g
      PROVE  (\E t \in Of(u, m) : t.to = f /\ t.folder = g)
               <=> \E t \in Of(s, m) : t.folder = f /\ t.to = g
  <2>1. ASSUME NEW t \in Of(u, m), t.to = f, t.folder = g
        PROVE  \E v \in Of(s, m) : v.folder = f /\ v.to = g
    <3>1. PICK i \in 1..Len(s) : u[i] = t /\ t.msg = m
      BY <1>3
    <3> QED BY <1>1, <1>2, <2>1, <3>1
  <2>2. ASSUME NEW t \in Of(s, m), t.folder = f, t.to = g
        PROVE  \E v \in Of(u, m) : v.to = f /\ v.folder = g
    <3>1. PICK i \in 1..Len(s) : s[i] = t /\ t.msg = m
      BY <1>3
    <3> QED BY <1>1, <1>2, <2>2, <3>1
  <2> QED BY <2>1, <2>2
<1> QED BY <1>4, <1>5, <1>6

LEMMA UndoArchiveTrack ==
  ASSUME MInv, NEW a \in Action, UndoArchive(a), NEW m, m \notin moot', Hands(m), Way(m)
  PROVE  Hands(m)' /\ Way(m)'
<1>1. archived # <<>> /\ archived' = Front(archived) /\ Last(archived) \in Seq(Task)
  BY UndoArchiveStarts DEF UndoArchive
<1>2. PICK last \in Seq(Task) : last = Last(archived)
  BY <1>1
<1>3. PICK tasks \in Seq(Task) :
        /\ tasks # <<>> /\ Start(a, "undo", "lock", tasks) /\ Len(tasks) = Len(last)
        /\ \A i \in 1..Len(tasks) : tasks[i] = Back(last[i])
  BY <1>2, UndoArchiveStarts
<1>4. /\ Of(tasks, m) # {} <=> Of(last, m) # {}
      /\ One(last, m) => One(tasks, m)
      /\ \A f, g : (\E t \in Of(tasks, m) : t.to = f /\ t.folder = g)
                     <=> \E t \in Of(last, m) : t.folder = f /\ t.to = g
  BY <1>3, BackOf
<1>5. One(last, m)
  <2>1. Len(archived) \in 1..Len(archived)
    BY <1>1, EmptySeq, LenProperties DEF MInv, GoodActions
  <2> QED BY <1>2, <2>1 DEF Way, Chain, Last
<1>6. /\ Hands(m)' /\ LeftKept(m)
      /\ Of(tasks, m) # {} => \A b \in Action \ {a} : ~Has(actions[b], m)
  BY <1>3, <1>4, <1>5, StartHands
<1>7. /\ UNCHANGED home /\ actions[a] = Idle
      /\ \A b \in Action \ {a} : actions'[b] = actions[b]
      /\ actions'[a] = [op |-> "undo", at |-> "lock", todo |-> tasks, done |-> <<>>]
  <2>1. PICK op \in {"move", "spam", "notSpam", "undo"}, at \in {"read", "lock"} :
          op = "undo" /\ at = "lock"
    OBVIOUS
  <2>2. Start(a, op, at, tasks)
    BY <1>3, <2>1
  <2> QED BY <1>3, <2>1, <2>2, StartView DEF MInv
<1>8. PICK y : /\ y = actions'[a]
               /\ y = [op |-> "undo", at |-> "lock", todo |-> tasks, done |-> <<>>]
  BY <1>7
<1>9. \A f, g : LooseIn(y, m, f, g) <=> \E t \in Of(last, m) : t.folder = f /\ t.to = g
  <2>1. Ahead(y) = tasks /\ y.op = "undo"
    BY <1>8 DEF Ahead, Moved
  <2>2. ASSUME NEW f, NEW g
        PROVE  LooseIn(y, m, f, g) <=> \E t \in Of(tasks, m) : t.to = f /\ t.folder = g
    BY <2>1 DEF LooseIn
  <2> QED BY <1>4, <2>2
<1>10. \A f, g : ~LooseIn(actions[a], m, f, g)
  BY <1>7, NothingInIdle
<1>11. CASE Of(last, m) = {}
  <2>1. \A b \in Action : \A f, g : LooseIn(actions'[b], m, f, g) <=> LooseIn(actions[b], m, f, g)
    BY <1>7, <1>8, <1>9, <1>10, <1>11
  <2>2. \A f, g : Loose(m, f, g)' <=> Loose(m, f, g)
    BY <2>1, LooseSame
  <2>3. Way(m)'
    BY <1>1, <1>2, <1>6, <1>7, <1>11, <2>2, WayPopped DEF MInv
  <2> QED BY <1>6, <2>3
<1>12. CASE Of(last, m) # {}
  <2>1. \A b \in Action \ {a} : \A f, g : ~LooseIn(actions[b], m, f, g)
    BY <1>4, <1>6, <1>12, LooseHas
  <2>2. \A f, g : ~Loose(m, f, g)
    BY <1>10, <2>1 DEF Loose
  <2>3. \A f, g : Loose(m, f, g)' <=> \E t \in Of(last, m) : t.folder = f /\ t.to = g
    <3>1. ASSUME NEW f, NEW g
          PROVE  Loose(m, f, g)' <=> LooseIn(y, m, f, g)
      <4>1. Loose(m, f, g)' <=> \E b \in Action : LooseIn(actions'[b], m, f, g)
        BY DEF Loose
      <4>2. \A b \in Action \ {a} : ~LooseIn(actions'[b], m, f, g)
        BY <1>7, <2>1
      <4> QED BY <1>8, <4>1, <4>2
    <3> QED BY <1>9, <3>1
  <2>4. Way(m)'
    BY <1>1, <1>2, <1>6, <1>7, <1>12, <2>2, <2>3, WayPopped DEF MInv
  <2> QED BY <1>6, <2>4
<1> QED BY <1>11, <1>12

-----------------------------------------------------------------------------
(* Aims *)

LEMMA TasksOf ==
  ASSUME NEW s \in Seq(Task), s # <<>>
  PROVE  Tasks(s) = {Head(s)} \cup Tasks(Tail(s))
<1>1. /\ Head(s) = s[1] /\ Tail(s) \in Seq(Task) /\ Len(Tail(s)) = Len(s) - 1
      /\ \A i \in 1..Len(Tail(s)) : Tail(s)[i] = s[i + 1]
  BY HeadTailProperties
<1>2. Len(s) \in Nat \ {0}
  BY EmptySeq
<1> DEFINE u == Tail(s)
<1>3. Len(u) = Len(s) - 1 /\ \A i \in 1..Len(u) : u[i] = s[i + 1]
  BY <1>1
<1> HIDE DEF u
<1>4. ASSUME NEW t \in Tasks(s) PROVE t = Head(s) \/ t \in Tasks(u)
  <2>1. PICK i \in 1..Len(s) : t = s[i]
    BY <1>4 DEF Tasks
  <2>2. i = 1 \/ (i - 1 \in 1..Len(u) /\ (i - 1) + 1 = i)
    BY <1>2, <1>3
  <2> QED BY <1>1, <1>3, <2>1, <2>2 DEF Tasks
<1>5. Head(s) \in Tasks(s)
  <2>1. 1 \in 1..Len(s)
    BY <1>2
  <2> QED BY <1>1, <2>1 DEF Tasks
<1>6. ASSUME NEW t \in Tasks(u) PROVE t \in Tasks(s)
  <2>1. PICK i \in 1..Len(u) : t = u[i]
    BY <1>6 DEF Tasks
  <2>2. i + 1 \in 1..Len(s)
    BY <1>2, <1>3
  <2> QED BY <1>3, <2>1, <2>2 DEF Tasks
<1> QED BY <1>4, <1>5, <1>6 DEF u

LEMMA IdleAimed == Aimed(Idle)
BY DEF Aimed, Idle

LEMMA PutAims ==
  ASSUME GoodActions, Aims, NEW a \in Action, \A b \in Action \ {a} : actions'[b] = actions[b],
         NEW x \in GoodAct, x = actions[a], x.at # "idle",
         NEW y \in GoodAct, y = actions'[a], y.at # "idle",
         y.op = x.op, Tail(y.todo) = Tail(x.todo),
         x.op = "undo" => y.at # "read" /\ Head(y.todo).validity = Head(x.todo).validity,
         x.op = "spam" => Head(y.todo).to = Head(x.todo).to,
         x.op = "notSpam" => Head(y.todo).folder = Head(x.todo).folder,
         x.op # "undo" /\ y.at # "read" => Head(y.todo).to # Head(y.todo).folder,
         y.at = "note" => x.op \in {"spam", "notSpam"}
  PROVE  Aims'
<1>1. Aimed(x)
  BY DEF Aims
<1>2. x.todo \in Seq(Task) /\ x.todo # <<>> /\ y.todo \in Seq(Task) /\ y.todo # <<>>
  BY Shares
<1>3. /\ Tasks(x.todo) = {Head(x.todo)} \cup Tasks(Tail(x.todo))
      /\ Tasks(y.todo) = {Head(y.todo)} \cup Tasks(Tail(x.todo))
  BY <1>2, TasksOf
<1>4. Aimed(y)
  BY <1>1, <1>3 DEF Aimed
<1> QED BY <1>4 DEF Aims

\* Only the point is another.
LEMMA GoesAims ==
  ASSUME GoodActions, Aims, NEW a \in Action, actions[a].at # "idle",
         NEW at \in {"lock", "move", "remove", "drop", "note"}, Goes(a, at),
         actions[a].at # "read", at = "note" => actions[a].op \in {"spam", "notSpam"}
  PROVE  Aims'
<1>1. /\ \A b \in Action \ {a} : actions'[b] = actions[b]
      /\ actions'[a] \in GoodAct /\ actions'[a].at = at /\ actions'[a].op = actions[a].op
      /\ actions'[a].todo = actions[a].todo
  BY GoesView
<1>2. PICK x \in GoodAct, y \in GoodAct : x = actions[a] /\ y = actions'[a]
  BY <1>1 DEF GoodActions
<1>3. x.op # "undo" => Head(x.todo).to # Head(x.todo).folder
  BY <1>2 DEF Aims, Aimed
<1> QED BY <1>1, <1>2, <1>3, PutAims

LEMMA FinishAims ==
  ASSUME GoodActions, Aims, NEW a \in Action, actions[a].at # "idle",
         NEW done \in Seq(Task), Finish(a, done)
  PROVE  Aims'
<1>0. PICK x, y : x = actions[a] /\ y = actions'[a]
  OBVIOUS
<1>1. /\ \A b \in Action \ {a} : actions'[b] = actions[b]
      /\ \/ y = Idle
         \/ /\ y.op = x.op /\ y.todo = Tail(x.todo)
            /\ y.at = IF x.op = "undo" THEN "lock" ELSE "read"
  BY <1>0, FinishView
<1>2. x.todo \in Seq(Task) /\ x.todo # <<>>
  BY <1>0, ActAt
<1>3. Tasks(Tail(x.todo)) \subseteq Tasks(x.todo)
  BY <1>2, TasksOf
<1>4. Aimed(x)
  BY <1>0 DEF Aims
<1>5. Aimed(y)
  <2>1. CASE y = Idle
    BY <2>1, IdleAimed
  <2>2. CASE /\ y.op = x.op /\ y.todo = Tail(x.todo)
             /\ y.at = IF x.op = "undo" THEN "lock" ELSE "read"
    BY <1>3, <1>4, <2>2 DEF Aimed
  <2> QED BY <1>1, <2>1, <2>2
<1> QED BY <1>0, <1>1, <1>5 DEF Aims

LEMMA StartAims ==
  ASSUME GoodActions, Aims, NEW a \in Action, NEW op \in {"move", "spam", "notSpam", "undo"},
         NEW at \in {"read", "lock"}, NEW tasks \in Seq(Task), tasks # <<>>,
         Start(a, op, at, tasks), at = "read" <=> op # "undo",
         op = "undo" => \A i \in 1..Len(tasks) : tasks[i].validity = 0,
         op = "spam" => \A i \in 1..Len(tasks) : tasks[i].to = Junk,
         op = "notSpam" => \A i \in 1..Len(tasks) : tasks[i].folder = Junk
  PROVE  Aims'
<1>1. /\ \A b \in Action \ {a} : actions'[b] = actions[b]
      /\ actions'[a] = [op |-> op, at |-> at, todo |-> tasks, done |-> <<>>]
  BY StartView
<1>2. PICK y : y = actions'[a] /\ y.op = op /\ y.at = at /\ y.todo = tasks
  BY <1>1
<1>3. Aimed(y)
  BY <1>2 DEF Aimed, Tasks
<1> QED BY <1>1, <1>2, <1>3 DEF Aims

LEMMA UserAims ==
  ASSUME MInv, Aims, NEW a \in Action, User(a)
  PROVE  Aims'
<1>0. GoodActions
  BY DEF MInv
<1>1. ASSUME NEW to \in Folder, MoveRows(a, to) PROVE Aims'
  BY <1>0, <1>1, MoveRowsStarts, StartAims
<1>2. CASE ToggleSpam(a)
  <2>1. PICK t \in Task, op \in {"spam", "notSpam"} :
              /\ <<t>> \in Seq(Task) /\ <<t>> # <<>> /\ Start(a, op, "read", <<t>>)
              /\ \A i \in 1..Len(<<t>>) : Sound(<<t>>[i]) /\ <<t>>[i] = t
              /\ t.to = Junk /\ (op = "notSpam" => t.folder = Junk)
    BY <1>2, ToggleSpamStarts
  <2>2. PICK tasks \in Seq(Task) : tasks = <<t>>
    BY <2>1
  <2> QED BY <1>0, <2>1, <2>2, StartAims
<1>3. CASE UndoArchive(a)
  <2>1. PICK tasks \in Seq(Task) :
              /\ tasks # <<>> /\ Start(a, "undo", "lock", tasks)
              /\ Len(tasks) = Len(Last(archived))
              /\ \A i \in 1..Len(tasks) : tasks[i] = Back(Last(archived)[i])
    BY <1>3, UndoArchiveStarts
  <2>2. \A i \in 1..Len(tasks) : tasks[i].validity = 0
    <3> SUFFICES ASSUME NEW i \in 1..Len(tasks) PROVE tasks[i].validity = 0
      OBVIOUS
    <3>1. Last(archived) \in Seq(Task)
      BY <1>3, UndoArchiveStarts
    <3>2. PICK t \in Task : t = Last(archived)[i]
      BY <2>1, <3>1, ElementOfSeq
    <3>3. Back(t).validity = 0
      BY DEF Back, Task
    <3> QED BY <2>1, <3>2, <3>3
  <2> QED BY <1>0, <2>1, <2>2, StartAims
<1> QED BY <1>1, <1>2, <1>3 DEF User

LEMMA WorkAims ==
  ASSUME MInv, Aims, NEW a \in Action, Work(a) \/ Break(a)
  PROVE  Aims'
<1>0. GoodActions
  BY DEF MInv
<1>1. ASSUME actions[a].at # "idle", Fails(a) \/ Succeeds(a) PROVE Aims'
  BY <1>0, <1>1, DoneTasks, FinishAims DEF Fails, Succeeds
<1>2. CASE GetMessage(a)
  <2>1. actions[a].at = "read" /\ actions[a].at # "idle"
    BY <1>2 DEF GetMessage, At
  <2>2. CASE Fails(a)
    BY <1>1, <2>1, <2>2
  <2>3. CASE /\ Destination(a) # Now(a).folder
             /\ actions' = [actions EXCEPT ![a].at = "lock",
                              ![a].todo = <<[Now(a) EXCEPT !.to = Destination(a)]>> \o Tail(@)]
    <3> DEFINE to == Destination(a)
    <3>1. Now(a) \in Task /\ Now(a) = Head(actions[a].todo)
      BY <1>0, <2>1, ActAt DEF Now
    <3>2. to \in Folder /\ (actions[a].op = "spam" => to = Now(a).to)
      <4>1. Now(a).to \in Folder /\ Inbox \in Folder /\ Junk \in Folder
        BY <3>1, TaskFields DEF Folder
      <4> QED BY <4>1 DEF Destination, NotSpamDestination
    <3> HIDE DEF to
    <3>3. PICK u \in Task : /\ u = [Now(a) EXCEPT !.to = to]
                            /\ u.folder = Now(a).folder /\ u.uid = Now(a).uid
                            /\ u.validity = Now(a).validity /\ u.msg = Now(a).msg
      BY <3>1, <3>2, Headed
    <3>4. u.to = to
      BY <3>1, <3>3 DEF Task
    <3>5. actions' = [actions EXCEPT ![a].at = "lock", ![a].todo = <<u>> \o Tail(@)]
      BY <2>3, <3>3 DEF to
    <3>6. /\ \A b \in Action \ {a} : actions'[b] = actions[b]
          /\ actions'[a] \in GoodAct /\ actions'[a].at = "lock" /\ actions'[a].op = actions[a].op
          /\ actions'[a].done = actions[a].done
          /\ Head(actions'[a].todo) = u /\ Tail(actions'[a].todo) = Tail(actions[a].todo)
      BY <1>0, <2>1, <3>5, PutView
    <3>7. PICK x \in GoodAct, y \in GoodAct : x = actions[a] /\ y = actions'[a]
      BY <1>0, <3>6 DEF GoodActions
    <3>8. /\ y.at = "lock" /\ y.op = x.op /\ Head(y.todo) = u /\ Tail(y.todo) = Tail(x.todo)
          /\ x.at # "idle" /\ y.at # "idle" /\ Head(x.todo) = Now(a)
          /\ y.at # "read" /\ y.at # "note" /\ (x.op = "spam" => u.to = Head(x.todo).to)
          /\ u.folder = Head(x.todo).folder /\ u.validity = Head(x.todo).validity /\ u.to # u.folder
      BY <2>1, <2>3, <3>1, <3>2, <3>3, <3>4, <3>6, <3>7 DEF to
    <3>9. \A b \in Action \ {a} : actions'[b] = actions[b]
      BY <3>6
    <3> QED BY <1>0, <3>7, <3>8, <3>9, PutAims
  <2> QED BY <1>2, <2>2, <2>3 DEF GetMessage
<1>3. CASE TagVerdict(a)
  <2>1. actions[a].at = "lock" /\ Goes(a, "move")
    BY <1>3 DEF TagVerdict, Lock, At
  <2> QED BY <1>0, <2>1, GoesAims
<1>4. CASE Search(a)
  <2> DEFINE c == Newest(SearchByMessageID(Now(a)))
  <2>1. /\ actions[a].at = "lock" /\ actions[a].at # "idle" /\ actions[a].op = "undo"
        /\ SearchByMessageID(Now(a)) # {}
        /\ actions' = [actions EXCEPT ![a].at = "move",
                         ![a].todo = <<[Now(a) EXCEPT !.uid = c.uid]>> \o Tail(@)]
    BY <1>4 DEF Search, Lock, At
  <2>2. Now(a) \in Task /\ Now(a) = Head(actions[a].todo)
    BY <1>0, <2>1, ActAt DEF Now
  <2>3. c.uid \in Nat
    BY <2>1, <2>2, SearchFinds, CopyFields DEF MInv
  <2> HIDE DEF c
  <2>4. PICK u \in Task : /\ u = [Now(a) EXCEPT !.uid = c.uid]
                          /\ u.folder = Now(a).folder /\ u.uid = c.uid
                          /\ u.validity = Now(a).validity /\ u.msg = Now(a).msg
    BY <2>2, <2>3, Found
  <2>5. actions' = [actions EXCEPT ![a].at = "move", ![a].todo = <<u>> \o Tail(@)]
    BY <2>1, <2>4
  <2>6. /\ \A b \in Action \ {a} : actions'[b] = actions[b]
        /\ actions'[a] \in GoodAct /\ actions'[a].at = "move" /\ actions'[a].op = actions[a].op
        /\ actions'[a].done = actions[a].done
        /\ Head(actions'[a].todo) = u /\ Tail(actions'[a].todo) = Tail(actions[a].todo)
    BY <1>0, <2>1, <2>5, PutView
  <2>7. PICK x \in GoodAct, y \in GoodAct : x = actions[a] /\ y = actions'[a]
    BY <1>0, <2>6 DEF GoodActions
  <2>8. /\ y.at = "move" /\ y.op = x.op /\ Head(y.todo) = u /\ Tail(y.todo) = Tail(x.todo)
        /\ x.at # "idle" /\ y.at # "idle" /\ x.op = "undo"
        /\ y.at # "read" /\ y.at # "note" /\ u.validity = Head(x.todo).validity
    BY <2>1, <2>2, <2>4, <2>6, <2>7
  <2>9. \A b \in Action \ {a} : actions'[b] = actions[b]
    BY <2>6
  <2> QED BY <1>0, <2>7, <2>8, <2>9, PutAims
<1>5. CASE NotFound(a)
  BY <1>1, <1>5 DEF NotFound, At
<1>6. CASE MoveMessage(a)
  <2>1. actions[a].at \in {"lock", "move"} /\ Goes(a, IF hasMove THEN "drop" ELSE "remove")
    BY <1>6, MoveHeld DEF MoveMessage
  <2>2. PICK at \in {"drop", "remove"} : at = IF hasMove THEN "drop" ELSE "remove"
    OBVIOUS
  <2>3. Goes(a, at)
    BY <2>1, <2>2
  <2> QED BY <1>0, <2>1, <2>3, GoesAims
<1>7. CASE DeleteMessages(a)
  <2>1. actions[a].at = "remove" /\ Goes(a, "drop")
    BY <1>7 DEF DeleteMessages, At
  <2> QED BY <1>0, <2>1, GoesAims
<1>8. CASE DropRow(a)
  <2>1. /\ actions[a].at = "drop"
        /\ \/ Fails(a)
           \/ Succeeds(a)
           \/ actions[a].op \in {"spam", "notSpam"} /\ Goes(a, "note")
    BY <1>8 DEF DropRow, At
  <2> QED BY <1>0, <1>1, <2>1, GoesAims
<1>9. CASE NoteOrigin(a)
  BY <1>1, <1>9 DEF NoteOrigin, At
<1>10. CASE Break(a)
  BY <1>1, <1>10 DEF Break
<1> QED BY <1>2, <1>3, <1>4, <1>5, <1>6, <1>7, <1>8, <1>9, <1>10 DEF Work

LEMMA AimsKept ==
  ASSUME MInv, Aims, [Next]_vars
  PROVE  Aims'
<1>1. CASE UNCHANGED actions
  BY <1>1 DEF Aims
<1>2. CASE Quit
  <2>1. \A b \in Action : actions'[b] = Idle
    BY <1>2 DEF Quit
  <2> QED BY <2>1, IdleAimed DEF Aims
<1>3. ASSUME NEW a \in Action, User(a) \/ Work(a) \/ Break(a) PROVE Aims'
  BY <1>3, UserAims, WorkAims
<1>4. ASSUME NEW f \in Folder, Sync(f) \/ Renumber(f) PROVE UNCHANGED actions
  BY <1>4 DEF Sync, Renumber
<1>5. ASSUME NEW c \in copies, NEW to \in Folder, MoveElsewhere(c, to) PROVE UNCHANGED actions
  BY <1>5 DEF MoveElsewhere
<1>6. UNCHANGED vars => UNCHANGED actions
  BY DEF vars
<1> QED BY <1>1, <1>2, <1>3, <1>4, <1>5, <1>6 DEF Next

-----------------------------------------------------------------------------
(* What the model vouches for no longer it does not vouch for again *)

LEMMA Grows ==
  ASSUME MInv, MInv', torn \subseteq moot, [Next]_vars
  PROVE  moot \subseteq moot' /\ phantom \subseteq phantom' /\ torn' \subseteq moot'
<1>1. ASSUME NEW a \in Action, NEW op, NEW at, NEW tasks, Start(a, op, at, tasks)
      PROVE  moot \subseteq moot' /\ UNCHANGED <<phantom, torn>>
  BY <1>1 DEF Start
<1>2. ASSUME NEW a \in Action, User(a)
      PROVE  moot \subseteq moot' /\ UNCHANGED <<phantom, torn>>
  BY <1>1, <1>2 DEF User, MoveRows, ToggleSpam, UndoArchive
<1>3. ASSUME NEW a \in Action, Work(a)
      PROVE  moot \subseteq moot' /\ phantom \subseteq phantom' /\ UNCHANGED torn
  BY <1>3 DEF Work, GetMessage, TagVerdict, Search, NotFound, MoveMessage, Noted, DeleteMessages,
              DropRow, NoteOrigin, history
<1>4. ASSUME NEW a \in Action, Break(a)
      PROVE  moot \subseteq moot' /\ phantom \subseteq phantom' /\ torn' \subseteq moot'
  BY <1>4 DEF Break
<1>5. ASSUME NEW f \in Folder, Sync(f) \/ Renumber(f)
      PROVE  UNCHANGED <<moot, phantom, torn>>
  BY <1>5 DEF Sync, Renumber, history
<1>6. ASSUME NEW c \in copies, NEW to \in Folder, MoveElsewhere(c, to)
      PROVE  moot \subseteq moot' /\ phantom \subseteq phantom' /\ torn' \subseteq moot'
  BY <1>6 DEF MoveElsewhere
<1>7. ASSUME Quit
      PROVE  moot \subseteq moot' /\ phantom \subseteq phantom' /\ torn' \subseteq moot'
  <2>1. moot \in SUBSET Msg /\ torn' \in SUBSET Msg
    BY DEF MInv, GoodHistory
  <2> QED BY <1>7, <2>1 DEF Quit
<1>8. UNCHANGED vars => UNCHANGED <<moot, phantom, torn>>
  BY DEF vars, history
<1> QED BY <1>2, <1>3, <1>4, <1>5, <1>6, <1>7, <1>8 DEF Next

-----------------------------------------------------------------------------
(* The row that was read is there *)

LEMMA NowHas ==
  ASSUME GoodActions, NEW a \in Action, actions[a].at # "idle"
  PROVE  Has(actions[a], Now(a).msg)
<1>1. PICK x \in GoodAct : x = actions[a]
  BY DEF GoodActions
<1>2. PICK m : m = Head(x.todo).msg
  OBVIOUS
<1>3. /\ Of(Ahead(x), m) = (IF x.at \notin Moved /\ Head(x.todo).msg = m THEN {Head(x.todo)}
                                                                        ELSE {})
                              \cup Of(Tail(x.todo), m)
      /\ Of(Behind(x), m) = (IF x.at \in Moved /\ Head(x.todo).msg = m THEN {Head(x.todo)}
                                                                      ELSE {})
                               \cup Of(x.done, m)
  BY <1>1, Shares
<1>4. Has(x, m)
  BY <1>2, <1>3 DEF Has
<1> QED BY <1>1, <1>2, <1>4 DEF Now

\* What is named now was named before, if the task is of the folder as it is.
LEMMA NamedBefore ==
  ASSUME GoodServer, GoodServer', Follows, NEW t \in Task, Sound(t), t.validity = uidValidity'[t.folder]
  PROVE  /\ t.validity = uidValidity[t.folder] /\ Names(t)
         /\ Named(t)' # {} => Named(t) # {}
<1>1. /\ t.folder \in Folder /\ t.uid \in Nat /\ t.validity \in Nat
      /\ uidValidity[t.folder] \in Nat /\ uidValidity'[t.folder] \in Nat
      /\ uidNext[t.folder] \in Nat
  BY TaskFields DEF GoodServer
<1>2. t.validity = uidValidity[t.folder] /\ Names(t)
  BY <1>1 DEF Sound, Follows
<1>3. ASSUME NEW d \in Named(t)' PROVE Named(t) # {}
  <2>1. d \in copies' /\ d.folder = t.folder /\ d.uid = t.uid
    BY DEF Named
  <2>2. d.uid < uidNext[t.folder] /\ ~(uidValidity'[t.folder] > uidValidity[t.folder])
    BY <1>1, <1>2, <2>1 DEF Names
  <2>3. PICK c \in copies : c.folder = t.folder /\ c.uid = d.uid
    BY <1>1, <2>1, <2>2 DEF Follows
  <2> QED BY <2>1, <2>3 DEF Named
<1> QED BY <1>2, <1>3

\* For one that stays where it is, but perhaps from the lock to the move.
LEMMA StillThere ==
  ASSUME MInv, GoodServer', Follows, Held, moot \subseteq moot', phantom \subseteq phantom',
         NEW b \in Action, There(b), actions[b].op # "undo",
         Now(b)' = Now(b), actions'[b].op = actions[b].op,
         \/ actions'[b].at = actions[b].at
         \/ actions[b].at = "lock" /\ actions'[b].at = "move",
         HasRow(b) /\ Vouched(Now(b).msg)' /\ ~Stale(b)'
           /\ (actions[b].at \in {"lock", "move"} => Named(Now(b))' # {}) => HasRow(b)'
  PROVE  There(b)'
<1>1. actions'[b].op # "undo" /\ (Stale(b)' <=> Now(b).validity # uidValidity'[Now(b).folder])
  BY DEF Stale
<1>2. Stale(b) <=> Now(b).validity # uidValidity[Now(b).folder]
  BY DEF Stale
<1>3. Vouched(Now(b).msg)' => Vouched(Now(b).msg)
  BY DEF Vouched
<1>4. ASSUME actions'[b].at \in {"lock", "move"}, Vouched(Now(b).msg)', ~Stale(b)', Named(Now(b))' # {}
      PROVE  HasRow(b)'
  <2>1. actions[b].at \in {"lock", "move"} /\ actions[b].at # "idle"
    BY <1>4
  <2>2. PICK t \in Task : t = Now(b) /\ Sound(t)
    BY <2>1, ActAt DEF MInv
  <2>3. Named(t)' = Named(Now(b))'
    BY <2>2 DEF Named
  <2>4. ~Stale(b) /\ Named(Now(b)) # {}
    BY <1>1, <1>2, <1>4, <2>2, <2>3, NamedBefore DEF MInv
  <2> QED BY <1>3, <1>4, <2>1, <2>4 DEF There
<1>5. ASSUME actions'[b].at \in {"remove", "drop"}, Vouched(Now(b).msg)'
      PROVE  ~Stale(b)' /\ HasRow(b)'
  <2>1. actions[b].at \in {"remove", "drop"}
    BY <1>5
  <2>2. ~Stale(b) /\ HasRow(b)
    BY <1>3, <1>5, <2>1 DEF There
  <2>3. syncMu = b /\ b # NoAction
    BY <2>1, MovesAssumption DEF MInv, GoodActions, Holding
  <2>4. ~Stale(b)'
    BY <1>1, <1>2, <2>2, <2>3 DEF Held
  <2> QED BY <1>5, <2>1, <2>2, <2>4
<1> QED BY <1>4, <1>5 DEF There

LEMMA AtRest ==
  ASSUME NEW b \in Action, actions'[b].at \notin {"lock", "move", "remove", "drop"}
  PROVE  There(b)'
BY DEF There

LEMMA FinishThere ==
  ASSUME GoodActions, NEW a \in Action, actions[a].at # "idle",
         NEW done \in Seq(Task), Finish(a, done), actions'[a].op # "undo"
  PROVE  There(a)'
<1>1. \/ actions'[a] = Idle
      \/ /\ actions'[a].op = actions[a].op
         /\ actions'[a].at = IF actions[a].op = "undo" THEN "lock" ELSE "read"
  BY FinishView
<1>2. actions'[a].at \notin {"lock", "move", "remove", "drop"}
  BY <1>1 DEF Idle
<1> QED BY <1>2, AtRest

\* The rows are the same: all others are as they were.
LEMMA OthersThere ==
  ASSUME MInv, GoodServer', Follows, Held, moot \subseteq moot', phantom \subseteq phantom',
         RowThere, rows \subseteq rows', NEW b \in Action, actions'[b] = actions[b],
         actions[b].op # "undo"
  PROVE  There(b)'
<1>1. Now(b)' = Now(b)
  BY DEF Now
<1>2. HasRow(b) => HasRow(b)'
  BY <1>1 DEF HasRow
<1> QED BY <1>1, <1>2, StillThere DEF RowThere

LEMMA OneThere ==
  ASSUME MInv, GoodServer', Follows, Held, moot \subseteq moot', phantom \subseteq phantom',
         RowThere, rows \subseteq rows', NEW a \in Action,
         \A b \in Action \ {a} : actions'[b] = actions[b], actions'[a].op # "undo" => There(a)'
  PROVE  RowThere'
<1>1. ASSUME NEW b \in Action, actions'[b].op # "undo" PROVE There(b)'
  <2>1. CASE b = a
    BY <1>1, <2>1
  <2>2. CASE b # a
    <3>1. actions'[b] = actions[b] /\ actions[b].op # "undo"
      BY <1>1, <2>2
    <3> QED BY <3>1, OthersThere
  <2> QED BY <2>1, <2>2
<1> QED BY <1>1 DEF RowThere

LEMMA StartThere ==
  ASSUME MInv, RowThere, moot \subseteq moot', phantom \subseteq phantom',
         NEW a \in Action, NEW op \in {"move", "spam", "notSpam", "undo"},
         NEW at \in {"read", "lock"}, NEW tasks \in Seq(Task), tasks # <<>>,
         Start(a, op, at, tasks), at = "read" <=> op # "undo"
  PROVE  RowThere'
<1>1. /\ UNCHANGED <<server, store>>
      /\ \A b \in Action \ {a} : actions'[b] = actions[b]
      /\ actions'[a] = [op |-> op, at |-> at, todo |-> tasks, done |-> <<>>]
  BY StartView DEF MInv
<1>2. GoodServer' /\ Follows /\ Held
  BY <1>1, Stays
<1>3. actions'[a].op # "undo" => There(a)'
  <2>1. actions'[a].op = op /\ actions'[a].at = at
    BY <1>1
  <2> QED BY <2>1, AtRest
<1> QED BY <1>1, <1>2, <1>3, OneThere DEF store

LEMMA UserThere ==
  ASSUME MInv, RowThere, moot \subseteq moot', phantom \subseteq phantom',
         NEW a \in Action, User(a)
  PROVE  RowThere'
<1>1. ASSUME NEW to \in Folder, MoveRows(a, to) PROVE RowThere'
  BY <1>1, MoveRowsStarts, StartThere
<1>2. CASE ToggleSpam(a)
  BY <1>2, ToggleSpamStarts, StartThere
<1>3. CASE UndoArchive(a)
  BY <1>3, UndoArchiveStarts, StartThere
<1> QED BY <1>1, <1>2, <1>3 DEF User

\* An action that has come to an end with what it had in hand, the server as it was.
LEMMA EndThere ==
  ASSUME MInv, RowThere, moot \subseteq moot', phantom \subseteq phantom',
         NEW a \in Action, actions[a].at # "idle", NEW done \in Seq(Task), Finish(a, done),
         UNCHANGED server, UNCHANGED rows
  PROVE  RowThere'
<1>1. GoodServer' /\ Follows
  BY ServerSame DEF MInv
<1>2. Held
  BY DEF Held, server
<1>3. \A b \in Action \ {a} : actions'[b] = actions[b]
  BY FinishView DEF MInv
<1>4. actions'[a].op # "undo" => There(a)'
  BY FinishThere DEF MInv
<1> QED BY <1>1, <1>2, <1>3, <1>4, OneThere

LEMMA CachedRow ==
  ASSUME NEW t \in Task, Cached(t), NEW to \in Folder
  PROVE  \E r \in rows : TaskFor(r, to) = [t EXCEPT !.to = to]
<1>1. PICK r \in rows : [t EXCEPT !.to = Junk] = TaskFor(r, Junk)
  BY DEF Cached
<1>2. t = [msg |-> t.msg, folder |-> t.folder, uid |-> t.uid, validity |-> t.validity, to |-> t.to]
  BY DEF Task
<1>3. r.msg = t.msg /\ r.folder = t.folder /\ r.uid = t.uid /\ r.validity = t.validity
  <2>1. PICK u : u = [t EXCEPT !.to = Junk]
    OBVIOUS
  <2>2. u.msg = t.msg /\ u.folder = t.folder /\ u.uid = t.uid /\ u.validity = t.validity
    BY <1>2, <2>1
  <2>3. u.msg = r.msg /\ u.folder = r.folder /\ u.uid = r.uid /\ u.validity = r.validity
    BY <1>1, <2>1 DEF TaskFor
  <2> QED BY <2>2, <2>3
<1>4. [t EXCEPT !.to = to] =
        [msg |-> t.msg, folder |-> t.folder, uid |-> t.uid, validity |-> t.validity, to |-> to]
  BY <1>2
<1> QED BY <1>3, <1>4 DEF TaskFor

LEMMA GetMessageThere ==
  ASSUME MInv, RowThere, moot \subseteq moot', phantom \subseteq phantom',
         NEW a \in Action, GetMessage(a)
  PROVE  RowThere'
<1>1. actions[a].at # "idle" /\ UNCHANGED <<server, store, syncMu>>
  BY DEF GetMessage, At
<1>2. GoodServer' /\ Follows /\ Held
  BY <1>1, Stays
<1>3. CASE Fails(a)
  BY <1>1, <1>3, DoneTasks, EndThere DEF Fails, store, MInv
<1>4. CASE /\ actions' = [actions EXCEPT ![a].at = "lock",
                            ![a].todo = <<[Now(a) EXCEPT !.to = Destination(a)]>> \o Tail(@)]
           /\ Cached(Now(a))
  <2> DEFINE to == Destination(a)
  <2>1. Now(a) \in Task
    BY <1>1, ActAt DEF MInv
  <2>2. to \in Folder
    <3>1. Now(a).to \in Folder /\ Inbox \in Folder /\ Junk \in Folder
      BY <2>1, TaskFields DEF Folder
    <3> QED BY <3>1 DEF Destination, NotSpamDestination
  <2> HIDE DEF to
  <2>3. PICK u \in Task : /\ u = [Now(a) EXCEPT !.to = to]
                          /\ u.folder = Now(a).folder /\ u.uid = Now(a).uid
                          /\ u.validity = Now(a).validity /\ u.msg = Now(a).msg
    BY <2>1, <2>2, Headed
  <2>4. actions' = [actions EXCEPT ![a].at = "lock", ![a].todo = <<u>> \o Tail(@)]
    BY <1>4, <2>3 DEF to
  <2>5. /\ \A b \in Action \ {a} : actions'[b] = actions[b]
        /\ actions'[a].at = "lock" /\ Head(actions'[a].todo) = u
    BY <1>1, <2>4, PutView DEF MInv
  <2>6. PICK r \in rows : TaskFor(r, to) = u
    BY <1>4, <2>1, <2>2, <2>3, CachedRow
  <2>7. u.to = to
    BY <2>6 DEF TaskFor
  <2>8. HasRow(a)'
    <3>1. Now(a)' = u /\ r \in rows'
      BY <1>1, <2>5, <2>6 DEF Now, store
    <3> QED BY <2>6, <2>7, <3>1 DEF HasRow, TaskFor
  <2>9. There(a)'
    BY <2>5, <2>8 DEF There
  <2>10. rows \subseteq rows' /\ \A b \in Action \ {a} : actions'[b] = actions[b]
    BY <1>1, <2>5 DEF store
  <2> QED BY <1>2, <2>9, <2>10, OneThere
<1> QED BY <1>3, <1>4 DEF GetMessage

LEMMA TagVerdictThere ==
  ASSUME MInv, GoodServer', RowThere, moot \subseteq moot', phantom \subseteq phantom',
         NEW a \in Action, TagVerdict(a)
  PROVE  RowThere'
<1>1. /\ actions[a].at = "lock" /\ actions[a].at # "idle" /\ syncMu = NoAction /\ Goes(a, "move")
      /\ actions[a].op # "undo"
      /\ UNCHANGED <<hasMove, uidValidity, uidNext, store>>
  BY DEF TagVerdict, Lock, At
<1>2. Follows /\ Held
  BY <1>1, TagVerdictTags DEF Held
<1>3. /\ \A b \in Action \ {a} : actions'[b] = actions[b]
      /\ actions'[a].at = "move" /\ actions'[a].op = actions[a].op
      /\ actions'[a].todo = actions[a].todo
  BY <1>1, GoesView DEF MInv
<1>4. There(a)'
  <2>1. Now(a)' = Now(a) /\ There(a)
    BY <1>1, <1>3 DEF Now, RowThere
  <2>2. HasRow(a) => HasRow(a)'
    BY <1>1, <2>1 DEF HasRow, store
  <2> QED BY <1>1, <1>2, <1>3, <2>1, <2>2, StillThere
<1>5. rows \subseteq rows'
  BY <1>1 DEF store
<1> QED BY <1>2, <1>3, <1>4, <1>5, OneThere

LEMMA SearchThere ==
  ASSUME MInv, GoodServer', RowThere, moot \subseteq moot', phantom \subseteq phantom',
         NEW a \in Action, Search(a)
  PROVE  RowThere'
<1> DEFINE c == Newest(SearchByMessageID(Now(a)))
<1>1. /\ actions[a].at = "lock" /\ actions[a].op = "undo" /\ syncMu = NoAction
      /\ UNCHANGED <<hasMove, uidValidity, uidNext, rows>>
  BY DEF Search, Lock, At
<1>2. Now(a) \in Task
  BY <1>1, ActAt DEF MInv
<1>3. c \in copies
  BY <1>2, SearchFinds DEF Search, MInv
<1> HIDE DEF c
<1>4. Follows
  BY SearchTags
<1>5. PICK u \in Task : u = [Now(a) EXCEPT !.uid = c.uid]
  <2>1. c.uid \in Nat
    BY <1>3, CopyFields DEF MInv
  <2> QED BY <1>2, <2>1, Found
<1>6. actions' = [actions EXCEPT ![a].at = "move", ![a].todo = <<u>> \o Tail(@)]
  BY <1>5 DEF Search, c
<1>7. /\ \A b \in Action \ {a} : actions'[b] = actions[b]
      /\ actions'[a].op = actions[a].op
  BY <1>1, <1>6, PutView DEF MInv
<1>8. Held /\ rows \subseteq rows' /\ (actions'[a].op # "undo" => There(a)')
  BY <1>1, <1>7 DEF Held
<1> QED BY <1>4, <1>7, <1>8, OneThere

LEMMA MoveMessageThere ==
  ASSUME MInv, RowThere, moot \subseteq moot', phantom \subseteq phantom',
         NEW a \in Action, MoveMessage(a)
  PROVE  RowThere'
<1>1. /\ actions[a].at \in {"lock", "move"} /\ actions[a].at # "idle"
      /\ UNCHANGED <<uidValidity, store>>
  BY MoveHeld DEF MoveMessage
<1>2. PICK t \in Task : t = Now(a)
  BY <1>1, ActAt DEF MInv
<1>3. GoodServer' /\ Follows
  BY <1>2, MoveLands
<1>4. Held /\ rows \subseteq rows'
  BY <1>1 DEF Held, store
<1>5. PICK at \in {"remove", "drop"} : Goes(a, at)
  BY DEF MoveMessage
<1>6. /\ \A b \in Action \ {a} : actions'[b] = actions[b]
      /\ actions'[a].at = at /\ actions'[a].op = actions[a].op
      /\ actions'[a].todo = actions[a].todo
  BY <1>1, <1>5, GoesView DEF MInv
<1>7. Now(a)' = t
  BY <1>2, <1>6 DEF Now
<1>8. ASSUME actions'[a].op # "undo", Vouched(t.msg)'
      PROVE  ~Stale(a)' /\ HasRow(a)'
  <2>1. /\ Stale(a) => t.msg \in moot'
        /\ Named(t) = {} => t.msg \in phantom'
    BY <1>2 DEF MoveMessage, Noted
  <2>2. Vouched(t.msg) /\ ~Stale(a) /\ Named(t) # {}
    BY <1>8, <2>1 DEF Vouched
  <2>3. HasRow(a)
    BY <1>1, <1>2, <1>6, <1>8, <2>2 DEF RowThere, There
  <2>4. HasRow(a)'
    BY <1>1, <1>2, <1>7, <2>3 DEF HasRow, store
  <2>5. ~Stale(a)'
    BY <1>1, <1>2, <1>6, <1>7, <2>2 DEF Stale
  <2> QED BY <2>4, <2>5
<1>9. actions'[a].op # "undo" => There(a)'
  BY <1>6, <1>7, <1>8 DEF There
<1> QED BY <1>3, <1>4, <1>6, <1>9, OneThere

LEMMA DeleteMessagesThere ==
  ASSUME MInv, RowThere, moot \subseteq moot', phantom \subseteq phantom',
         NEW a \in Action, DeleteMessages(a)
  PROVE  RowThere'
<1>1. /\ actions[a].at = "remove" /\ actions[a].at # "idle" /\ Goes(a, "drop")
      /\ copies' = copies \ Named(Now(a))
      /\ UNCHANGED <<hasMove, uidValidity, uidNext, store, moot, phantom>>
  BY DEF DeleteMessages, At
<1>2. GoodServer' /\ Follows /\ Held /\ rows \subseteq rows'
  <2>1. GoodServer' /\ Follows
    BY <1>1, Removed DEF MInv
  <2> QED BY <1>1, <2>1 DEF Held, store
<1>3. /\ \A b \in Action \ {a} : actions'[b] = actions[b]
      /\ actions'[a].at = "drop" /\ actions'[a].op = actions[a].op
      /\ actions'[a].todo = actions[a].todo
  BY <1>1, GoesView DEF MInv
<1>4. ASSUME actions'[a].op # "undo" PROVE There(a)'
  <2>1. PICK t : t = Now(a)
    OBVIOUS
  <2>2. Now(a)' = t /\ There(a)
    BY <1>3, <1>4, <2>1 DEF Now, RowThere
  <2>3. Vouched(t.msg) => ~Stale(a) /\ HasRow(a)
    BY <1>1, <2>1, <2>2 DEF There
  <2>4. (HasRow(a) => HasRow(a)') /\ (~Stale(a) => ~Stale(a)')
    BY <1>1, <1>3, <2>1, <2>2 DEF HasRow, Stale, store
  <2>5. Vouched(t.msg)' <=> Vouched(t.msg)
    BY <1>1 DEF Vouched
  <2> QED BY <1>3, <2>2, <2>3, <2>4, <2>5 DEF There
<1> QED BY <1>2, <1>3, <1>4, OneThere

\* Two actions do not have the same message in hand, so neither drops the other's row.
LEMMA DropRowThere ==
  ASSUME MInv, Track, RowThere, moot \subseteq moot', phantom \subseteq phantom',
         NEW a \in Action, DropRow(a)
  PROVE  RowThere'
<1>1. /\ actions[a].at = "drop" /\ actions[a].at # "idle"
      /\ rows' = rows \ {r \in rows : TaskFor(r, Now(a).to) = Now(a)}
      /\ UNCHANGED server
  BY DEF DropRow, At
<1>2. GoodServer' /\ Follows /\ Held
  <2>1. GoodServer' /\ Follows
    BY <1>1, ServerSame DEF MInv
  <2> QED BY <1>1, <2>1 DEF Held, server
<1>3. PICK done \in Seq(Task) : Goes(a, "note") \/ Finish(a, done)
  BY <1>1, DoneTasks DEF DropRow, Succeeds, Fails, MInv
<1>4. \A b \in Action \ {a} : actions'[b] = actions[b]
  BY <1>1, <1>3, GoesView, FinishView DEF MInv
<1>5. actions'[a].op # "undo" => There(a)'
  <2>1. CASE Goes(a, "note")
    <3>1. actions'[a].at = "note"
      BY <1>1, <2>1, GoesView DEF MInv
    <3> QED BY <3>1, AtRest
  <2>2. CASE Finish(a, done)
    BY <1>1, <2>2, FinishThere DEF MInv
  <2> QED BY <1>3, <2>1, <2>2
<1>6. ASSUME NEW b \in Action \ {a}, actions[b].op # "undo" PROVE There(b)'
  <2>1. CASE actions[b].at = "idle"
    BY <1>4, <2>1, AtRest
  <2>2. CASE actions[b].at # "idle"
    <3>1. Now(b)' = Now(b) /\ There(b) /\ actions'[b] = actions[b]
      BY <1>4, <1>6 DEF Now, RowThere
    <3>2. ASSUME HasRow(b), Vouched(Now(b).msg)' PROVE HasRow(b)'
      <4>1. PICK t : t = Now(b)
        OBVIOUS
      <4>2. PICK r \in rows : TaskFor(r, t.to) = t
        BY <3>2, <4>1 DEF HasRow
      <4>3. ASSUME TaskFor(r, Now(a).to) = Now(a) PROVE FALSE
        <5>1. PICK m : m = r.msg
          OBVIOUS
        <5>2. Now(a).msg = m /\ t.msg = m
          BY <4>2, <4>3, <5>1 DEF TaskFor
        <5>3. Has(actions[a], m) /\ Has(actions[b], m)
          BY <1>1, <2>2, <4>1, <5>2, NowHas DEF MInv
        <5>4. m \in Msg /\ Vouched(m)
          <6>1. r \in Row
            BY DEF MInv, GoodStore
          <6>2. m \in Msg
            BY <5>1, <6>1, RowFields
          <6> QED BY <3>1, <3>2, <4>1, <5>2, <6>2 DEF Vouched
        <5> QED BY <5>3, <5>4 DEF Track, Hands, OneHand
      <4>4. r \in rows' /\ Now(b)' = t
        BY <1>1, <3>1, <4>1, <4>3
      <4> QED BY <4>2, <4>4 DEF HasRow, TaskFor
    <3> QED BY <1>2, <1>6, <3>1, <3>2, StillThere
  <2> QED BY <2>1, <2>2
<1>7. ASSUME NEW b \in Action, actions'[b].op # "undo" PROVE There(b)'
  <2>1. CASE b # a
    <3>1. actions[b].op # "undo"
      BY <1>4, <1>7, <2>1
    <3> QED BY <1>6, <2>1, <3>1
  <2> QED BY <1>5, <1>7, <2>1
<1> QED BY <1>7 DEF RowThere

\* A sync brings the row of every copy that is there.
LEMMA SyncThere ==
  ASSUME MInv, RowThere, moot \subseteq moot', phantom \subseteq phantom',
         NEW f \in Folder, Sync(f)
  PROVE  RowThere'
<1>1. /\ syncMu = NoAction /\ rows' = {r \in rows : r.folder # f} \cup RowsIn(f)
      /\ UNCHANGED <<server, actions>>
  BY DEF Sync
<1>2. GoodServer' /\ Follows /\ Held
  <2>1. GoodServer' /\ Follows
    BY <1>1, ServerSame DEF MInv
  <2> QED BY <1>1, <2>1 DEF Held
<1>3. ASSUME NEW b \in Action, actions[b].op # "undo" PROVE There(b)'
  <2>1. Now(b)' = Now(b) /\ There(b) /\ actions'[b] = actions[b]
    BY <1>1, <1>3 DEF Now, RowThere
  <2>2. CASE actions[b].at \in {"lock", "move"}
    <3>1. ASSUME HasRow(b), ~Stale(b)', Named(Now(b))' # {} PROVE HasRow(b)'
      <4>1. PICK t \in Task : t = Now(b) /\ Sound(t)
        BY <2>2, ActAt DEF MInv
      <4>2. PICK r \in rows : TaskFor(r, t.to) = t
        BY <3>1, <4>1 DEF HasRow
      <4>3. CASE t.folder # f
        <5>1. r \in rows'
          BY <1>1, <4>2, <4>3 DEF TaskFor
        <5> QED BY <2>1, <4>1, <4>2, <5>1 DEF HasRow, TaskFor
      <4>4. CASE t.folder = f
        <5>1. Named(Now(b))' = Named(t)
          BY <1>1, <2>1, <4>1 DEF Named, server
        <5>2. PICK c \in copies : c.folder = f /\ c.uid = t.uid /\ c \in Named(t)
          BY <3>1, <4>4, <5>1 DEF Named
        <5>3. t.validity = uidValidity[f]
          BY <1>1, <1>3, <2>1, <3>1, <4>1, <4>4 DEF Stale, server
        <5>4. c.msg = t.msg
          BY <4>1, <4>4, <5>2, <5>3 DEF Sound, Names
        <5>5. PICK s : s = RowOf(c)
          OBVIOUS
        <5>6. s \in rows'
          BY <1>1, <5>2, <5>5 DEF RowsIn
        <5>7. s.msg = t.msg /\ s.folder = t.folder /\ s.uid = t.uid /\ s.validity = t.validity
          BY <4>4, <5>2, <5>3, <5>4, <5>5 DEF RowOf
        <5>8. TaskFor(s, t.to) = t
          BY <5>7 DEF TaskFor, Task
        <5> QED BY <2>1, <4>1, <5>6, <5>8 DEF HasRow, TaskFor
      <4> QED BY <4>3, <4>4
    <3> QED BY <1>2, <1>3, <2>1, <2>2, <3>1, StillThere
  <2>3. CASE actions[b].at \in {"remove", "drop"}
    <3>1. syncMu = b /\ b # NoAction
      BY <2>3, MovesAssumption DEF MInv, GoodActions, Holding
    <3> QED BY <1>1, <3>1
  <2>4. CASE actions[b].at \notin {"lock", "move", "remove", "drop"}
    BY <2>1, <2>4, AtRest
  <2> QED BY <2>2, <2>3, <2>4
<1> QED BY <1>1, <1>3 DEF RowThere

LEMMA WorkThere ==
  ASSUME MInv, GoodServer', Track, RowThere, moot \subseteq moot', phantom \subseteq phantom',
         NEW a \in Action, Work(a) \/ Break(a)
  PROVE  RowThere'
<1>1. CASE NotFound(a)
  <2>1. /\ actions[a].at # "idle" /\ Finish(a, actions[a].done) /\ UNCHANGED <<server, rows>>
    BY <1>1 DEF NotFound, At, Fails, store
  <2> QED BY <2>1, DoneTasks, EndThere DEF MInv
<1>2. CASE NoteOrigin(a)
  <2>1. /\ actions[a].at # "idle" /\ Finish(a, Append(actions[a].done, Now(a)))
        /\ UNCHANGED <<server, rows>>
    BY <1>2 DEF NoteOrigin, At, Succeeds
  <2> QED BY <2>1, DoneTasks, EndThere DEF MInv
<1>3. CASE Break(a)
  <2>1. /\ actions[a].at # "idle" /\ Finish(a, actions[a].done) /\ UNCHANGED <<server, rows>>
    BY <1>3 DEF Break, Fails, store
  <2> QED BY <2>1, DoneTasks, EndThere DEF MInv
<1> QED BY <1>1, <1>2, <1>3, GetMessageThere, TagVerdictThere, SearchThere, MoveMessageThere,
           DeleteMessagesThere, DropRowThere DEF Work

LEMMA RowThereKept ==
  ASSUME MInv, MInv', Track, RowThere, moot \subseteq moot', phantom \subseteq phantom',
         [Next]_vars
  PROVE  RowThere'
<1>1. ASSUME NEW a \in Action, User(a) \/ Work(a) \/ Break(a) PROVE RowThere'
  BY <1>1, UserThere, WorkThere DEF MInv
<1>2. ASSUME NEW f \in Folder, Sync(f) PROVE RowThere'
  BY <1>2, SyncThere
<1>3. ASSUME NEW f \in Folder, Renumber(f) PROVE RowThere'
  <2>1. UNCHANGED <<actions, rows>>
    BY <1>3 DEF Renumber, store
  <2>2. GoodServer' /\ Follows /\ Held
    <3>1. GoodServer' /\ Follows /\ uidValidity' = [uidValidity EXCEPT ![f] = @ + 1]
      BY <1>3, Renumbered DEF MInv
    <3>2. syncMu # NoAction => Now(syncMu).folder # f
      BY <1>3 DEF Renumber
    <3>3. uidValidity \in [Folder -> Nat \ {0}]
      BY DEF MInv, GoodServer
    <3> QED BY <3>1, <3>2, <3>3 DEF Held
  <2> QED BY <2>1, <2>2, OthersThere DEF RowThere
<1>4. ASSUME NEW c \in copies, NEW to \in Folder, MoveElsewhere(c, to) PROVE RowThere'
  <2>1. UNCHANGED <<actions, rows>>
    BY <1>4 DEF MoveElsewhere, store
  <2>2. GoodServer' /\ Follows /\ uidValidity' = uidValidity
    BY <1>4, Elsewhere DEF MInv
  <2>3. Held
    BY <2>2 DEF Held
  <2> QED BY <2>1, <2>2, <2>3, OthersThere DEF RowThere
<1>5. CASE Quit
  <2>1. \A b \in Action : actions'[b].at = "idle"
    BY <1>5 DEF Quit, Idle
  <2> QED BY <2>1, AtRest DEF RowThere
<1>6. CASE UNCHANGED vars
  <2>1. UNCHANGED <<server, actions, rows>>
    BY <1>6 DEF vars, store
  <2>2. GoodServer' /\ Follows
    BY <2>1, ServerSame DEF MInv
  <2>3. Held
    BY <2>1 DEF Held, server
  <2> QED BY <2>1, <2>2, <2>3, OthersThere DEF RowThere
<1> QED BY <1>1, <1>2, <1>3, <1>4, <1>5, <1>6 DEF Next

-----------------------------------------------------------------------------
(* Where each message is on its way *)

LEMMA WorkTrack ==
  ASSUME MInv, LInv, torn \subseteq moot, Aims, RowThere, Track, NEW a \in Action, Work(a),
         NEW m \in Msg, Vouched(m), Vouched(m)', Hands(m), Way(m)
  PROVE  Hands(m)' /\ Way(m)'
<1>1. CASE MoveMessage(a)
  BY <1>1, MoveMessageTrack
<1>2. CASE GetMessage(a)
  BY <1>2, GetMessageTrack
<1>3. CASE TagVerdict(a)
  BY <1>3, TagVerdictTrack
<1>4. CASE Search(a)
  BY <1>4, SearchTrack
<1>5. CASE NotFound(a)
  BY <1>5, NotFoundTrack
<1>6. CASE DeleteMessages(a)
  BY <1>6, DeleteMessagesTrack
<1>7. CASE DropRow(a)
  BY <1>7, DropRowTrack
<1>8. CASE NoteOrigin(a)
  BY <1>8, NoteOriginTrack
<1> QED BY <1>1, <1>2, <1>3, <1>4, <1>5, <1>6, <1>7, <1>8 DEF Work

LEMMA TrackKept ==
  ASSUME MInv, MInv', LInv, torn \subseteq moot, Aims, RowThere, Track, [Next]_vars
  PROVE  Track'
<1> SUFFICES ASSUME NEW m \in Msg, Vouched(m)'
             PROVE  Hands(m)' /\ Way(m)'
  BY DEF Track
<1>1. Vouched(m) /\ Hands(m) /\ Way(m) /\ m \notin moot'
  <2>1. Vouched(m)
    BY Grows DEF Vouched
  <2> QED BY <2>1 DEF Track, Vouched
<1>2. ASSUME NEW a \in Action, User(a) PROVE Hands(m)' /\ Way(m)'
  BY <1>1, <1>2, MoveRowsTrack, ToggleSpamTrack, UndoArchiveTrack DEF User
<1>3. ASSUME NEW a \in Action, Work(a) PROVE Hands(m)' /\ Way(m)'
  BY <1>1, <1>3, WorkTrack
<1>4. ASSUME NEW a \in Action, Break(a) PROVE Hands(m)' /\ Way(m)'
  BY <1>1, <1>4, BreakTrack
<1>5. ASSUME NEW f \in Folder, Sync(f) \/ Renumber(f) PROVE Hands(m)' /\ Way(m)'
  BY <1>1, <1>5, SyncTrack, RenumberTrack
<1>6. ASSUME NEW c \in copies, NEW to \in Folder, MoveElsewhere(c, to) PROVE Hands(m)' /\ Way(m)'
  BY <1>1, <1>6, MoveElsewhereTrack
<1>7. CASE Quit
  BY <1>1, <1>7 DEF Quit
<1>8. CASE UNCHANGED vars
  <2>1. UNCHANGED <<server, home, archived, actions, copies>>
    BY <1>8 DEF vars, server, history
  <2>2. GoodServer' /\ Follows
    BY <2>1, ServerSame DEF MInv
  <2>3. LeftKept(m)
    BY <2>1, <2>2, LeftFate DEF At
  <2> QED BY <1>1, <2>1, <2>2, <2>3, SameTrack
<1> QED BY <1>2, <1>3, <1>4, <1>5, <1>6, <1>7, <1>8 DEF Next

LEMMA NobodyHas ==
  ASSUME NEW m, actions = [a \in Action |-> Idle]
  PROVE  /\ \A a \in Action : ~Has(actions[a], m) /\ Of(Behind(actions[a]), m) = {}
         /\ \A f, g : ~Loose(m, f, g)
<1>1. Idle.todo = <<>> /\ Idle.done = <<>> /\ Idle.at \notin Moved /\ Idle.op # "undo"
  BY DEF Idle, Moved
<1>2. Ahead(Idle) = <<>> /\ Behind(Idle) = <<>>
  BY <1>1 DEF Ahead, Behind
<1>3. Of(<<>>, m) = {}
  BY DEF Of
<1>4. ~Has(Idle, m) /\ \A f, g : ~LooseIn(Idle, m, f, g)
  BY <1>1, <1>2, <1>3 DEF Has, LooseIn
<1>5. \A a \in Action : actions[a] = Idle
  OBVIOUS
<1> QED BY <1>2, <1>3, <1>4, <1>5 DEF Loose

LEMMA InitTracked == Init => RInv
<1> SUFFICES ASSUME Init PROVE RInv
  OBVIOUS
<1>1. /\ actions = [a \in Action |-> Idle] /\ archived = <<>> /\ torn = {}
      /\ \A c \in copies : c.msg \in Msg /\ c.folder = home[c.msg].folder
  <2>1. actions = [a \in Action |-> Idle] /\ archived = <<>> /\ torn = {}
    BY DEF Init
  <2> DEFINE uid == CHOOSE h \in [Msg -> 1..Cardinality(Msg)] : IsInjective(h)
  <2>2. copies = {[msg |-> m, folder |-> home[m].folder, uid |-> uid[m],
                   keywords |-> home[m].keywords] : m \in Msg}
    BY DEF Init
  <2> HIDE DEF uid
  <2>3. ASSUME NEW c \in copies PROVE c.msg \in Msg /\ c.folder = home[c.msg].folder
    <3>1. PICK m \in Msg : c = [msg |-> m, folder |-> home[m].folder, uid |-> uid[m],
                                keywords |-> home[m].keywords]
      BY <2>2
    <3> QED BY <3>1
  <2> QED BY <2>1, <2>3
<1>2. \A a \in Action : actions[a] = Idle
  BY <1>1
<1>3. Aims
  BY <1>2, IdleAimed DEF Aims
<1>4. RowThere
  <2>1. \A a \in Action : actions[a].at = "idle"
    BY <1>2 DEF Idle
  <2> QED BY <2>1 DEF RowThere, There
<1>5. ASSUME NEW m \in Msg PROVE Hands(m) /\ Way(m)
  <2>1. /\ \A a \in Action : ~Has(actions[a], m) /\ Of(Behind(actions[a]), m) = {}
        /\ \A f, g : ~Loose(m, f, g)
    BY <1>1, NobodyHas
  <2>2. OneHand(m)
    BY <2>1 DEF OneHand
  <2>3. Once(m)
    <3> SUFFICES ASSUME NEW a \in Action PROVE OnceIn(actions[a], m)
      BY DEF Once
    <3>1. /\ actions[a].op # "undo" /\ Behind(actions[a]) = <<>>
          /\ Of(Behind(actions[a]), m) = {}
      BY <1>2, <2>1 DEF Idle, Behind, Moved
    <3>2. One(<<>>, m)
      BY DEF One
    <3> QED BY <3>1, <3>2 DEF OnceIn
  <2>4. Len(archived) = 0 /\ 1..0 = {}
    BY <1>1
  <2>5. Chain(m)
    BY <2>4 DEF Chain
  <2>6. Leaves(m)
    BY <2>1 DEF Leaves
  <2>7. Located(m)
    <3> SUFFICES ASSUME NEW c \in Left(m) PROVE OnRoute(m, c.folder)
      BY DEF Located
    <3>1. c.folder = home[m].folder
      BY <1>1 DEF Left
    <3> QED BY <2>1, <2>4, <3>1 DEF OnRoute, After
  <2> QED BY <2>2, <2>3, <2>5, <2>6, <2>7 DEF Hands, Way
<1> QED BY <1>1, <1>3, <1>4, <1>5 DEF RInv, Track

LEMMA StepTracked ==
  ASSUME MInv, LInv, MInv', RInv, [Next]_vars
  PROVE  RInv'
<1>1. moot \subseteq moot' /\ phantom \subseteq phantom' /\ torn' \subseteq moot'
  BY Grows DEF RInv
<1>2. Aims' /\ Track'
  BY AimsKept, TrackKept DEF RInv
<1>3. RowThere'
  BY <1>1, RowThereKept DEF RInv
<1> QED BY <1>1, <1>2, <1>3 DEF RInv

\* Where each message is is known throughout.
LEMMA Tracked == Spec => []RInv
<1>1. Init => RInv
  BY InitTracked
<1>2. (MInv /\ LInv) /\ (MInv /\ LInv)' /\ RInv /\ [Next]_vars => RInv'
  BY StepTracked
<1> QED BY <1>1, <1>2, Invariant, PTL DEF Spec

-----------------------------------------------------------------------------
LEMMA DropsRightly ==
  ASSUME MInv, RInv, [Next]_vars, NEW a \in Action, At(a, "drop"), NEW r \in rows \ rows',
         r.validity = uidValidity[r.folder], r.msg \notin moot \cup phantom,
         NEW c \in CopiesOf(r.msg)
  PROVE  c.folder # r.folder
<1>1. syncMu = a /\ a # NoAction /\ actions[a].at = "drop" /\ actions[a].at # "idle"
  <2>1. actions[a].at = "drop" /\ actions[a].at \in Holding
    BY DEF At, Holding
  <2> QED BY <2>1, MovesAssumption DEF MInv, GoodActions
<1>2. DropRow(a)
  <2>1. ASSUME NEW b \in Action, NEW op, NEW at, NEW tasks, Start(b, op, at, tasks)
        PROVE  UNCHANGED rows
    BY <2>1 DEF Start, store
  <2>2. ASSUME NEW b \in Action, User(b) PROVE UNCHANGED rows
    BY <2>1, <2>2 DEF User, MoveRows, ToggleSpam, UndoArchive
  <2>3. ASSUME NEW b \in Action, Work(b) \/ Break(b), ~DropRow(b) PROVE UNCHANGED rows
    BY <2>3 DEF Work, Break, GetMessage, TagVerdict, Search, NotFound, MoveMessage,
                DeleteMessages, NoteOrigin, store
  <2>4. ASSUME NEW b \in Action, DropRow(b) PROVE b = a
    <3>1. actions[b].at \in Holding
      BY <2>4 DEF DropRow, At, Holding
    <3> QED BY <1>1, <3>1 DEF MInv, GoodActions
  <2>5. ASSUME NEW f \in Folder, Sync(f) PROVE FALSE
    BY <1>1, <2>5 DEF Sync
  <2>6. ASSUME NEW f \in Folder, Renumber(f) PROVE UNCHANGED rows
    BY <2>6 DEF Renumber, store
  <2>7. ASSUME NEW d \in copies, NEW to \in Folder, MoveElsewhere(d, to) PROVE UNCHANGED rows
    BY <2>7 DEF MoveElsewhere, store
  <2>8. Quit \/ UNCHANGED vars => UNCHANGED rows
    BY DEF Quit, vars, store
  <2> QED BY <2>2, <2>3, <2>4, <2>5, <2>6, <2>7, <2>8 DEF Next
<1>3. PICK t \in Task : t = Now(a) /\ t = Head(actions[a].todo)
  BY <1>1, ActAt DEF MInv, Now
<1>4. /\ TaskFor(r, t.to) = t
      /\ r.msg = t.msg /\ r.folder = t.folder /\ r.validity = t.validity
  <2>1. TaskFor(r, t.to) = t
    BY <1>2, <1>3 DEF DropRow
  <2> QED BY <2>1 DEF TaskFor
<1>5. actions[a].op # "undo" /\ t.to # t.folder
  <2>1. PICK x \in GoodAct : x = actions[a] /\ Aimed(x)
    BY DEF MInv, GoodActions, RInv, Aims
  <2>2. t \in Tasks(x.todo)
    <3>1. x.todo \in Seq(Task) /\ x.todo # <<>>
      BY <1>1, <2>1, ActAt DEF MInv
    <3> QED BY <1>3, <2>1, <3>1, TasksOf
  <2>3. r.folder \in Folder /\ uidValidity[r.folder] \in Nat \ {0}
    <3>1. r \in Row
      BY DEF MInv, GoodStore
    <3>2. r.folder \in Folder
      BY <3>1, RowFields
    <3> QED BY <3>2 DEF MInv, GoodServer
  <2>4. t.validity # 0
    BY <1>4, <2>3
  <2> QED BY <1>1, <1>3, <2>1, <2>2, <2>4 DEF Aimed
<1>6. PICK m : m = t.msg
  OBVIOUS
<1>7. c \in Left(m)
  <2>1. \A b \in Action : ~At(b, "remove")
    BY <1>1, RemoverHolds DEF At, MInv
  <2> QED BY <1>4, <1>6, <2>1 DEF Left, CopiesOf
<1>8. m \in Msg /\ Hands(m) /\ Way(m)
  <2>1. m \in Msg
    BY <1>6, TaskFields
  <2> QED BY <1>4, <1>6, <2>1 DEF RInv, Track, Vouched
<1>9. c.folder = t.to
  <2>1. actions[a].at \in Moved
    BY <1>1 DEF Moved
  <2>2. PICK f, g : f = Now(a).folder /\ g = Now(a).to
    OBVIOUS
  <2>3. Now(a).msg = m
    BY <1>3, <1>6
  <2>4. c.folder = g
    BY <1>1, <1>5, <1>7, <1>8, <2>1, <2>2, <2>3, WhereLoose
  <2> QED BY <1>3, <2>2, <2>4
<1> QED BY <1>4, <1>5, <1>9

(* A row is dropped only when its message is no longer in its folder,       *)
(* however the moves, the undos, the syncs, the other clients and the       *)
(* breaks fall: moveMessageTo forgets a row for no move that did not        *)
(* happen, but by a row whose copy had gone before.                         *)
THEOREM RowsGoRightly == Spec => DroppedOnlyWhenMoved
<1>1. ASSUME MInv, RInv, [Next]_vars
      PROVE  \A a \in Action : At(a, "drop") =>
               \A r \in rows \ rows' :
                 r.validity = uidValidity[r.folder] /\ r.msg \notin moot \cup phantom =>
                   \A c \in CopiesOf(r.msg) : c.folder # r.folder
  BY <1>1, DropsRightly
<1> QED BY <1>1, Invariant, Tracked, PTL DEF Spec, DroppedOnlyWhenMoved

-----------------------------------------------------------------------------
(* The keywords of a verdict *)

\* The tasks of an undo whose keywords are still to be taken back; a step of m from
\* f to g whose keywords were not taken back.
Due(x) == IF x.at \in Moved \cup {"move"} THEN Tail(x.todo) ELSE x.todo

OwedIn(x, m, f, g) ==
  IF x.op = "undo" THEN \E t \in Of(Due(x), m) : t.to = f /\ t.folder = g
                   ELSE \E t \in Of(Behind(x), m) : t.folder = f /\ t.to = g

OnStack(m, f, g) ==
  \E i \in 1..Len(archived) : \E t \in Of(archived[i], m) : t.folder = f /\ t.to = g

Owed(m, f, g) == OnStack(m, f, g) \/ \E a \in Action : OwedIn(actions[a], m, f, g)

Tagging(m, op) == \E a \in Action : actions[a].op = op /\ At(a, "move") /\ Now(a).msg = m

\* A keyword that was not there at first is of a verdict that stands, or is one that an
\* undo could not take off.
AsJunk(m)    == Tagging(m, "spam") \/ \E f \in Folder : Owed(m, f, Junk)
AsNotJunk(m) == Tagging(m, "notSpam") \/ \E g \in Folder \ {Junk} : Owed(m, Junk, g)

Worded(m) ==
  \A c \in Left(m) :
    /\ "$Junk" \in c.keywords \ (home[m].keywords \cup stuck[m]) => AsJunk(m)
    /\ "$NotJunk" \in c.keywords \ (home[m].keywords \cup stuck[m]) => AsNotJunk(m)

Words == \A m \in Msg : Vouched(m) => Worded(m)

-----------------------------------------------------------------------------
(* The origins of what was marked *)

\* What the last mark of a message was.
Marked(a) ==
  actions[a].at \in Moved /\ Vouched(Now(a).msg) =>
    markedIn[Now(a).msg] = IF actions[a].op = "spam" THEN Now(a).folder ELSE NoFolder

Marks == \A a \in Action : Marked(a)

\* Who is about to set the origin of a message right.
Rewrites(x) == (x.op = "spam" /\ x.at \in Moved) \/ (x.op = "undo" /\ x.at = "move")
Marking(m)  == \E a \in Action : Now(a).msg = m /\ Rewrites(actions[a])

Origin(m) ==
  markedIn[m] # NoFolder =>
    /\ markedIn[m] # Junk
    /\ m \in unrecorded \/ spamOrigins[m] = markedIn[m] \/ Marking(m)

Origins == \A m \in Msg : Vouched(m) => Origin(m)

-----------------------------------------------------------------------------
(* What is owed *)

LEMMA StillWorded ==
  ASSUME UNCHANGED <<home, stuck>>, NEW m, Worded(m),
         \A c \in Left(m)' : \E d \in Left(m) : c.keywords \subseteq d.keywords,
         \A f, g : Owed(m, f, g) => Owed(m, f, g)',
         \A op \in {"spam", "notSpam"} : Tagging(m, op) => Tagging(m, op)'
  PROVE  Worded(m)'
<1>1. AsJunk(m) => AsJunk(m)'
  BY DEF AsJunk
<1>2. AsNotJunk(m) => AsNotJunk(m)'
  BY DEF AsNotJunk
<1>3. ASSUME NEW c \in Left(m)'
      PROVE  /\ "$Junk" \in c.keywords \ (home[m].keywords \cup stuck[m]) => AsJunk(m)'
             /\ "$NotJunk" \in c.keywords \ (home[m].keywords \cup stuck[m]) => AsNotJunk(m)'
  <2>1. PICK d \in Left(m) : c.keywords \subseteq d.keywords
    BY <1>3
  <2>2. /\ "$Junk" \in d.keywords \ (home[m].keywords \cup stuck[m]) => AsJunk(m)
        /\ "$NotJunk" \in d.keywords \ (home[m].keywords \cup stuck[m]) => AsNotJunk(m)
    BY DEF Worded
  <2> QED BY <1>1, <1>2, <2>1, <2>2
<1> QED BY <1>3 DEF Worded

LEMMA LeftFewer ==
  ASSUME UNCHANGED copies, NEW m,
         \A b \in Action : At(b, "remove") =>
           m \notin Copied(b) \/ (At(b, "remove")' /\ actions'[b] = actions[b])
  PROVE  /\ Left(m)' \subseteq Left(m)
         /\ \A c \in Left(m)' : \E d \in Left(m) : c.keywords \subseteq d.keywords
<1>1. ASSUME NEW c \in Left(m)' PROVE c \in Left(m)
  <2>1. c \in copies /\ c.msg = m
    BY DEF Left
  <2>2. ASSUME NEW b \in Action, At(b, "remove"), c \in Named(Now(b)) PROVE FALSE
    <3>1. m \in Copied(b)
      BY <2>1, <2>2 DEF Copied
    <3>2. At(b, "remove")' /\ Now(b)' = Now(b)
      BY <2>2, <3>1 DEF Now
    <3>3. c \in Named(Now(b))'
      BY <2>1, <2>2, <3>2 DEF Named
    <3> QED BY <3>2, <3>3 DEF Left
  <2> QED BY <2>1, <2>2 DEF Left
<1> QED BY <1>1

\* The others' tasks are as they were, and so is the stack.
LEMMA OwedKept ==
  ASSUME UNCHANGED archived, NEW a \in Action, \A b \in Action \ {a} : actions'[b] = actions[b],
         NEW m, \A f, g : OwedIn(actions[a], m, f, g) => OwedIn(actions'[a], m, f, g)
  PROVE  \A f, g : Owed(m, f, g) => Owed(m, f, g)'
<1> SUFFICES ASSUME NEW f, NEW g, Owed(m, f, g) PROVE Owed(m, f, g)'
  OBVIOUS
<1>1. CASE OnStack(m, f, g)
  <2>1. OnStack(m, f, g)'
    BY <1>1 DEF OnStack
  <2> QED BY <2>1 DEF Owed
<1>2. ASSUME NEW b \in Action, OwedIn(actions[b], m, f, g) PROVE Owed(m, f, g)'
  <2>1. OwedIn(actions'[b], m, f, g)
    BY <1>2
  <2> QED BY <2>1 DEF Owed
<1> QED BY <1>1, <1>2 DEF Owed

LEMMA TaggingKept ==
  ASSUME NEW a \in Action, \A b \in Action \ {a} : actions'[b] = actions[b],
         NEW m, actions[a].at # "move" \/ Now(a).msg # m \/ actions[a].op \notin {"spam", "notSpam"}
  PROVE  \A op \in {"spam", "notSpam"} : Tagging(m, op) => Tagging(m, op)'
<1> SUFFICES ASSUME NEW op \in {"spam", "notSpam"}, Tagging(m, op) PROVE Tagging(m, op)'
  OBVIOUS
<1>1. PICK b \in Action : actions[b].op = op /\ At(b, "move") /\ Now(b).msg = m
  BY DEF Tagging
<1>2. b # a
  BY <1>1 DEF At
<1>3. actions'[b].op = op /\ At(b, "move")' /\ Now(b)' = Now(b)
  BY <1>1, <1>2 DEF At, Now
<1> QED BY <1>1, <1>3 DEF Tagging

\* What an action finishes with is on the stack, or still with it.
LEMMA OwedFinish ==
  ASSUME GoodActions, NEW a \in Action, actions[a].at # "idle",
         NEW done \in Done(a), Finish(a, done), NEW m,
         \/ Now(a).msg # m
         \/ actions[a].op = "undo" /\ actions[a].at \in Moved \cup {"move"}
         \/ actions[a].op # "undo" /\ (actions[a].at \notin Moved \/ done # actions[a].done)
  PROVE  \A f, g : Owed(m, f, g) => Owed(m, f, g)'
<1> SUFFICES ASSUME NEW f, NEW g, Owed(m, f, g) PROVE Owed(m, f, g)'
  OBVIOUS
<1>1. PICK x \in GoodAct : x = actions[a]
  BY DEF GoodActions
<1>2. /\ x.todo \in Seq(Task) /\ x.todo # <<>> /\ Now(a) = Head(x.todo) /\ Now(a) \in Task
      /\ x.done \in Seq(Task) /\ Append(x.done, Now(a)) \in Seq(Task)
  BY <1>1, ActAt, DoneTasks DEF Now
<1>3. done \in Seq(Task)
  BY <1>1, <1>2 DEF Done
<1>4. /\ \A b \in Action \ {a} : actions'[b] = actions[b]
      /\ \/ /\ actions'[a] = Idle /\ Tail(x.todo) = <<>>
            /\ archived' = IF x.op = "undo" \/ done = <<>> THEN archived ELSE Append(archived, done)
         \/ /\ Behind(actions'[a]) = done /\ actions'[a].op = x.op
            /\ actions'[a].at = IF x.op = "undo" THEN "lock" ELSE "read"
            /\ actions'[a].todo = Tail(x.todo) /\ archived' = archived
  BY <1>1, <1>3, FinishView
<1>5. /\ Len(archived) \in Nat /\ archived \in Seq(Seq(Task) \ {<<>>})
      /\ archived' = archived \/
           /\ archived' = Append(archived, done) /\ Len(archived') = Len(archived) + 1
           /\ archived'[Len(archived) + 1] = done
           /\ \A i \in 1..Len(archived) : archived'[i] = archived[i]
  <2>1. archived \in Seq(Seq(Task) \ {<<>>})
    BY DEF GoodActions
  <2>2. CASE archived' = Append(archived, done) /\ done # <<>>
    BY <1>3, <2>1, <2>2, AppendProperties, LenProperties
  <2> QED BY <1>4, <2>1, <2>2, LenProperties
<1>6. CASE OnStack(m, f, g)
  <2>1. PICK i \in 1..Len(archived) : \E t \in Of(archived[i], m) : t.folder = f /\ t.to = g
    BY <1>6 DEF OnStack
  <2>2. i \in 1..Len(archived') /\ archived'[i] = archived[i]
    BY <1>5, <2>1
  <2>3. OnStack(m, f, g)'
    BY <2>1, <2>2 DEF OnStack
  <2> QED BY <2>3 DEF Owed
<1>7. ASSUME NEW b \in Action \ {a}, OwedIn(actions[b], m, f, g) PROVE Owed(m, f, g)'
  <2>1. OwedIn(actions'[b], m, f, g)
    BY <1>4, <1>7
  <2> QED BY <2>1 DEF Owed
<1>8. CASE OwedIn(x, m, f, g) /\ x.op = "undo"
  <2>1. PICK t \in Of(Due(x), m) : t.to = f /\ t.folder = g
    BY <1>8 DEF OwedIn
  <2>2. Of(x.todo, m) = (IF Head(x.todo).msg = m THEN {Head(x.todo)} ELSE {}) \cup Of(Tail(x.todo), m)
    BY <1>2, OfTail
  <2>3. t \in Of(Tail(x.todo), m)
    BY <1>1, <1>2, <1>8, <2>1, <2>2 DEF Due
  <2>4. Of(<<>>, m) = {}
    BY DEF Of
  <2>5. /\ actions'[a].op = "undo" /\ actions'[a].at = "lock" /\ actions'[a].todo = Tail(x.todo)
    BY <1>4, <1>8, <2>3, <2>4
  <2>6. Due(actions'[a]) = Tail(x.todo)
    BY <2>5 DEF Due, Moved
  <2>7. OwedIn(actions'[a], m, f, g)
    BY <2>1, <2>3, <2>5, <2>6 DEF OwedIn
  <2> QED BY <2>7 DEF Owed
<1>9. CASE OwedIn(x, m, f, g) /\ x.op # "undo"
  <2>1. PICK t \in Of(Behind(x), m) : t.folder = f /\ t.to = g
    BY <1>9 DEF OwedIn
  <2>2. Of(Append(x.done, Now(a)), m) = Of(x.done, m) \cup (IF Now(a).msg = m THEN {Now(a)} ELSE {})
    BY <1>2, OfAppend
  <2>3. t \in Of(done, m)
    <3>1. CASE x.at \notin Moved
      BY <1>1, <2>1, <3>1 DEF Behind, Done
    <3>2. CASE x.at \in Moved
      <4>1. Behind(x) = Append(x.done, Now(a))
        BY <1>2, <3>2 DEF Behind
      <4>2. done = x.done \/ done = Append(x.done, Now(a))
        BY <1>1 DEF Done
      <4> QED BY <1>1, <1>9, <2>1, <2>2, <3>2, <4>1, <4>2
    <3> QED BY <3>1, <3>2
  <2>4. done # <<>>
    BY <2>3 DEF Of
  <2>5. CASE archived' = Append(archived, done)
    <3>1. Len(archived) + 1 \in 1..Len(archived') /\ archived'[Len(archived) + 1] = done
      BY <1>3, <1>5, <2>4, <2>5, AppendProperties, LenProperties
    <3>2. OnStack(m, f, g)'
      BY <2>1, <2>3, <3>1 DEF OnStack
    <3> QED BY <3>2 DEF Owed
  <2>6. CASE Behind(actions'[a]) = done /\ actions'[a].op = x.op
    <3>1. OwedIn(actions'[a], m, f, g)
      BY <1>9, <2>1, <2>3, <2>6 DEF OwedIn
    <3> QED BY <3>1 DEF Owed
  <2> QED BY <1>4, <1>9, <2>4, <2>5, <2>6
<1> QED BY <1>1, <1>6, <1>7, <1>8, <1>9 DEF Owed

-----------------------------------------------------------------------------
(* The verdicts that stand, step by step *)

LEMMA FinishWords ==
  ASSUME GoodActions, NEW a \in Action, actions[a].at # "idle",
         NEW done \in Done(a), Finish(a, done), UNCHANGED <<home, stuck, copies>>, NEW m, Worded(m),
         \/ Now(a).msg # m
         \/ actions[a].op = "undo" /\ actions[a].at \in Moved
         \/ /\ actions[a].op # "undo" /\ (actions[a].at \notin Moved \/ done # actions[a].done)
            /\ actions[a].at # "move",
         m \notin Copied(a)
  PROVE  Worded(m)'
<1>1. \A f, g : Owed(m, f, g) => Owed(m, f, g)'
  BY OwedFinish
<1>2. \A b \in Action \ {a} : actions'[b] = actions[b]
  BY DoneTasks, FinishView DEF Done
<1>3. \A op \in {"spam", "notSpam"} : Tagging(m, op) => Tagging(m, op)'
  BY <1>2, TaggingKept DEF Moved
<1>4. \A c \in Left(m)' : \E d \in Left(m) : c.keywords \subseteq d.keywords
  <2>1. \A b \in Action : At(b, "remove") =>
          m \notin Copied(b) \/ (At(b, "remove")' /\ actions'[b] = actions[b])
    BY <1>2 DEF At
  <2> QED BY <2>1, LeftFewer
<1> QED BY <1>1, <1>3, <1>4, StillWorded

\* Nobody else moves or ends, the copies are as they were, and a is not tagging m.
LEMMA PutWords ==
  ASSUME GoodActions, UNCHANGED <<home, stuck, archived, copies>>,
         NEW a \in Action, \A b \in Action \ {a} : actions'[b] = actions[b],
         NEW m, Worded(m), actions[a].at \notin {"move", "remove"},
         \A f, g : OwedIn(actions[a], m, f, g) => OwedIn(actions'[a], m, f, g)
  PROVE  Worded(m)'
<1>1. \A f, g : Owed(m, f, g) => Owed(m, f, g)'
  BY OwedKept
<1>2. \A op \in {"spam", "notSpam"} : Tagging(m, op) => Tagging(m, op)'
  BY TaggingKept
<1>3. \A c \in Left(m)' : \E d \in Left(m) : c.keywords \subseteq d.keywords
  <2>1. \A b \in Action : At(b, "remove") => At(b, "remove")' /\ actions'[b] = actions[b]
    BY DEF At
  <2> QED BY <2>1, LeftFewer
<1> QED BY <1>1, <1>2, <1>3, StillWorded

LEMMA StartWords ==
  ASSUME MInv, NEW a \in Action, NEW op \in {"move", "spam", "notSpam"},
         NEW at \in {"read", "lock"}, NEW tasks \in Seq(Task), tasks # <<>>,
         Start(a, op, at, tasks), UNCHANGED archived, NEW m, Worded(m)
  PROVE  Worded(m)'
<1>1. /\ UNCHANGED <<copies, home, stuck>> /\ actions[a] = Idle
      /\ \A b \in Action \ {a} : actions'[b] = actions[b]
  BY StartView DEF MInv, server
<1>2. \A f, g : ~OwedIn(Idle, m, f, g)
  <2>1. Idle.op # "undo" /\ Behind(Idle) = <<>>
    BY DEF Idle, Behind, Moved
  <2>2. Of(<<>>, m) = {}
    BY DEF Of
  <2> QED BY <2>1, <2>2 DEF OwedIn
<1>3. actions[a].at \notin {"move", "remove"}
  BY <1>1 DEF Idle
<1> QED BY <1>1, <1>2, <1>3, PutWords DEF MInv

LEMMA UndoArchiveWords ==
  ASSUME MInv, NEW a \in Action, UndoArchive(a), NEW m, Worded(m)
  PROVE  Worded(m)'
<1>1. PICK tasks \in Seq(Task) :
        /\ tasks # <<>> /\ Start(a, "undo", "lock", tasks)
        /\ Len(tasks) = Len(Last(archived))
        /\ \A i \in 1..Len(tasks) : tasks[i] = Back(Last(archived)[i])
  BY UndoArchiveStarts
<1>2. /\ UNCHANGED <<copies, home, stuck>> /\ actions[a] = Idle
      /\ \A b \in Action \ {a} : actions'[b] = actions[b]
      /\ actions'[a] = [op |-> "undo", at |-> "lock", todo |-> tasks, done |-> <<>>]
  BY <1>1, StartView DEF MInv, server
<1>3. \A b \in Action : At(b, "remove") => At(b, "remove")' /\ actions'[b] = actions[b]
  BY <1>2 DEF At, Idle
<1>4. \A c \in Left(m)' : \E d \in Left(m) : c.keywords \subseteq d.keywords
  BY <1>2, <1>3, LeftFewer
<1>5. \A op \in {"spam", "notSpam"} : Tagging(m, op) => Tagging(m, op)'
  <2>1. actions[a].at # "move"
    BY <1>2 DEF Idle
  <2> QED BY <1>2, <2>1, TaggingKept
<1>6. ASSUME NEW f, NEW g, OnStack(m, f, g) PROVE Owed(m, f, g)'
  <2>1. PICK i \in 1..Len(archived) : \E t \in Of(archived[i], m) : t.folder = f /\ t.to = g
    BY <1>6 DEF OnStack
  <2>2. /\ Last(archived) = archived[Len(archived)] /\ Len(archived') = Len(archived) - 1
        /\ \A k \in 1..(Len(archived) - 1) : archived'[k] = archived[k]
        /\ Len(archived) \in Nat \ {0}
    BY Popped DEF UndoArchive, MInv
  <2>4. CASE i = Len(archived)
    <3>1. PICK s \in Seq(Task) : s = Last(archived)
      BY UndoArchiveStarts
    <3>2. \E t \in Of(tasks, m) : t.to = f /\ t.folder = g
      <4>1. \E t \in Of(s, m) : t.folder = f /\ t.to = g
        BY <2>1, <2>2, <2>4, <3>1
      <4>2. Len(tasks) = Len(s) /\ \A k \in 1..Len(tasks) : tasks[k] = Back(s[k])
        BY <1>1, <3>1
      <4>3. /\ Of(tasks, m) # {} <=> Of(s, m) # {}
            /\ One(s, m) => One(tasks, m)
            /\ \A p, q : (\E t \in Of(tasks, m) : t.to = p /\ t.folder = q)
                           <=> \E t \in Of(s, m) : t.folder = p /\ t.to = q
        BY <4>2, BackOf
      <4> QED BY <4>1, <4>3
    <3>3. actions'[a].op = "undo" /\ Due(actions'[a]) = tasks
      BY <1>2 DEF Due, Moved
    <3>4. OwedIn(actions'[a], m, f, g)
      BY <3>2, <3>3 DEF OwedIn
    <3> QED BY <3>4 DEF Owed
  <2>5. CASE i # Len(archived)
    <3>1. i \in 1..Len(archived') /\ archived'[i] = archived[i]
      BY <2>2, <2>5
    <3>2. OnStack(m, f, g)'
      BY <2>1, <3>1 DEF OnStack
    <3> QED BY <3>2 DEF Owed
  <2> QED BY <2>4, <2>5
<1>7. ASSUME NEW f, NEW g, NEW b \in Action, OwedIn(actions[b], m, f, g) PROVE Owed(m, f, g)'
  <2>1. ~OwedIn(Idle, m, f, g)
    <3>1. Idle.op # "undo" /\ Behind(Idle) = <<>>
      BY DEF Idle, Behind, Moved
    <3>2. Of(<<>>, m) = {}
      BY DEF Of
    <3> QED BY <3>1, <3>2 DEF OwedIn
  <2>2. actions'[b] = actions[b]
    BY <1>2, <1>7, <2>1
  <2>3. OwedIn(actions'[b], m, f, g)
    BY <1>7, <2>2
  <2> QED BY <2>3 DEF Owed
<1>8. \A f, g : Owed(m, f, g) => Owed(m, f, g)'
  BY <1>6, <1>7 DEF Owed
<1> QED BY <1>2, <1>4, <1>5, <1>8, StillWorded

LEMMA UserWords ==
  ASSUME MInv, NEW a \in Action, User(a), NEW m, Worded(m)
  PROVE  Worded(m)'
<1>1. ASSUME NEW to \in Folder, MoveRows(a, to) PROVE Worded(m)'
  BY <1>1, MoveRowsStarts, StartWords
<1>2. CASE ToggleSpam(a)
  BY <1>2, ToggleSpamStarts, StartWords
<1> QED BY <1>1, <1>2, UndoArchiveWords DEF User

LEMMA GetMessageWords ==
  ASSUME MInv, Aims, NEW a \in Action, GetMessage(a), NEW m, Worded(m)
  PROVE  Worded(m)'
<1>1. /\ actions[a].at = "read" /\ actions[a].at # "idle" /\ UNCHANGED <<home, stuck, copies>>
  BY DEF GetMessage, At, server, history
<1>2. PICK x \in GoodAct : x = actions[a]
  BY DEF MInv, GoodActions
<1>3. x.op # "undo" /\ x.at \notin Moved
  BY <1>1, <1>2 DEF Aims, Aimed, Moved
<1>4. CASE Fails(a)
  <2>1. actions[a].done \in Done(a) /\ Finish(a, actions[a].done) /\ m \notin Copied(a)
    BY <1>1, <1>4 DEF Fails, Done, Copied, At
  <2> QED BY <1>1, <1>2, <1>3, <2>1, FinishWords DEF MInv
<1>5. CASE /\ actions' = [actions EXCEPT ![a].at = "lock",
                            ![a].todo = <<[Now(a) EXCEPT !.to = Destination(a)]>> \o Tail(@)]
           /\ UNCHANGED archived
  <2> DEFINE to == Destination(a)
  <2>1. Now(a) \in Task
    BY <1>1, ActAt DEF MInv
  <2>2. to \in Folder
    <3>1. Now(a).to \in Folder /\ Inbox \in Folder /\ Junk \in Folder
      BY <2>1, TaskFields DEF Folder
    <3> QED BY <3>1 DEF Destination, NotSpamDestination
  <2> HIDE DEF to
  <2>3. PICK u \in Task : u = [Now(a) EXCEPT !.to = to]
    BY <2>1, <2>2, Headed
  <2>4. actions' = [actions EXCEPT ![a].at = "lock", ![a].todo = <<u>> \o Tail(@)]
    BY <1>5, <2>3 DEF to
  <2>5. /\ \A b \in Action \ {a} : actions'[b] = actions[b]
        /\ actions'[a].at = "lock" /\ actions'[a].op = actions[a].op
        /\ actions'[a].done = actions[a].done
    BY <1>1, <2>4, PutView DEF MInv
  <2>6. Behind(actions'[a]) = Behind(x) /\ actions'[a].op # "undo"
    BY <1>1, <1>2, <1>3, <2>5 DEF Behind, Moved
  <2>7. \A f, g : OwedIn(actions[a], m, f, g) => OwedIn(actions'[a], m, f, g)
    BY <1>2, <1>3, <2>6 DEF OwedIn
  <2>8. actions[a].at \notin {"move", "remove"}
    BY <1>1
  <2> QED BY <1>1, <1>5, <2>5, <2>7, <2>8, PutWords DEF MInv
<1> QED BY <1>4, <1>5 DEF GetMessage

\* What storing keywords leaves of a message, while nobody is between COPY and delete.
Reworded(m, cs, add, remove, failed) ==
  \A e \in Left(m)' :
    \/ e \in Left(m) \ cs
    \/ \E d \in Left(m) \cap cs :
         e.keywords = (d.keywords \ Stored(remove, d.folder, failed))
                        \cup Stored(add, d.folder, failed)

LEMMA StoreLeaves ==
  ASSUME GoodServer, NEW cs \in SUBSET copies,
         NEW add \in SUBSET Keyword, NEW remove \in SUBSET Keyword, NEW failed,
         StoreKeywords(cs, add, remove, failed),
         \A b \in Action : ~At(b, "remove"), NEW m
  PROVE  Reworded(m, cs, add, remove, failed)
<1> DEFINE words(d) == (d.keywords \ Stored(remove, d.folder, failed))
                          \cup Stored(add, d.folder, failed)
<1> SUFFICES ASSUME NEW e \in Left(m)'
             PROVE  \/ e \in Left(m) \ cs
                    \/ \E d \in Left(m) \cap cs : e.keywords = words(d)
  BY DEF Reworded
<1>1. e \in copies' /\ e.msg = m
  BY DEF Left
<1>2. CASE e \in copies \ cs
  BY <1>1, <1>2 DEF Left
<1>3. CASE e \notin copies \ cs
  <2>1. PICK d \in cs : e = [d EXCEPT !.keywords = words(d)]
    BY <1>1, <1>3 DEF StoreKeywords
  <2>2. d \in Copy
    BY DEF GoodServer
  <2>3. e.msg = d.msg /\ e.keywords = words(d)
    BY <2>1, <2>2 DEF Copy
  <2> QED BY <1>1, <2>3 DEF Left
<1> QED BY <1>2, <1>3

LEMMA TagVerdictWords ==
  ASSUME MInv, NEW a \in Action, TagVerdict(a), NEW m, m \notin moot', Worded(m)
  PROVE  Worded(m)'
<1>1. /\ actions[a].at = "lock" /\ actions[a].at # "idle" /\ syncMu = NoAction /\ Goes(a, "move")
      /\ actions[a].op \in {"spam", "notSpam"} /\ UNCHANGED <<archived, home, stuck>>
  BY DEF TagVerdict, Lock, At
<1>2. PICK t \in Task : t = Now(a) /\ Sound(t)
  BY <1>1, ActAt DEF MInv
<1>3. /\ \A b \in Action \ {a} : actions'[b] = actions[b]
      /\ actions'[a].at = "move" /\ actions'[a].op = actions[a].op
      /\ actions'[a].todo = actions[a].todo /\ actions'[a].done = actions[a].done
  BY <1>1, GoesView DEF MInv
<1>4. \A f, g : Owed(m, f, g) => Owed(m, f, g)'
  <2>1. Behind(actions'[a]) = Behind(actions[a])
    BY <1>1, <1>3 DEF Behind, Moved
  <2>2. \A f, g : OwedIn(actions[a], m, f, g) => OwedIn(actions'[a], m, f, g)
    BY <1>1, <1>3, <2>1 DEF OwedIn
  <2> QED BY <1>1, <1>3, <2>2, OwedKept
<1>5. \A op \in {"spam", "notSpam"} : Tagging(m, op) => Tagging(m, op)'
  BY <1>1, <1>3, TaggingKept
<1>6. (AsJunk(m) => AsJunk(m)') /\ (AsNotJunk(m) => AsNotJunk(m)')
  BY <1>4, <1>5 DEF AsJunk, AsNotJunk
<1>7. t.msg = m => Tagging(m, actions[a].op)'
  BY <1>2, <1>3 DEF Tagging, At, Now
<1>8. \A b \in Action : ~At(b, "remove")
  BY <1>1, FreeIsQuiet DEF MInv
<1> DEFINE cs  == Named(Now(a))
           add == IF actions[a].op = "spam" THEN "$Junk" ELSE "$NotJunk"
<1>9. /\ cs \in SUBSET copies /\ {add} \in SUBSET Keyword
      /\ \E remove \in SUBSET Keyword, failed \in SUBSET Keyword :
           StoreKeywords(cs, {add}, remove, failed)
  <2>1. {"$Junk"} \in SUBSET Keyword /\ {"$NotJunk"} \in SUBSET Keyword
    BY DEF Keyword
  <2> QED BY <1>1, <2>1 DEF TagVerdict, Named
<1>10. ASSUME NEW d \in cs, d.msg = m PROVE t.msg = m
  <2>1. ~Stale(a)
    BY <1>10 DEF TagVerdict
  <2>2. t.validity = uidValidity[t.folder]
    BY <1>1, <1>2, <2>1 DEF Stale
  <2> QED BY <1>2, <1>10, <2>2 DEF Sound, Names
<1> HIDE DEF cs
<1>11. ASSUME NEW e \in Left(m)'
       PROVE  /\ "$Junk" \in e.keywords \ (home[m].keywords \cup stuck[m]) => AsJunk(m)'
              /\ "$NotJunk" \in e.keywords \ (home[m].keywords \cup stuck[m]) => AsNotJunk(m)'
  <2>1. PICK d \in Left(m) : e.keywords \subseteq d.keywords
                             \/ (d \in cs /\ e.keywords \subseteq d.keywords \cup {add})
    <3> HIDE DEF add
    <3>1. PICK remove \in SUBSET Keyword, failed \in SUBSET Keyword :
            StoreKeywords(cs, {add}, remove, failed)
      BY <1>9
    <3>2. Reworded(m, cs, {add}, remove, failed)
      BY <1>8, <1>9, <3>1, StoreLeaves DEF MInv
    <3>3. \A f : Stored({add}, f, failed) \subseteq {add}
      BY DEF Stored
    <3> QED BY <1>11, <3>2, <3>3 DEF Reworded
  <2>2. /\ "$Junk" \in d.keywords \ (home[m].keywords \cup stuck[m]) => AsJunk(m)
        /\ "$NotJunk" \in d.keywords \ (home[m].keywords \cup stuck[m]) => AsNotJunk(m)
    BY DEF Worded
  <2>3. d.msg = m
    BY DEF Left
  <2>4. d \in cs => Tagging(m, actions[a].op)'
    BY <1>7, <1>10, <2>3
  <2>5. /\ Tagging(m, "spam")' => AsJunk(m)'
        /\ Tagging(m, "notSpam")' => AsNotJunk(m)'
    BY DEF AsJunk, AsNotJunk
  <2>6. CASE actions[a].op = "spam"
    <3>1. d \in cs => AsJunk(m)'
      BY <1>3, <2>4, <2>5, <2>6
    <3>2. add = "$Junk" /\ add # "$NotJunk"
      BY <2>6
    <3> QED BY <1>6, <2>1, <2>2, <3>1, <3>2
  <2>7. CASE actions[a].op = "notSpam"
    <3>1. d \in cs => AsNotJunk(m)'
      BY <1>3, <2>4, <2>5, <2>7
    <3>2. add = "$NotJunk" /\ add # "$Junk"
      BY <2>7
    <3> QED BY <1>6, <2>1, <2>2, <3>1, <3>2
  <2> QED BY <1>1, <2>6, <2>7
<1> QED BY <1>1, <1>11 DEF Worded

LEMMA SearchWords ==
  ASSUME MInv, LInv, torn \subseteq moot, NEW a \in Action, Search(a),
         NEW m \in Msg, m \notin moot, Worded(m)
  PROVE  Worded(m)'
<1> DEFINE c == Newest(SearchByMessageID(Now(a)))
<1>1. /\ actions[a].at = "lock" /\ actions[a].at # "idle" /\ actions[a].op = "undo"
      /\ syncMu = NoAction /\ UNCHANGED <<archived, home>>
  BY DEF Search, Lock, At
<1>2. PICK t \in Task : t = Now(a) /\ t = Head(actions[a].todo)
  BY <1>1, ActAt DEF MInv, Now
<1>3. c \in copies /\ c.folder = t.folder /\ c.msg = t.msg
  BY <1>2, SearchFinds DEF Search, MInv
<1> HIDE DEF c
<1>4. PICK u \in Task : u = [Now(a) EXCEPT !.uid = c.uid]
  <2>1. c.uid \in Nat
    BY <1>3, CopyFields DEF MInv
  <2> QED BY <1>2, <2>1, Found
<1>5. actions' = [actions EXCEPT ![a].at = "move", ![a].todo = <<u>> \o Tail(@)]
  BY <1>4 DEF Search, c
<1>6. /\ \A b \in Action \ {a} : actions'[b] = actions[b]
      /\ actions'[a].op = "undo" /\ actions'[a].at = "move"
      /\ Tail(actions'[a].todo) = Tail(actions[a].todo)
  BY <1>1, <1>5, PutView DEF MInv
<1>7. \A op \in {"spam", "notSpam"} : Tagging(m, op) => Tagging(m, op)'
  BY <1>1, <1>6, TaggingKept
<1>8. ASSUME NEW f, NEW g, Owed(m, f, g)
      PROVE  Owed(m, f, g)' \/ (t.msg = m /\ f = t.to /\ g = t.folder)
  <2>1. CASE OnStack(m, f, g)
    <3>1. OnStack(m, f, g)'
      BY <1>1, <2>1 DEF OnStack
    <3> QED BY <3>1 DEF Owed
  <2>2. ASSUME NEW b \in Action \ {a}, OwedIn(actions[b], m, f, g) PROVE Owed(m, f, g)'
    <3>1. OwedIn(actions'[b], m, f, g)
      BY <1>6, <2>2
    <3> QED BY <3>1 DEF Owed
  <2>3. CASE OwedIn(actions[a], m, f, g)
    <3>1. PICK s \in Seq(Task) : s = actions[a].todo /\ s # <<>>
      BY <1>1, ActAt DEF MInv
    <3>2. Due(actions[a]) = s /\ Due(actions'[a]) = Tail(s)
      BY <1>1, <1>6, <3>1 DEF Due, Moved
    <3>3. PICK v \in Of(s, m) : v.to = f /\ v.folder = g
      BY <1>1, <2>3, <3>2 DEF OwedIn
    <3>4. Of(s, m) = (IF Head(s).msg = m THEN {Head(s)} ELSE {}) \cup Of(Tail(s), m)
      BY <3>1, OfTail
    <3>5. CASE v \in Of(Tail(s), m)
      <4>1. OwedIn(actions'[a], m, f, g)
        BY <1>6, <3>2, <3>3, <3>5 DEF OwedIn
      <4> QED BY <4>1 DEF Owed
    <3> QED BY <1>2, <3>1, <3>3, <3>4, <3>5
  <2> QED BY <1>8, <2>1, <2>2, <2>3 DEF Owed
<1>9. \A b \in Action : ~At(b, "remove")
  BY <1>1, FreeIsQuiet DEF MInv
<1> DEFINE kw == Withdrawn(t)
<1>10. PICK failed \in SUBSET kw :
         /\ StoreKeywords({c}, {}, kw, failed)
         /\ stuck' = [stuck EXCEPT ![c.msg] =
              @ \cup ((kw \cap c.keywords) \ Stored(kw, c.folder, failed))]
  BY <1>2 DEF Search, c
<1>11. ASSUME NEW e \in Left(m)'
       PROVE  \E d \in Left(m) :
                /\ e.keywords \subseteq d.keywords
                /\ t.msg = m => \A k \in kw : k \in e.keywords => k \in stuck'[m]
  <2>1. kw \in SUBSET Keyword /\ {c} \in SUBSET copies /\ {} \in SUBSET Keyword
    BY <1>3 DEF Withdrawn, Keyword
  <2> HIDE DEF kw
  <2>2. Reworded(m, {c}, {}, kw, failed)
    BY <1>9, <1>10, <2>1, StoreLeaves DEF MInv
  <2>3. CASE e \in Left(m) \ {c}
    <3>1. e \in copies /\ e.msg = m
      BY <2>3 DEF Left
    <3>2. m \notin torn
      OBVIOUS
    <3>3. t.msg # m
      BY <1>3, <1>9, <2>3, <3>1, <3>2, LoneCopies DEF LInv
    <3> QED BY <2>3, <3>3
  <2>4. ASSUME NEW d \in Left(m) \cap {c},
               e.keywords = (d.keywords \ Stored(kw, d.folder, failed))
                              \cup Stored({}, d.folder, failed)
        PROVE  \E x \in Left(m) :
                 /\ e.keywords \subseteq x.keywords
                 /\ t.msg = m => \A k \in kw : k \in e.keywords => k \in stuck'[m]
    <3>1. d = c /\ c \in Left(m) /\ c.msg = m
      BY <2>4 DEF Left
    <3>2. Stored({}, d.folder, failed) = {}
      BY DEF Stored
    <3>3. e.keywords = c.keywords \ Stored(kw, c.folder, failed)
      BY <2>4, <3>1, <3>2
    <3>4. stuck'[m] = stuck[m] \cup ((kw \cap c.keywords) \ Stored(kw, c.folder, failed))
      BY <1>10, <3>1 DEF MInv, GoodHistory
    <3> QED BY <3>1, <3>3, <3>4
  <2> QED BY <1>11, <2>2, <2>3, <2>4 DEF Reworded
<1>12. stuck[m] \subseteq stuck'[m]
  <2> HIDE DEF kw
  <2> QED BY <1>10 DEF MInv, GoodHistory
<1>13. ASSUME NEW e \in Left(m)'
       PROVE  /\ "$Junk" \in e.keywords \ (home[m].keywords \cup stuck'[m]) => AsJunk(m)'
              /\ "$NotJunk" \in e.keywords \ (home[m].keywords \cup stuck'[m]) => AsNotJunk(m)'
  <2>1. PICK d \in Left(m) :
          /\ e.keywords \subseteq d.keywords
          /\ t.msg = m => \A k \in kw : k \in e.keywords => k \in stuck'[m]
    BY <1>11, <1>13
  <2>2. /\ "$Junk" \in d.keywords \ (home[m].keywords \cup stuck[m]) => AsJunk(m)
        /\ "$NotJunk" \in d.keywords \ (home[m].keywords \cup stuck[m]) => AsNotJunk(m)
    BY DEF Worded
  <2>3. /\ AsJunk(m) => AsJunk(m)' \/ (t.msg = m /\ "$Junk" \in kw)
        /\ AsNotJunk(m) => AsNotJunk(m)' \/ (t.msg = m /\ "$NotJunk" \in kw)
    <3>1. /\ t.folder = Junk => "$Junk" \in kw
          /\ t.folder # Junk /\ t.to = Junk => "$NotJunk" \in kw
      BY DEF Withdrawn
    <3> HIDE DEF kw
    <3>2. AsJunk(m) => AsJunk(m)' \/ (t.msg = m /\ t.folder = Junk)
      BY <1>7, <1>8 DEF AsJunk
    <3>3. AsNotJunk(m) => AsNotJunk(m)' \/ (t.msg = m /\ t.folder # Junk /\ t.to = Junk)
      BY <1>7, <1>8 DEF AsNotJunk
    <3> QED BY <3>1, <3>2, <3>3
  <2> HIDE DEF kw
  <2> QED BY <1>12, <2>1, <2>2, <2>3
<1> QED BY <1>1, <1>13 DEF Worded

LEMMA NotFoundWords ==
  ASSUME MInv, NEW a \in Action, NotFound(a), NEW m, Hands(m), Way(m), Worded(m)
  PROVE  Worded(m)'
<1>1. /\ actions[a].at = "lock" /\ actions[a].at # "idle" /\ actions[a].op = "undo"
      /\ syncMu = NoAction /\ SearchByMessageID(Now(a)) = {} /\ UNCHANGED <<copies, home, stuck>>
  BY DEF NotFound, At, server, history
<1>2. actions[a].done \in Done(a) /\ Finish(a, actions[a].done) /\ m \notin Copied(a)
  BY <1>1 DEF NotFound, Fails, Done, Copied, At
<1>3. CASE Now(a).msg # m
  BY <1>1, <1>2, <1>3, FinishWords DEF MInv
<1>4. CASE Now(a).msg = m
  <2>1. ASSUME NEW c \in Left(m) PROVE FALSE
    <3>1. PICK f, g : f = Now(a).to /\ g = Now(a).folder
      OBVIOUS
    <3>2. actions[a].at \notin Moved
      BY <1>1 DEF Moved
    <3>3. c.folder = g
      BY <1>1, <1>4, <3>1, <3>2, WhereLoose
    <3>4. c \in copies /\ c.msg = m
      BY DEF Left
    <3> QED BY <1>1, <1>4, <3>1, <3>3, <3>4 DEF SearchByMessageID
  <2>2. Left(m)' \subseteq Left(m)
    <3>1. \A b \in Action : ~At(b, "remove")
      BY <1>1, FreeIsQuiet DEF MInv
    <3> QED BY <1>1, <3>1, LeftFewer
  <2> QED BY <2>1, <2>2 DEF Worded
<1> QED BY <1>3, <1>4

LEMMA MoveMessageWords ==
  ASSUME MInv, Aims, NEW a \in Action, MoveMessage(a), NEW m, Worded(m)
  PROVE  Worded(m)'
<1>1. /\ actions[a].at \in {"lock", "move"} /\ actions[a].at # "idle"
      /\ actions[a].op = "undo" => actions[a].at = "move"
      /\ \A b \in Action : ~At(b, "remove")
      /\ UNCHANGED <<home, stuck, archived>>
  BY MoveHeld DEF MoveMessage, Noted, Holding
<1>2. PICK t \in Task : t = Now(a) /\ t = Head(actions[a].todo)
  BY <1>1, ActAt DEF MInv, Now
<1>3. PICK at \in {"remove", "drop"} : Goes(a, at)
  BY DEF MoveMessage
<1>4. /\ \A b \in Action \ {a} : actions'[b] = actions[b]
      /\ actions'[a].at \in Moved /\ actions'[a].op = actions[a].op
      /\ actions'[a].todo = actions[a].todo /\ actions'[a].done = actions[a].done
  BY <1>1, <1>3, GoesView DEF MInv, Moved
<1>5. PICK done \in Seq(Task) : done = actions[a].done
  BY <1>1, DoneTasks DEF MInv
<1>6. /\ actions[a].op # "undo" => Behind(actions[a]) = done /\ Behind(actions'[a]) = Append(done, t)
      /\ actions[a].op = "undo" => Due(actions'[a]) = Due(actions[a])
  BY <1>1, <1>2, <1>4, <1>5 DEF Behind, Due, Moved
<1>7. Of(Append(done, t), m) = Of(done, m) \cup (IF t.msg = m THEN {t} ELSE {})
  BY <1>2, <1>5, OfAppend
<1>8. \A f, g : OwedIn(actions[a], m, f, g) => OwedIn(actions'[a], m, f, g)
  BY <1>4, <1>6, <1>7 DEF OwedIn
<1>9. \A f, g : Owed(m, f, g) => Owed(m, f, g)'
  BY <1>1, <1>4, <1>8, OwedKept
<1>10. ASSUME actions[a].op # "undo", t.msg = m PROVE Owed(m, t.folder, t.to)'
  <2>1. t \in Of(Behind(actions'[a]), m)
    BY <1>6, <1>7, <1>10
  <2>2. OwedIn(actions'[a], m, t.folder, t.to)
    BY <1>4, <1>10, <2>1 DEF OwedIn
  <2> QED BY <2>2 DEF Owed
<1>11. ASSUME NEW op \in {"spam", "notSpam"}, Tagging(m, op)
       PROVE  Tagging(m, op)' \/ (actions[a].op = op /\ t.msg = m)
  <2>1. PICK b \in Action : actions[b].op = op /\ At(b, "move") /\ Now(b).msg = m
    BY <1>11 DEF Tagging
  <2>2. CASE b = a
    BY <1>2, <2>1, <2>2
  <2>3. CASE b # a
    <3>1. actions'[b].op = op /\ At(b, "move")' /\ Now(b)' = Now(b)
      BY <1>4, <2>1, <2>3 DEF At, Now
    <3> QED BY <2>1, <3>1 DEF Tagging
  <2> QED BY <2>2, <2>3
<1>12. /\ t.folder \in Folder /\ t.to \in Folder
       /\ actions[a].op = "spam" => t.to = Junk
       /\ actions[a].op = "notSpam" => t.folder = Junk /\ t.to # Junk
  <2>1. t.folder \in Folder /\ t.to \in Folder
    BY TaskFields
  <2>2. PICK x \in GoodAct : x = actions[a] /\ Aimed(x)
    BY DEF MInv, GoodActions, Aims
  <2>3. t \in Tasks(x.todo)
    <3>1. x.todo \in Seq(Task) /\ x.todo # <<>>
      BY <1>1, <2>2, ActAt DEF MInv
    <3> QED BY <1>2, <2>2, <3>1, TasksOf
  <2>4. x.at \notin {"idle", "read"}
    BY <1>1, <2>2
  <2> QED BY <1>2, <2>1, <2>2, <2>3, <2>4 DEF Aimed
<1>13. AsJunk(m) => AsJunk(m)'
  <2>1. CASE Tagging(m, "spam") /\ ~Tagging(m, "spam")'
    <3>1. Owed(m, t.folder, Junk)'
      BY <1>10, <1>11, <1>12, <2>1
    <3> QED BY <1>12, <3>1 DEF AsJunk
  <2> QED BY <1>9, <2>1 DEF AsJunk
<1>14. AsNotJunk(m) => AsNotJunk(m)'
  <2>1. CASE Tagging(m, "notSpam") /\ ~Tagging(m, "notSpam")'
    <3>1. Owed(m, Junk, t.to)' /\ t.to \in Folder \ {Junk}
      BY <1>10, <1>11, <1>12, <2>1
    <3> QED BY <3>1 DEF AsNotJunk
  <2> QED BY <1>9, <2>1 DEF AsNotJunk
<1>15. ASSUME NEW e \in Left(m)'
       PROVE  /\ "$Junk" \in e.keywords \ (home[m].keywords \cup stuck[m]) => AsJunk(m)'
              /\ "$NotJunk" \in e.keywords \ (home[m].keywords \cup stuck[m]) => AsNotJunk(m)'
  <2>1. e \in copies' /\ e.msg = m
    BY DEF Left
  <2>2. PICK d \in copies : d.msg = e.msg /\ d.keywords = e.keywords
    <3>1. CASE e \in copies
      BY <3>1
    <3>2. CASE e \notin copies
      <4>1. PICK c \in Named(Now(a)) : e = [c EXCEPT !.folder = Now(a).to, !.uid = uidNext[Now(a).to]]
        BY <2>1, <3>2 DEF MoveMessage, Landed
      <4>2. c \in copies /\ c \in Copy
        BY DEF Named, MInv, GoodServer
      <4>3. e.msg = c.msg /\ e.keywords = c.keywords
        BY <4>1, <4>2 DEF Copy
      <4> QED BY <4>2, <4>3
    <3> QED BY <3>1, <3>2
  <2>3. d \in Left(m)
    BY <1>1, <2>1, <2>2 DEF Left
  <2> QED BY <1>13, <1>14, <2>2, <2>3 DEF Worded
<1> QED BY <1>1, <1>15 DEF Worded

LEMMA DeleteMessagesWords ==
  ASSUME MInv, NEW a \in Action, DeleteMessages(a), NEW m, Worded(m)
  PROVE  Worded(m)'
<1>1. /\ actions[a].at = "remove" /\ actions[a].at # "idle" /\ Goes(a, "drop")
      /\ copies' = copies \ Named(Now(a)) /\ UNCHANGED <<home, stuck, archived>>
  BY DEF DeleteMessages, At
<1>2. /\ \A b \in Action \ {a} : actions'[b] = actions[b]
      /\ actions'[a].at = "drop" /\ actions'[a].op = actions[a].op
      /\ actions'[a].todo = actions[a].todo /\ actions'[a].done = actions[a].done
  BY <1>1, GoesView DEF MInv
<1>3. \A f, g : OwedIn(actions[a], m, f, g) => OwedIn(actions'[a], m, f, g)
  <2>1. Behind(actions'[a]) = Behind(actions[a]) /\ Due(actions'[a]) = Due(actions[a])
    BY <1>1, <1>2 DEF Behind, Due, Moved
  <2> QED BY <1>2, <2>1 DEF OwedIn
<1>4. \A f, g : Owed(m, f, g) => Owed(m, f, g)'
  BY <1>1, <1>2, <1>3, OwedKept
<1>5. \A op \in {"spam", "notSpam"} : Tagging(m, op) => Tagging(m, op)'
  BY <1>1, <1>2, TaggingKept
<1>6. ASSUME NEW e \in Left(m)' PROVE e \in Left(m)
  <2>1. e \in copies /\ e.msg = m /\ e \notin Named(Now(a))
    BY <1>1 DEF Left
  <2>2. ASSUME NEW b \in Action, At(b, "remove") PROVE b = a
    <3>1. syncMu = b
      BY <2>2, RemoverHolds DEF MInv
    <3>2. syncMu = a
      BY <1>1, RemoverHolds DEF At, MInv
    <3> QED BY <3>1, <3>2
  <2> QED BY <2>1, <2>2 DEF Left
<1> QED BY <1>1, <1>4, <1>5, <1>6, StillWorded

LEMMA DropRowWords ==
  ASSUME MInv, RowThere, NEW a \in Action, DropRow(a), NEW m, Vouched(m), Worded(m)
  PROVE  Worded(m)'
<1>1. /\ actions[a].at = "drop" /\ actions[a].at # "idle" /\ actions[a].at \in Moved
      /\ m \notin Copied(a) /\ UNCHANGED <<copies, home, stuck>>
  BY DEF DropRow, At, Moved, Copied, server, history
<1>2. CASE Goes(a, "note") /\ UNCHANGED archived
  <2>1. /\ \A b \in Action \ {a} : actions'[b] = actions[b]
        /\ actions'[a].at = "note" /\ actions'[a].op = actions[a].op
        /\ actions'[a].todo = actions[a].todo /\ actions'[a].done = actions[a].done
    BY <1>1, <1>2, GoesView DEF MInv
  <2>2. \A f, g : OwedIn(actions[a], m, f, g) => OwedIn(actions'[a], m, f, g)
    <3>1. Behind(actions'[a]) = Behind(actions[a]) /\ Due(actions'[a]) = Due(actions[a])
      BY <1>1, <2>1 DEF Behind, Due, Moved
    <3> QED BY <2>1, <3>1 DEF OwedIn
  <2>3. actions[a].at \notin {"move", "remove"}
    BY <1>1
  <2> QED BY <1>1, <1>2, <2>1, <2>2, <2>3, PutWords DEF MInv
<1>3. CASE Succeeds(a)
  <2>1. PICK done : done = Append(actions[a].done, Now(a))
    OBVIOUS
  <2>2. done \in Done(a) /\ Finish(a, done)
    BY <1>1, <1>3, <2>1 DEF Done, Succeeds
  <2>3. done # actions[a].done
    BY <1>1, <2>1, DoneTasks, AppendProperties, LenProperties DEF MInv
  <2> QED BY <1>1, <2>2, <2>3, FinishWords DEF MInv
<1>4. CASE Fails(a) /\ actions[a].op # "undo" /\ {r \in rows : TaskFor(r, Now(a).to) = Now(a)} = {}
  <2>1. Now(a).msg # m
    BY <1>1, <1>4 DEF RowThere, There, HasRow
  <2>2. actions[a].done \in Done(a) /\ Finish(a, actions[a].done)
    BY <1>4 DEF Done, Fails
  <2> QED BY <1>1, <2>1, <2>2, FinishWords DEF MInv
<1>5. \/ Goes(a, "note") /\ UNCHANGED archived
      \/ Succeeds(a)
      \/ Fails(a) /\ actions[a].op # "undo" /\ {r \in rows : TaskFor(r, Now(a).to) = Now(a)} = {}
  BY DEF DropRow
<1> QED BY <1>2, <1>3, <1>4, <1>5

LEMMA NoteOriginWords ==
  ASSUME MInv, Aims, NEW a \in Action, NoteOrigin(a), NEW m, Worded(m)
  PROVE  Worded(m)'
<1>1. /\ actions[a].at = "note" /\ actions[a].at # "idle" /\ actions[a].at \in Moved
      /\ Finish(a, Append(actions[a].done, Now(a)))
      /\ m \notin Copied(a) /\ UNCHANGED <<copies, home, stuck>>
  BY DEF NoteOrigin, At, Succeeds, history, server, Moved, Copied
<1>2. PICK done \in Done(a) : done = Append(actions[a].done, Now(a))
  BY <1>1 DEF Done
<1>3. Finish(a, done) /\ done # actions[a].done
  BY <1>1, <1>2, DoneTasks, AppendProperties, LenProperties DEF MInv
<1> QED BY <1>1, <1>3, FinishWords DEF MInv

LEMMA BreakWords ==
  ASSUME MInv, NEW a \in Action, Break(a), NEW m, m \notin moot', Worded(m)
  PROVE  Worded(m)'
<1>1. /\ actions[a].at # "idle" /\ Finish(a, actions[a].done) /\ actions[a].done \in Done(a)
      /\ UNCHANGED <<copies, home, stuck>>
      /\ Now(a).msg # m /\ m \notin Copied(a)
  BY DEF Break, Fails, Done, server
<1> QED BY <1>1, FinishWords DEF MInv

LEMMA SameWords ==
  ASSUME UNCHANGED <<home, stuck, archived, actions>>, NEW m, Worded(m),
         \A c \in Left(m)' : \E d \in Left(m) : c.keywords \subseteq d.keywords
  PROVE  Worded(m)'
<1>1. \A f, g : Owed(m, f, g) => Owed(m, f, g)'
  BY DEF Owed, OnStack
<1>2. \A op \in {"spam", "notSpam"} : Tagging(m, op) => Tagging(m, op)'
  BY DEF Tagging, At, Now
<1> QED BY <1>1, <1>2, StillWorded

LEMMA MoveElsewhereWords ==
  ASSUME MInv, NEW c \in copies, NEW to \in Folder, MoveElsewhere(c, to),
         NEW m, m \notin moot', Worded(m)
  PROVE  Worded(m)'
<1>1. UNCHANGED <<home, stuck, archived, actions>> /\ c.msg # m
  BY DEF MoveElsewhere
<1>2. ASSUME NEW e \in Left(m)' PROVE e \in Left(m)
  <2>1. e \in copies /\ e.msg = m
    BY <1>1, <1>2, Elsewhere DEF Left, MInv
  <2>2. e \in copies'
    BY <1>2 DEF Left
  <2>3. ASSUME NEW b \in Action, At(b, "remove"), e \in Named(Now(b)) PROVE FALSE
    <3>1. At(b, "remove")' /\ e \in Named(Now(b))'
      BY <1>1, <2>2, <2>3 DEF At, Named, Now
    <3> QED BY <1>2, <3>1 DEF Left
  <2> QED BY <2>1, <2>3 DEF Left
<1> QED BY <1>1, <1>2, SameWords

LEMMA RenumberWords ==
  ASSUME MInv, NEW f \in Folder, Renumber(f), NEW m, Worded(m)
  PROVE  Worded(m)'
<1>1. /\ syncMu # NoAction => Now(syncMu).folder # f
      /\ UNCHANGED <<actions, archived, home, stuck>>
  BY DEF Renumber, history
<1>2. ASSUME NEW d \in Left(m)' PROVE \E c \in Left(m) : d.keywords \subseteq c.keywords
  <2>1. d \in copies' /\ d.msg = m /\ \A b \in Action : At(b, "remove")' => d \notin Named(Now(b))'
    BY <1>2 DEF Left
  <2>2. PICK c \in copies : /\ c.msg = d.msg /\ c.keywords = d.keywords
                            /\ c.folder = f \/ c = d
    <3> DEFINE old == {c \in copies : c.folder = f}
    <3>1. PICK uid : copies' = (copies \ old) \cup {[c EXCEPT !.uid = uid[c]] : c \in old}
      BY DEF Renumber
    <3>2. CASE d \in copies \ old
      BY <3>2
    <3>3. CASE d \notin copies \ old
      <4>1. PICK c \in old : d = [c EXCEPT !.uid = uid[c]]
        BY <2>1, <3>1, <3>3
      <4>2. c \in copies /\ c \in Copy /\ c.folder = f
        BY DEF MInv, GoodServer
      <4>3. d.msg = c.msg /\ d.keywords = c.keywords
        BY <4>1, <4>2 DEF Copy
      <4> QED BY <4>2, <4>3
    <3> QED BY <3>2, <3>3
  <2>3. ASSUME NEW b \in Action, At(b, "remove"), c \in Named(Now(b))
        PROVE  FALSE
    <3>1. syncMu = b /\ b # NoAction
      BY <2>3, RemoverHolds, MovesAssumption DEF MInv
    <3>2. c.folder = Now(b).folder /\ Now(b).folder # f
      BY <1>1, <2>3, <3>1 DEF Named
    <3>3. d \in Named(Now(b))' /\ At(b, "remove")'
      BY <1>1, <2>1, <2>2, <2>3, <3>2 DEF Named, At, Now
    <3> QED BY <2>1, <3>3
  <2> QED BY <2>1, <2>2, <2>3 DEF Left
<1> QED BY <1>1, <1>2, SameWords

LEMMA WordsKept ==
  ASSUME MInv, MInv', LInv, RInv, Words, [Next]_vars
  PROVE  Words'
<1> SUFFICES ASSUME NEW m \in Msg, Vouched(m)'
             PROVE  Worded(m)'
  BY DEF Words
<1>1. /\ Vouched(m) /\ Hands(m) /\ Way(m) /\ Worded(m)
      /\ m \notin moot /\ m \notin moot' /\ torn \subseteq moot /\ Aims /\ RowThere
  <2>1. Vouched(m)
    BY Grows DEF Vouched, RInv
  <2> QED BY <2>1 DEF Words, RInv, Track, Vouched
<1>2. ASSUME NEW a \in Action, User(a) PROVE Worded(m)'
  BY <1>1, <1>2, UserWords
<1>3. ASSUME NEW a \in Action, Work(a) PROVE Worded(m)'
  <2>1. CASE MoveMessage(a) \/ GetMessage(a) \/ NoteOrigin(a)
    BY <1>1, <2>1, MoveMessageWords, GetMessageWords, NoteOriginWords
  <2>2. CASE TagVerdict(a) \/ DeleteMessages(a)
    BY <1>1, <2>2, TagVerdictWords, DeleteMessagesWords
  <2>3. CASE Search(a)
    BY <1>1, <2>3, SearchWords
  <2>4. CASE NotFound(a)
    BY <1>1, <2>4, NotFoundWords
  <2>5. CASE DropRow(a)
    BY <1>1, <2>5, DropRowWords
  <2> QED BY <1>3, <2>1, <2>2, <2>3, <2>4, <2>5 DEF Work
<1>4. ASSUME NEW a \in Action, Break(a) PROVE Worded(m)'
  BY <1>1, <1>4, BreakWords
<1>5. ASSUME NEW f \in Folder, Sync(f) PROVE Worded(m)'
  <2>1. UNCHANGED <<home, stuck, archived, actions, copies>>
    BY <1>5 DEF Sync, server, history
  <2>2. \A c \in Left(m)' : \E d \in Left(m) : c.keywords \subseteq d.keywords
    BY <2>1, LeftFewer DEF At
  <2> QED BY <1>1, <2>1, <2>2, SameWords
<1>6. ASSUME NEW f \in Folder, Renumber(f) PROVE Worded(m)'
  BY <1>1, <1>6, RenumberWords
<1>7. ASSUME NEW c \in copies, NEW to \in Folder, MoveElsewhere(c, to) PROVE Worded(m)'
  BY <1>1, <1>7, MoveElsewhereWords
<1>8. CASE Quit
  BY <1>1, <1>8 DEF Quit
<1>9. CASE UNCHANGED vars
  <2>1. UNCHANGED <<home, stuck, archived, actions, copies>>
    BY <1>9 DEF vars, server, history
  <2>2. \A c \in Left(m)' : \E d \in Left(m) : c.keywords \subseteq d.keywords
    BY <2>1, LeftFewer DEF At
  <2> QED BY <1>1, <2>1, <2>2, SameWords
<1> QED BY <1>2, <1>3, <1>4, <1>5, <1>6, <1>7, <1>8, <1>9 DEF Next

LEMMA InitWords == Init => Words
<1> SUFFICES ASSUME Init, NEW m \in Msg, NEW c \in Left(m)
             PROVE  c.keywords \ (home[m].keywords \cup stuck[m]) = {}
  BY DEF Words, Worded
<1> DEFINE uid == CHOOSE h \in [Msg -> 1..Cardinality(Msg)] : IsInjective(h)
<1>1. copies = {[msg |-> n, folder |-> home[n].folder, uid |-> uid[n],
                 keywords |-> home[n].keywords] : n \in Msg}
  BY DEF Init
<1> HIDE DEF uid
<1>2. c \in copies /\ c.msg = m
  BY DEF Left
<1>3. PICK n \in Msg : c = [msg |-> n, folder |-> home[n].folder, uid |-> uid[n],
                            keywords |-> home[n].keywords]
  BY <1>1, <1>2
<1>4. c.keywords = home[m].keywords
  BY <1>2, <1>3
<1> QED BY <1>4

\* So it is in every state.
LEMMA WordsStand == Spec => []Words
<1>1. Init => Words
  BY InitWords
<1>2. (MInv /\ LInv) /\ (MInv /\ LInv)' /\ RInv /\ Words /\ [Next]_vars => Words'
  BY WordsKept
<1> QED BY <1>1, <1>2, Invariant, Tracked, PTL DEF Spec

\* With nobody at work and no batch that has the message, it is where it was.
LEMMA ComesHome ==
  ASSUME MInv, RInv, Words, \A a \in Action : actions[a] = Idle,
         NEW m \in Msg, Vouched(m), \A i \in DOMAIN archived : m \notin MsgsOf(archived[i]),
         NEW c \in CopiesOf(m)
  PROVE  /\ c.folder = home[m].folder
         /\ c.keywords \subseteq home[m].keywords \cup stuck[m]
<1>1. actions = [a \in Action |-> Idle]
  <2>1. actions \in [Action -> GoodAct]
    BY DEF MInv, GoodActions
  <2> QED BY <2>1
<1>2. /\ \A a \in Action : ~Has(actions[a], m) /\ Of(Behind(actions[a]), m) = {}
      /\ \A f, g : ~Loose(m, f, g)
  BY <1>1, NobodyHas
<1>3. \A i \in 1..Len(archived) : Of(archived[i], m) = {}
  <2> SUFFICES ASSUME NEW i \in 1..Len(archived) PROVE Of(archived[i], m) = {}
    OBVIOUS
  <2>1. archived \in Seq(Seq(Task) \ {<<>>})
    BY DEF MInv, GoodActions
  <2>2. i \in DOMAIN archived /\ archived[i] \in Seq(Task)
    BY <2>1
  <2>3. \A j \in 1..Len(archived[i]) : archived[i][j].msg # m
    BY <2>2 DEF MsgsOf
  <2> QED BY <2>3 DEF Of
<1>4. /\ Idle.at = "idle" /\ Idle.op = "none"
      /\ \A a \in Action : actions[a].at = "idle" /\ actions[a].op = "none"
  BY DEF Idle
<1>5. c \in Left(m) /\ c \in copies
  BY <1>4 DEF Left, CopiesOf, At
<1>6. c.folder = home[m].folder
  <2>1. OnRoute(m, c.folder)
    BY <1>5 DEF RInv, Track, Way, Located
  <2>2. After(archived, m, Len(archived), c.folder)
    <3>1. c.folder \in Folder
      BY <1>5, CopyFields DEF MInv
    <3> QED BY <1>2, <2>1, <3>1 DEF OnRoute
  <2> QED BY <1>3, <2>2 DEF After, Took
<1>7. \A f, g : ~Owed(m, f, g)
  <2>1. \A f, g : ~OnStack(m, f, g)
    BY <1>3 DEF OnStack
  <2>2. ASSUME NEW a \in Action, NEW f, NEW g PROVE ~OwedIn(actions[a], m, f, g)
    BY <1>2, <1>4 DEF OwedIn
  <2> QED BY <2>1, <2>2 DEF Owed
<1>8. ~Tagging(m, "spam") /\ ~Tagging(m, "notSpam")
  BY <1>4 DEF Tagging
<1>9. /\ "$Junk" \notin c.keywords \ (home[m].keywords \cup stuck[m])
      /\ "$NotJunk" \notin c.keywords \ (home[m].keywords \cup stuck[m])
  BY <1>5, <1>7, <1>8 DEF Words, Worded, AsJunk, AsNotJunk
<1>10. c.keywords \subseteq Keyword
  <2>1. c \in Copy
    BY <1>5 DEF MInv, GoodServer
  <2> QED BY <2>1 DEF Copy
<1> QED BY <1>6, <1>9, <1>10 DEF Keyword

\* "Move the last one back to where it came from" (undoarchive.ts): with all that was
\* moved taken back, a message is where it was, under no keyword of a verdict that was
\* withdrawn but one that the undo could not take off.  It is about the messages that no
\* two actions had in hand at once and that nothing interfered with (moot, phantom).
THEOREM UndoGoesHome == Spec => []UndoneIsHome
<1>1. MInv /\ RInv /\ Words => UndoneIsHome
  BY ComesHome DEF UndoneIsHome, Vouched
<1> QED BY <1>1, Invariant, Tracked, WordsStand, PTL

-----------------------------------------------------------------------------
(* Marks *)

\* An action that has just moved nothing, and the others at rest.
Idles(a) ==
  /\ \A b \in Action \ {a} : actions'[b] = actions[b]
  /\ actions'[a].at \in Moved =>
       actions[a].at \in Moved /\ actions'[a].op = actions[a].op /\ Now(a)' = Now(a)

LEMMA StillMarked ==
  ASSUME UNCHANGED markedIn, moot \subseteq moot', phantom \subseteq phantom', Marks,
         NEW a \in Action, Idles(a)
  PROVE  Marks'
<1> SUFFICES ASSUME NEW b \in Action PROVE Marked(b)'
  BY DEF Marks
<1>1. CASE actions'[b].at \notin Moved
  BY <1>1 DEF Marked
<1>2. CASE actions'[b].at \in Moved
  <2>1. actions[b].at \in Moved /\ actions'[b].op = actions[b].op /\ Now(b)' = Now(b)
    <3>1. CASE b = a
      BY <1>2, <3>1 DEF Idles
    <3>2. CASE b # a
      BY <1>2, <3>2 DEF Idles, Now
    <3> QED BY <3>1, <3>2
  <2>2. Marked(b)
    BY DEF Marks
  <2> QED BY <2>1, <2>2 DEF Marked, Vouched
<1> QED BY <1>1, <1>2

LEMMA GoesIdles ==
  ASSUME GoodActions, NEW a \in Action, actions[a].at # "idle",
         NEW at \in {"read", "lock", "move", "remove", "drop", "note"}, Goes(a, at),
         at \in Moved => actions[a].at \in Moved
  PROVE  /\ Idles(a) /\ actions'[a].op = actions[a].op /\ actions'[a].at = at
         /\ Now(a)' = Now(a)
<1>1. /\ \A b \in Action \ {a} : actions'[b] = actions[b]
      /\ actions'[a].at = at /\ actions'[a].op = actions[a].op
      /\ actions'[a].todo = actions[a].todo
  BY GoesView
<1>2. Now(a)' = Now(a)
  BY <1>1 DEF Now
<1> QED BY <1>1, <1>2 DEF Idles

LEMMA FinishIdles ==
  ASSUME GoodActions, NEW a \in Action, actions[a].at # "idle",
         NEW done \in Seq(Task), Finish(a, done)
  PROVE  Idles(a)
<1>1. /\ \A b \in Action \ {a} : actions'[b] = actions[b]
      /\ actions'[a].at \in {"idle", "lock", "read"}
  BY FinishView DEF Idle
<1> QED BY <1>1 DEF Idles, Moved

LEMMA StartIdles ==
  ASSUME MInv, NEW a \in Action, User(a)
  PROVE  /\ Idles(a) /\ UNCHANGED <<markedIn, spamOrigins, unrecorded>>
         /\ ~Rewrites(actions[a])
<1>1. PICK op \in {"move", "spam", "notSpam", "undo"}, at \in {"read", "lock"}, tasks \in Seq(Task) :
        tasks # <<>> /\ Start(a, op, at, tasks)
  <2>1. ASSUME NEW to \in Folder, MoveRows(a, to)
        PROVE  \E tasks \in Seq(Task) : tasks # <<>> /\ Start(a, "move", "read", tasks)
    BY <2>1, MoveRowsStarts
  <2>2. ASSUME ToggleSpam(a)
        PROVE  \E op \in {"spam", "notSpam"}, tasks \in Seq(Task) :
                 tasks # <<>> /\ Start(a, op, "read", tasks)
    BY <2>2, ToggleSpamStarts
  <2>3. ASSUME UndoArchive(a)
        PROVE  \E tasks \in Seq(Task) : tasks # <<>> /\ Start(a, "undo", "lock", tasks)
    BY <2>3, UndoArchiveStarts
  <2> QED BY <2>1, <2>2, <2>3 DEF User
<1>2. /\ UNCHANGED store /\ actions[a] = Idle
      /\ \A b \in Action \ {a} : actions'[b] = actions[b]
      /\ actions'[a] = [op |-> op, at |-> at, todo |-> tasks, done |-> <<>>]
  BY <1>1, StartView DEF MInv
<1>3. UNCHANGED <<markedIn, unrecorded>>
  BY <1>1 DEF Start
<1>4. Idles(a)
  BY <1>2 DEF Idles, Moved
<1>5. ~Rewrites(actions[a])
  BY <1>2 DEF Rewrites, Idle, Moved
<1> QED BY <1>2, <1>3, <1>4, <1>5 DEF store

LEMMA GetMessageIdles ==
  ASSUME MInv, NEW a \in Action, GetMessage(a)
  PROVE  Idles(a)
<1>1. actions[a].at = "read" /\ actions[a].at # "idle"
  BY DEF GetMessage, At
<1>2. CASE Fails(a)
  BY <1>1, <1>2, DoneTasks, FinishIdles DEF Fails, MInv
<1>3. CASE actions' = [actions EXCEPT ![a].at = "lock",
                         ![a].todo = <<[Now(a) EXCEPT !.to = Destination(a)]>> \o Tail(@)]
  <2>1. actions \in [Action -> GoodAct]
    BY DEF MInv, GoodActions
  <2>2. PICK t : t = [Now(a) EXCEPT !.to = Destination(a)]
    OBVIOUS
  <2>3. actions' = [actions EXCEPT ![a].at = "lock", ![a].todo = <<t>> \o Tail(@)]
    BY <1>3, <2>2
  <2>4. /\ \A b \in Action \ {a} : actions'[b] = actions[b]
        /\ actions'[a].at = "lock"
    BY <2>1, <2>3 DEF GoodAct, Act
  <2> QED BY <2>4 DEF Idles, Moved
<1> QED BY <1>2, <1>3 DEF GetMessage

LEMMA SearchIdles ==
  ASSUME MInv, NEW a \in Action, Search(a)
  PROVE  /\ Idles(a) /\ actions'[a].op = "undo" /\ actions'[a].at = "move"
         /\ Now(a)'.msg = Now(a).msg /\ ~Rewrites(actions[a])
<1> DEFINE c == Newest(SearchByMessageID(Now(a)))
<1>1. actions[a].at = "lock" /\ actions[a].op = "undo"
  BY DEF Search, Lock, At
<1>2. Now(a) \in Task
  BY <1>1, ActAt DEF MInv
<1>3. c \in copies
  BY <1>2, SearchFinds DEF Search, MInv
<1> HIDE DEF c
<1>4. PICK u \in Task : u = [Now(a) EXCEPT !.uid = c.uid]
  <2>1. c.uid \in Nat
    BY <1>3, CopyFields DEF MInv
  <2> QED BY <1>2, <2>1, Found
<1>5. actions' = [actions EXCEPT ![a].at = "move", ![a].todo = <<u>> \o Tail(@)]
  BY <1>4 DEF Search, c
<1>6. /\ \A b \in Action \ {a} : actions'[b] = actions[b]
      /\ actions'[a].op = actions[a].op /\ actions'[a].at = "move"
      /\ Head(actions'[a].todo) = u
  BY <1>1, <1>5, PutView DEF MInv
<1>7. u.msg = Now(a).msg
  BY <1>2, <1>4 DEF Task
<1>8. Now(a)' = u
  BY <1>6 DEF Now
<1>9. ~Rewrites(actions[a])
  BY <1>1 DEF Rewrites
<1> QED BY <1>1, <1>6, <1>7, <1>8, <1>9 DEF Idles, Moved

\* The copy that a move names is of its message, or the uid was of another numbering.
LEMMA MovesItsOwn ==
  ASSUME MInv, NEW a \in Action, MoveMessage(a)
  PROVE  Stale(a) \/ \A c \in Named(Now(a)) : c.msg = Now(a).msg
<1>1. actions[a].at # "idle" /\ (actions[a].op = "undo" => actions[a].at \in Holding)
  BY MoveHeld
<1>2. Sound(Now(a))
  BY <1>1, ActAt DEF MInv
<1>3. Stale(a) \/ Names(Now(a))
  <2>1. CASE actions[a].op = "undo"
    BY <1>1, <2>1 DEF MInv, GoodActions
  <2>2. CASE actions[a].op # "undo"
    BY <1>2, <2>2 DEF Stale, Sound
  <2> QED BY <2>1, <2>2
<1> QED BY <1>3 DEF Names

\* What a move does to the marks.
LEMMA MoveMarks ==
  ASSUME MInv, NEW a \in Action, MoveMessage(a), NEW m \in Msg, Vouched(m)'
  PROVE  /\ \A b \in Action \ {a} : actions'[b] = actions[b]
         /\ actions'[a].at \in Moved /\ actions'[a].op = actions[a].op /\ Now(a)' = Now(a)
         /\ m # Now(a).msg => markedIn'[m] = markedIn[m]
         /\ m = Now(a).msg =>
              markedIn'[m] = IF actions[a].op = "spam" THEN Now(a).folder ELSE NoFolder
<1> DEFINE hit == Named(Now(a))
           msgs == {c.msg : c \in hit}
<1>1. /\ Noted(a, hit) /\ actions[a].at # "idle"
      /\ \E at \in {"remove", "drop"} : Goes(a, at)
  BY MoveHeld DEF MoveMessage
<1>2. /\ \A b \in Action \ {a} : actions'[b] = actions[b]
      /\ actions'[a].at \in Moved /\ actions'[a].op = actions[a].op
      /\ actions'[a].todo = actions[a].todo
  BY <1>1, GoesView DEF MInv, Moved
<1>3. Now(a)' = Now(a)
  BY <1>2 DEF Now
<1>4. markedIn'[m] = IF m \notin msgs THEN markedIn[m]
                     ELSE IF actions[a].op = "spam" THEN Now(a).folder ELSE NoFolder
  BY <1>1 DEF Noted
<1>5. CASE Stale(a)
  <2>1. m # Now(a).msg /\ m \notin msgs
    BY <1>1, <1>5 DEF Noted, Vouched
  <2> QED BY <1>2, <1>3, <1>4, <2>1
<1>6. CASE ~Stale(a)
  <2>1. \A c \in hit : c.msg = Now(a).msg
    BY <1>6, MovesItsOwn
  <2>2. m \in msgs => m = Now(a).msg
    BY <2>1
  <2>3. m = Now(a).msg => m \in msgs
    <3>1. m = Now(a).msg => hit # {}
      BY <1>1 DEF Noted, Vouched
    <3> QED BY <2>1, <3>1
  <2> QED BY <1>2, <1>3, <1>4, <2>2, <2>3
<1> QED BY <1>5, <1>6

LEMMA MoveMessageMarks ==
  ASSUME MInv, Track, Marks, moot \subseteq moot', phantom \subseteq phantom',
         NEW a \in Action, MoveMessage(a)
  PROVE  Marks'
<1> SUFFICES ASSUME NEW b \in Action, actions'[b].at \in Moved, Vouched(Now(b).msg)'
             PROVE  (markedIn[Now(b).msg] = IF actions[b].op = "spam" THEN Now(b).folder
                                                                      ELSE NoFolder)'
  BY DEF Marks, Marked
<1>1. actions[a].at # "idle"
  BY MoveHeld
<1>2. CASE b = a
  <2>1. Now(a)' = Now(a)
    <3>1. \E at \in {"remove", "drop"} : Goes(a, at)
      BY DEF MoveMessage
    <3>2. actions'[a].todo = actions[a].todo
      BY <1>1, <3>1, GoesView DEF MInv
    <3> QED BY <3>2 DEF Now
  <2>2. PICK m : m = Now(a).msg
    OBVIOUS
  <2>3. m \in Msg /\ Vouched(m)'
    <3>1. m \in Msg
      BY <1>1, <2>2, ActAt, TaskFields DEF MInv
    <3> QED BY <1>2, <2>1, <2>2, <3>1 DEF Vouched
  <2>4. /\ actions'[a].op = actions[a].op
        /\ markedIn'[m] = IF actions[a].op = "spam" THEN Now(a).folder ELSE NoFolder
    BY <2>2, <2>3, MoveMarks
  <2> QED BY <1>2, <2>1, <2>2, <2>4
<1>3. CASE b # a
  <2>1. actions'[b] = actions[b]
    <3>1. \E at \in {"remove", "drop"} : Goes(a, at)
      BY DEF MoveMessage
    <3> QED BY <1>1, <1>3, <3>1, GoesView DEF MInv
  <2>2. Now(b)' = Now(b) /\ actions[b].at # "idle" /\ actions[b].at \in Moved
    BY <2>1 DEF Now, Moved
  <2>3. PICK m : m = Now(b).msg
    OBVIOUS
  <2>4. m \in Msg
    BY <2>2, <2>3, ActAt, TaskFields DEF MInv
  <2>5. Vouched(m)' /\ Vouched(m)
    BY <2>2, <2>3, <2>4 DEF Vouched
  <2>6. m # Now(a).msg
    <3>1. Has(actions[b], m)
      BY <2>2, <2>3, NowHas DEF MInv
    <3>2. m = Now(a).msg => Has(actions[a], m)
      BY <1>1, NowHas DEF MInv
    <3> QED BY <1>3, <2>4, <2>5, <3>1, <3>2 DEF Track, Hands, OneHand
  <2>7. markedIn'[m] = markedIn[m]
    BY <2>4, <2>5, <2>6, MoveMarks
  <2>8. markedIn[m] = IF actions[b].op = "spam" THEN Now(b).folder ELSE NoFolder
    BY <2>2, <2>3, <2>5 DEF Marks, Marked
  <2> QED BY <2>1, <2>2, <2>3, <2>7, <2>8
<1> QED BY <1>2, <1>3

LEMMA MarksKept ==
  ASSUME MInv, MInv', RInv, Marks, [Next]_vars
  PROVE  Marks'
<1>1. moot \subseteq moot' /\ phantom \subseteq phantom'
  BY Grows DEF RInv
<1>2. ASSUME NEW a \in Action, User(a) PROVE Marks'
  BY <1>1, <1>2, StartIdles, StillMarked
<1>3. ASSUME NEW a \in Action, Work(a) PROVE Marks'
  <2>1. CASE MoveMessage(a)
    BY <1>1, <2>1, MoveMessageMarks DEF RInv
  <2>2. CASE ~MoveMessage(a)
    <3>1. UNCHANGED markedIn
      BY <1>3, <2>2 DEF Work, GetMessage, TagVerdict, Search, NotFound, DeleteMessages, DropRow,
                        NoteOrigin, history
    <3>2. Idles(a)
      <4>1. CASE GetMessage(a) \/ Search(a)
        BY <4>1, GetMessageIdles, SearchIdles
      <4>2. CASE TagVerdict(a) \/ DeleteMessages(a)
        <5>1. /\ actions[a].at # "idle"
              /\ Goes(a, "move") \/ (Goes(a, "drop") /\ actions[a].at \in Moved)
          BY <4>2 DEF TagVerdict, DeleteMessages, Lock, At, Moved
        <5> QED BY <5>1, GoesIdles DEF MInv, Moved
      <4>3. CASE NotFound(a) \/ NoteOrigin(a)
        <5>1. actions[a].at # "idle" /\ (Fails(a) \/ Succeeds(a))
          BY <4>3 DEF NotFound, NoteOrigin, At
        <5> QED BY <5>1, DoneTasks, FinishIdles DEF Fails, Succeeds, MInv
      <4>4. CASE DropRow(a)
        <5>1. /\ actions[a].at # "idle" /\ actions[a].at \in Moved
              /\ Fails(a) \/ Succeeds(a) \/ Goes(a, "note")
          BY <4>4 DEF DropRow, At, Moved
        <5>2. CASE Goes(a, "note")
          BY <5>1, <5>2, GoesIdles DEF MInv
        <5> QED BY <5>1, <5>2, DoneTasks, FinishIdles DEF Fails, Succeeds, MInv
      <4> QED BY <1>3, <2>2, <4>1, <4>2, <4>3, <4>4 DEF Work
    <3> QED BY <1>1, <3>1, <3>2, StillMarked
  <2> QED BY <2>1, <2>2
<1>4. ASSUME NEW a \in Action, Break(a) PROVE Marks'
  <2>1. actions[a].at # "idle" /\ Fails(a) /\ UNCHANGED markedIn
    BY <1>4 DEF Break
  <2>2. Idles(a)
    BY <2>1, DoneTasks, FinishIdles DEF Fails, MInv
  <2> QED BY <1>1, <2>1, <2>2, StillMarked
<1>5. ASSUME UNCHANGED actions, \A m \in Msg : Vouched(m)' => markedIn'[m] = markedIn[m]
      PROVE  Marks'
  <2> SUFFICES ASSUME NEW b \in Action, actions'[b].at \in Moved, Vouched(Now(b).msg)'
               PROVE  (markedIn[Now(b).msg] = IF actions[b].op = "spam" THEN Now(b).folder
                                                                        ELSE NoFolder)'
    BY DEF Marks, Marked
  <2>1. Now(b)' = Now(b) /\ actions'[b] = actions[b] /\ actions[b].at # "idle"
    BY <1>5 DEF Now, Moved
  <2>2. PICK m : m = Now(b).msg
    OBVIOUS
  <2>3. m \in Msg
    BY <2>1, <2>2, ActAt, TaskFields DEF MInv
  <2>4. Vouched(m)' /\ Vouched(m)
    BY <1>1, <2>1, <2>2, <2>3 DEF Vouched
  <2>5. markedIn[m] = IF actions[b].op = "spam" THEN Now(b).folder ELSE NoFolder
    BY <2>1, <2>2, <2>4 DEF Marks, Marked
  <2> QED BY <1>5, <2>1, <2>2, <2>3, <2>4, <2>5
<1>6. CASE (\E f \in Folder : Sync(f) \/ Renumber(f)) \/ UNCHANGED vars
  <2>1. UNCHANGED actions /\ UNCHANGED markedIn
    BY <1>6 DEF Sync, Renumber, vars, history
  <2> QED BY <1>5, <2>1
<1>7. ASSUME NEW c \in copies, NEW to \in Folder, MoveElsewhere(c, to) PROVE Marks'
  <2>1. UNCHANGED actions
    BY <1>7 DEF MoveElsewhere
  <2>2. markedIn \in [Msg -> Folder \cup {NoFolder}]
    BY DEF MInv, GoodHistory
  <2>3. \A m \in Msg : Vouched(m)' => markedIn'[m] = markedIn[m]
    BY <1>7, <2>2 DEF MoveElsewhere, Vouched
  <2> QED BY <1>5, <2>1, <2>3
<1>8. CASE Quit
  <2>1. \A b \in Action : actions'[b].at \notin Moved
    BY <1>8 DEF Quit, Idle, Moved
  <2> QED BY <2>1 DEF Marks, Marked
<1> QED BY <1>2, <1>3, <1>4, <1>6, <1>7, <1>8 DEF Next

-----------------------------------------------------------------------------
(* Origins *)

\* The message keeps its mark and its origin, and who is about to set that right stays.
LEMMA StillOrigin ==
  ASSUME NEW m, Origin(m), markedIn'[m] = markedIn[m], spamOrigins'[m] = spamOrigins[m],
         m \in unrecorded => m \in unrecorded', Marking(m) => Marking(m)'
  PROVE  Origin(m)'
BY DEF Origin

LEMMA StillMarking ==
  ASSUME NEW m, NEW a \in Action, \A b \in Action \ {a} : actions'[b] = actions[b],
         Now(a).msg = m /\ Rewrites(actions[a]) => Now(a)'.msg = m /\ Rewrites(actions'[a])
  PROVE  Marking(m) => Marking(m)'
<1> SUFFICES ASSUME NEW b \in Action, Now(b).msg = m, Rewrites(actions[b]) PROVE Marking(m)'
  BY DEF Marking
<1>1. Now(b)'.msg = m /\ Rewrites(actions'[b])
  <2>1. CASE b # a
    <3>1. actions'[b] = actions[b] /\ Now(b)' = Now(b)
      BY <2>1 DEF Now
    <3> QED BY <3>1
  <2> QED BY <2>1
<1> QED BY <1>1 DEF Marking

LEMMA MoveMessageOrigin ==
  ASSUME MInv, Aims, NEW a \in Action, MoveMessage(a), NEW m \in Msg, Vouched(m)', Origin(m)
  PROVE  Origin(m)'
<1>1. /\ \A b \in Action \ {a} : actions'[b] = actions[b]
      /\ actions'[a].at \in Moved /\ actions'[a].op = actions[a].op /\ Now(a)' = Now(a)
      /\ m # Now(a).msg => markedIn'[m] = markedIn[m]
      /\ m = Now(a).msg =>
           markedIn'[m] = IF actions[a].op = "spam" THEN Now(a).folder ELSE NoFolder
  BY MoveMarks
<1>2. spamOrigins' = spamOrigins /\ unrecorded' = unrecorded
  BY DEF MoveMessage, Noted, store
<1>3. CASE m # Now(a).msg
  <2>1. Marking(m) => Marking(m)'
    BY <1>1, <1>3, StillMarking
  <2> QED BY <1>1, <1>2, <1>3, <2>1, StillOrigin
<1>4. CASE m = Now(a).msg /\ actions[a].op = "spam"
  <2>1. actions[a].at \in {"lock", "move"}
    BY MoveHeld
  <2>2. Now(a).folder # Junk
    <3>1. PICK x \in GoodAct : x = actions[a] /\ Aimed(x)
      BY DEF MInv, GoodActions, Aims
    <3>2. PICK t \in Task : t = Now(a) /\ t = Head(x.todo)
      BY <2>1, <3>1, ActAt DEF MInv, Now
    <3>3. t \in Tasks(x.todo)
      <4>1. x.todo \in Seq(Task) /\ x.todo # <<>>
        BY <2>1, <3>1, ActAt DEF MInv
      <4> QED BY <3>2, <4>1, TasksOf
    <3> QED BY <1>4, <2>1, <3>1, <3>2, <3>3 DEF Aimed
  <2>3. Marking(m)'
    BY <1>1, <1>4 DEF Marking, Rewrites
  <2> QED BY <1>1, <1>4, <2>2, <2>3 DEF Origin
<1>5. CASE m = Now(a).msg /\ actions[a].op # "spam"
  BY <1>1, <1>5 DEF Origin
<1> QED BY <1>3, <1>4, <1>5

LEMMA SearchOrigin ==
  ASSUME MInv, NEW a \in Action, Search(a), NEW m \in Msg, Origin(m)
  PROVE  Origin(m)'
<1>1. /\ \A b \in Action \ {a} : actions'[b] = actions[b]
      /\ actions'[a].op = "undo" /\ actions'[a].at = "move"
      /\ Now(a)'.msg = Now(a).msg /\ ~Rewrites(actions[a])
  BY SearchIdles DEF Idles
<1>2. UNCHANGED <<markedIn, unrecorded>> /\ spamOrigins \in [Msg -> Folder \cup {NoFolder}]
  BY DEF Search, MInv, GoodStore
<1>3. CASE m = Now(a).msg
  <2>1. Marking(m)'
    BY <1>1, <1>3 DEF Marking, Rewrites
  <2> QED BY <1>2, <2>1 DEF Origin
<1>4. CASE m # Now(a).msg
  <2>1. spamOrigins'[m] = spamOrigins[m]
    <3>1. PICK n : n = Now(a).msg
      OBVIOUS
    <3>2. \/ spamOrigins' = [spamOrigins EXCEPT ![Now(a).msg] = NoFolder]
          \/ spamOrigins' = spamOrigins
      BY Zenon DEF Search
    <3>3. spamOrigins' = [spamOrigins EXCEPT ![n] = NoFolder] \/ spamOrigins' = spamOrigins
      BY <3>1, <3>2
    <3> QED BY <1>2, <1>4, <3>1, <3>3
  <2>2. Marking(m) => Marking(m)'
    BY <1>1, StillMarking
  <2> QED BY <1>2, <2>1, <2>2, StillOrigin
<1> QED BY <1>3, <1>4

LEMMA NoteOriginOrigin ==
  ASSUME MInv, Marks, NEW a \in Action, NoteOrigin(a), NEW m \in Msg, Vouched(m), Origin(m)
  PROVE  Origin(m)'
<1>1. /\ actions[a].at = "note" /\ actions[a].at # "idle" /\ Succeeds(a)
      /\ UNCHANGED markedIn
  BY DEF NoteOrigin, At
<1>2. \A b \in Action \ {a} : actions'[b] = actions[b]
  BY <1>1, DoneTasks, FinishIdles DEF Succeeds, MInv, Idles
<1>3. spamOrigins \in [Msg -> Folder \cup {NoFolder}]
  BY DEF MInv, GoodStore
<1>4. PICK n, f : n = Now(a).msg /\ f = Now(a).folder
  OBVIOUS
<1>5. \/ /\ spamOrigins' = [spamOrigins EXCEPT ![n] = IF actions[a].op = "spam" THEN f ELSE NoFolder]
         /\ unrecorded' = unrecorded \ {n}
      \/ /\ spamOrigins' = spamOrigins
         /\ unrecorded' = IF actions[a].op = "spam" THEN unrecorded \cup {n} ELSE unrecorded
  BY <1>4 DEF NoteOrigin
<1>6. CASE m = n
  <2>1. markedIn[m] = IF actions[a].op = "spam" THEN f ELSE NoFolder
    BY <1>1, <1>4, <1>6 DEF Marks, Marked, Moved
  <2>2. spamOrigins'[m] = markedIn'[m] \/ m \in unrecorded' \/ markedIn'[m] = NoFolder
    BY <1>1, <1>3, <1>5, <1>6, <2>1
  <2>3. markedIn[m] # NoFolder => markedIn[m] # Junk
    BY DEF Origin
  <2> QED BY <1>1, <2>2, <2>3 DEF Origin
<1>7. CASE m # n
  <2>1. spamOrigins'[m] = spamOrigins[m] /\ (m \in unrecorded => m \in unrecorded')
    BY <1>3, <1>5, <1>7
  <2>2. Marking(m) => Marking(m)'
    BY <1>2, <1>4, <1>7, StillMarking
  <2> QED BY <1>1, <2>1, <2>2, StillOrigin
<1> QED BY <1>6, <1>7

LEMMA DropRowOrigin ==
  ASSUME MInv, RowThere, NEW a \in Action, DropRow(a), NEW m, Vouched(m), Origin(m)
  PROVE  Origin(m)'
<1>1. /\ actions[a].at = "drop" /\ actions[a].at # "idle"
      /\ UNCHANGED <<markedIn, spamOrigins, unrecorded>>
  BY DEF DropRow, At, history
<1>2. Now(a).msg = m /\ actions[a].op = "spam" => Goes(a, "note")
  <2> SUFFICES ASSUME Now(a).msg = m, actions[a].op = "spam" PROVE Goes(a, "note")
    OBVIOUS
  <2>1. HasRow(a)
    BY <1>1 DEF RowThere, There
  <2> QED BY <2>1 DEF DropRow, HasRow
<1>3. Fails(a) \/ Succeeds(a) \/ Goes(a, "note")
  BY DEF DropRow
<1>4. Idles(a)
  <2>1. CASE Goes(a, "note")
    BY <1>1, <2>1, GoesIdles DEF MInv, Moved
  <2> QED BY <1>1, <1>3, <2>1, DoneTasks, FinishIdles DEF Fails, Succeeds, MInv
<1>5. Now(a).msg = m /\ Rewrites(actions[a]) => Now(a)'.msg = m /\ Rewrites(actions'[a])
  <2> SUFFICES ASSUME Now(a).msg = m, Rewrites(actions[a])
               PROVE  Now(a)'.msg = m /\ Rewrites(actions'[a])
    OBVIOUS
  <2>1. actions[a].op = "spam" /\ Goes(a, "note")
    BY <1>1, <1>2 DEF Rewrites
  <2>2. actions'[a].op = actions[a].op /\ actions'[a].at = "note" /\ Now(a)' = Now(a)
    BY <1>1, <2>1, GoesIdles DEF MInv, Moved
  <2> QED BY <2>1, <2>2 DEF Rewrites, Moved
<1>6. Marking(m) => Marking(m)'
  BY <1>4, <1>5, StillMarking DEF Idles
<1> QED BY <1>1, <1>6, StillOrigin

\* The rest of what an action does, with nothing to set right before or after.
LEMMA WorkOrigin ==
  ASSUME MInv, NEW a \in Action, NEW m, Origin(m),
         GetMessage(a) \/ TagVerdict(a) \/ NotFound(a) \/ DeleteMessages(a)
  PROVE  Origin(m)'
<1>1. UNCHANGED <<markedIn, spamOrigins, unrecorded>>
  BY DEF GetMessage, TagVerdict, NotFound, DeleteMessages, store, history
<1>2. CASE DeleteMessages(a)
  <2>1. actions[a].at = "remove" /\ actions[a].at # "idle" /\ Goes(a, "drop")
    BY <1>2 DEF DeleteMessages, At
  <2>2. /\ Idles(a) /\ actions'[a].op = actions[a].op /\ actions'[a].at = "drop"
        /\ Now(a)' = Now(a)
    BY <2>1, GoesIdles DEF MInv, Moved
  <2>3. Rewrites(actions[a]) => Rewrites(actions'[a])
    BY <2>1, <2>2 DEF Rewrites, Moved
  <2>4. Marking(m) => Marking(m)'
    BY <2>2, <2>3, StillMarking DEF Idles
  <2> QED BY <1>1, <2>4, StillOrigin
<1>3. CASE ~DeleteMessages(a)
  <2>1. ~Rewrites(actions[a]) /\ actions[a].at # "idle"
    BY <1>3 DEF GetMessage, TagVerdict, NotFound, At, Lock, Rewrites, Moved
  <2>2. Idles(a)
    <3>1. CASE GetMessage(a)
      BY <3>1, GetMessageIdles
    <3>2. CASE TagVerdict(a)
      BY <2>1, <3>2, GoesIdles DEF TagVerdict, MInv, Moved
    <3>3. CASE NotFound(a)
      BY <2>1, <3>3, DoneTasks, FinishIdles DEF NotFound, Fails, MInv
    <3> QED BY <1>3, <3>1, <3>2, <3>3
  <2>3. Marking(m) => Marking(m)'
    BY <2>1, <2>2, StillMarking DEF Idles
  <2> QED BY <1>1, <2>3, StillOrigin
<1> QED BY <1>2, <1>3

LEMMA OriginsKept ==
  ASSUME MInv, MInv', RInv, Marks, Origins, [Next]_vars
  PROVE  Origins'
<1> SUFFICES ASSUME NEW m \in Msg, Vouched(m)' PROVE Origin(m)'
  BY DEF Origins
<1>1. Vouched(m) /\ Origin(m) /\ m \notin moot' /\ Aims /\ RowThere
  <2>1. Vouched(m)
    BY Grows DEF Vouched, RInv
  <2> QED BY <2>1 DEF Origins, RInv, Vouched
<1>2. ASSUME NEW a \in Action, User(a) PROVE Origin(m)'
  <2>1. Idles(a) /\ UNCHANGED <<markedIn, spamOrigins, unrecorded>> /\ ~Rewrites(actions[a])
    BY <1>2, StartIdles
  <2>2. Marking(m) => Marking(m)'
    BY <2>1, StillMarking DEF Idles
  <2> QED BY <1>1, <2>1, <2>2, StillOrigin
<1>3. ASSUME NEW a \in Action, Work(a) PROVE Origin(m)'
  BY <1>1, <1>3, WorkOrigin, SearchOrigin, MoveMessageOrigin, DropRowOrigin, NoteOriginOrigin
     DEF Work
<1>4. ASSUME NEW a \in Action, Break(a) PROVE Origin(m)'
  <2>1. actions[a].at # "idle" /\ Fails(a) /\ UNCHANGED <<markedIn, spamOrigins, unrecorded>>
    BY <1>4 DEF Break, store
  <2>2. Idles(a)
    BY <2>1, DoneTasks, FinishIdles DEF Fails, MInv
  <2>3. Now(a).msg # m
    BY <1>1, <1>4 DEF Break
  <2>4. Marking(m) => Marking(m)'
    BY <2>2, <2>3, StillMarking DEF Idles
  <2> QED BY <1>1, <2>1, <2>4, StillOrigin
<1>5. ASSUME UNCHANGED <<actions, spamOrigins, unrecorded>>, markedIn'[m] = markedIn[m]
      PROVE  Origin(m)'
  <2>1. Marking(m) => Marking(m)'
    BY <1>5 DEF Marking, Now
  <2> QED BY <1>1, <1>5, <2>1, StillOrigin
<1>6. CASE (\E f \in Folder : Sync(f) \/ Renumber(f)) \/ UNCHANGED vars
  <2>1. UNCHANGED <<actions, spamOrigins, markedIn, unrecorded>>
    BY <1>6 DEF Sync, Renumber, vars, store, history
  <2> QED BY <1>5, <2>1
<1>7. ASSUME NEW c \in copies, NEW to \in Folder, MoveElsewhere(c, to) PROVE Origin(m)'
  <2>1. UNCHANGED <<actions, spamOrigins, unrecorded>>
    BY <1>7 DEF MoveElsewhere, store
  <2>2. markedIn \in [Msg -> Folder \cup {NoFolder}]
    BY DEF MInv, GoodHistory
  <2>3. markedIn'[m] = markedIn[m]
    BY <1>1, <1>7, <2>2 DEF MoveElsewhere
  <2> QED BY <1>5, <2>1, <2>3
<1>8. CASE Quit
  BY <1>1, <1>8 DEF Quit
<1> QED BY <1>2, <1>3, <1>4, <1>6, <1>7, <1>8 DEF Next

\* A message in Junk has its origin on record, or someone is about to put it there.
LEMMA OriginsStand == Spec => [](Marks /\ Origins)
<1>1. Init => Marks /\ Origins
  <2> SUFFICES ASSUME Init PROVE Marks /\ Origins
    OBVIOUS
  <2>1. \A a \in Action : actions[a].at = "idle"
    BY DEF Init, Idle
  <2>2. \A m \in Msg : markedIn[m] = NoFolder
    BY DEF Init
  <2> QED BY <2>1, <2>2 DEF Marks, Marked, Moved, Origins, Origin
<1>2. MInv /\ LInv /\ (MInv /\ LInv)' /\ RInv /\ Marks /\ Origins /\ [Next]_vars => (Marks /\ Origins)'
  BY MarksKept, OriginsKept
<1> QED BY <1>1, <1>2, Invariant, Tracked, PTL DEF Spec

\* "The folder it was marked as spam from when that was recorded here" (MarkNotSpam):
\* with nothing under way that folder is on record for a message that was marked and is
\* in Junk since, although it is put on record after syncMu is free, and taken off it by
\* an undo before the message has moved.  It is about the messages whose record did not
\* fail (unrecorded), that no two actions had in hand at once and that nothing interfered
\* with (moot, phantom).
THEOREM OriginKept == Spec => []OriginRemembered
<1>1. MInv /\ Origins => OriginRemembered
  <2> SUFFICES ASSUME MInv, Origins, \A a \in Action : actions[a] = Idle,
                      NEW m \in Msg, Vouched(m), m \notin unrecorded, markedIn[m] # NoFolder
               PROVE  NotSpamDestination(m) = markedIn[m]
    BY DEF OriginRemembered, Vouched
  <2>1. ~Marking(m)
    BY DEF Marking, Rewrites, Idle, Moved
  <2>2. spamOrigins[m] = markedIn[m] /\ markedIn[m] # Junk
    BY <2>1 DEF Origins, Origin
  <2>3. markedIn[m] \in Folder
    BY DEF MInv, GoodHistory
  <2> QED BY <2>2, <2>3 DEF NotSpamDestination
<1> QED BY <1>1, Invariant, Tracked, OriginsStand, PTL

=============================================================================
