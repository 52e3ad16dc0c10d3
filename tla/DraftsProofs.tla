----------------------------- MODULE DraftsProofs -----------------------------
(***************************************************************************)
(* Proofs about DraftsFolder, for any number of drafts, sessions, faults   *)
(* and other clients' marks, on every kind of server: its types, and that  *)
(* a draft put on the server is never without a copy until somebody asks   *)
(* for its removal; and about Drafts, for any number of panes, clicks and  *)
(* failures, patient users and others: its types, and that it does nothing *)
(* to the server's folder but what DraftsFolder does, so that what is      *)
(* proved of that folder holds of the whole.  Of patient users, that a     *)
(* message makes one draft, that a pane which closes without asking has    *)
(* nothing unsaved, that what was sent is no draft any more, and that no   *)
(* copy stays on the server that is not one of an unsealed draft.          *)
(***************************************************************************)
EXTENDS Drafts, FiniteSetTheorems, SequenceTheorems, NaturalLemmas, TLAPS

-----------------------------------------------------------------------------
(* The folder *)

\* A session that deletes its targets.
Deleting(j) == jobs[j].at \in {"search", "lift", "mark", "expunge", "restore"}

\* No uid is known before it was given out, and drafts come after other mail.
UidsInUse ==
  /\ FirstUid <= nextUid
  /\ \A l \in Link : \A u \in copies[l] : FirstUid <= u /\ u < nextUid
  /\ \A u \in marked : u < nextUid
  /\ \A j \in Job : /\ jobs[j].new < nextUid
                    /\ \A u \in jobs[j].targets \cup jobs[j].foreign : u < nextUid

ActiveLink == \A j \in Job : jobs[j].at # "idle" => jobs[j].link \in Link

\* A copy belongs to one draft, and a session is after copies of its own.
OwnCopies ==
  /\ \A l, m \in Link : l # m => copies[l] \cap copies[m] = {}
  /\ \A j \in Job, l \in Link : jobs[j].link # l => jobs[j].targets \cap copies[l] = {}

\* A copy that a session did not find came after all it found.
FoundOlder ==
  \A j \in Job : jobs[j].at \in {"append", "look"} =>
    \A u \in copies[jobs[j].link] \ jobs[j].targets : \A t \in jobs[j].targets : t < u

NewIsNewer ==
  \A j \in Job :
    /\ jobs[j].at = "look"
    /\ jobs[j].new # 0 /\ jobs[j].new \notin jobs[j].targets
    => \A t \in jobs[j].targets : t < jobs[j].new

\* A session is not after a copy of a draft, and will not be.
Spares(j, l, c) ==
  /\ c \notin jobs[j].foreign
  /\ Deleting(j) => c \notin jobs[j].targets
  /\ jobs[j].link = l /\ jobs[j].at = "look" => jobs[j].new <= c

\* The newest copy of a draft, which every session spares.
SafeCopy(l, c) ==
  /\ c \in copies[l] /\ \A u \in copies[l] : u <= c
  /\ c \notin marked
  /\ \A j \in Job : Spares(j, l, c)

NewestIsSafe == \A l \in stored : ~Removing(l) /\ \E c \in copies[l] : SafeCopy(l, c)

Types == FolderTypeOK /\ ActiveLink

Uids == UidsInUse /\ OwnCopies /\ FoundOlder /\ NewIsNewer

IInv == Types /\ Uids /\ NewestIsSafe

-----------------------------------------------------------------------------
(* Types *)

USE FolderAssumption DEF history

Step == {"find", "append", "look", "search", "lift", "mark", "expunge", "restore", "done"}

\* What no step of a session changes.
Onward(j) ==
  /\ \A k \in Job \ {j} : jobs'[k] = jobs[k]
  /\ jobs'[j].link = jobs[j].link /\ jobs'[j].op = jobs[j].op

\* A session goes on.
LEMMA AtStep ==
  ASSUME jobs \in [Job -> Session], NEW j \in Job, NEW at \in Step,
         jobs' = [jobs EXCEPT ![j].at = at]
  PROVE  /\ jobs' \in [Job -> Session] /\ Onward(j)
         /\ jobs'[j].at = at /\ jobs'[j].targets = jobs[j].targets
         /\ jobs'[j].new = jobs[j].new /\ jobs'[j].foreign = jobs[j].foreign
BY DEF Step, Session, Onward

\* It goes on and knows that something failed.
LEMMA FailStep ==
  ASSUME jobs \in [Job -> Session], NEW j \in Job, NEW at \in Step,
         jobs' = [jobs EXCEPT ![j].at = at, ![j].failed = TRUE]
  PROVE  /\ jobs' \in [Job -> Session] /\ Onward(j)
         /\ jobs'[j].at = at /\ jobs'[j].targets = jobs[j].targets
         /\ jobs'[j].new = jobs[j].new /\ jobs'[j].foreign = jobs[j].foreign
BY ZenonT(40) DEF Step, Session, Onward

\* It has found what is to be deleted.
LEMMA TargetsStep ==
  ASSUME jobs \in [Job -> Session], NEW j \in Job, NEW at \in Step, NEW found \in SUBSET Nat,
         jobs' = [jobs EXCEPT ![j].targets = found, ![j].at = at]
  PROVE  /\ jobs' \in [Job -> Session] /\ Onward(j)
         /\ jobs'[j].at = at /\ jobs'[j].targets = found
         /\ jobs'[j].new = jobs[j].new /\ jobs'[j].foreign = jobs[j].foreign
BY ZenonT(40) DEF Step, Session, Onward

\* It has appended.
LEMMA NewStep ==
  ASSUME jobs \in [Job -> Session], NEW j \in Job, NEW at \in Step, NEW uid \in Nat,
         jobs' = [jobs EXCEPT ![j].at = at, ![j].new = uid]
  PROVE  /\ jobs' \in [Job -> Session] /\ Onward(j)
         /\ jobs'[j].at = at /\ jobs'[j].targets = jobs[j].targets
         /\ jobs'[j].new = uid /\ jobs'[j].foreign = jobs[j].foreign
BY ZenonT(40) DEF Step, Session, Onward

\* It has found the marks of others.
LEMMA ForeignStep ==
  ASSUME jobs \in [Job -> Session], NEW j \in Job, NEW at \in Step, NEW foreign \in SUBSET Nat,
         jobs' = [jobs EXCEPT ![j].foreign = foreign, ![j].at = at]
  PROVE  /\ jobs' \in [Job -> Session] /\ Onward(j)
         /\ jobs'[j].at = at /\ jobs'[j].targets = jobs[j].targets
         /\ jobs'[j].new = jobs[j].new /\ jobs'[j].foreign = foreign
BY ZenonT(40) DEF Step, Session, Onward

LEMMA IdleSession ==
  /\ Idle \in Session
  /\ Idle.at = "idle" /\ Idle.link = NoLink
  /\ Idle.targets = {} /\ Idle.foreign = {} /\ Idle.new = 0
BY DEF Idle, Open, Session

LEMMA InitTypes == FolderInit => Types
<1> SUFFICES ASSUME FolderInit PROVE Types
  OBVIOUS
<1>1. jobs \in [Job -> Session] /\ ActiveLink
  BY IdleSession DEF FolderInit, ActiveLink
<1>2. copies \in [Link -> SUBSET Nat] /\ nextUid \in Nat /\ faults \in 0..Faults
  BY DEF FolderInit
<1> QED BY <1>1, <1>2 DEF FolderInit, FolderTypeOK, Types

-----------------------------------------------------------------------------
(* What each command does to its session *)

LEMMA FindEffect ==
  ASSUME Types, NEW j \in Job, Find(j)
  PROVE  /\ jobs' \in [Job -> Session] /\ Onward(j)
         /\ jobs[j].at = "find" /\ jobs[j].link \in Link
         /\ jobs'[j].targets = copies[jobs[j].link]
         /\ jobs'[j].new = jobs[j].new /\ jobs'[j].foreign = jobs[j].foreign
         /\ jobs'[j].at \in {"append", "done", "mark", "search"}
         /\ jobs[j].op = "replace" => jobs'[j].at = "append"
         /\ jobs[j].op # "replace" => jobs'[j].at # "append"
<1> DEFINE found == copies[jobs[j].link]
           at == IF jobs[j].op = "replace" THEN "append" ELSE Deletion(found)
<1>1. jobs' = [jobs EXCEPT ![j].targets = found, ![j].at = at] /\ jobs[j].at = "find"
  BY DEF Find
<1>2. jobs \in [Job -> Session] /\ jobs[j].link \in Link
  BY <1>1 DEF Types, ActiveLink, FolderTypeOK
<1>3. found \in SUBSET Nat
  BY <1>2 DEF Types, FolderTypeOK
<1>4. /\ at \in {"append", "done", "mark", "search"}
      /\ jobs[j].op = "replace" => at = "append"
      /\ jobs[j].op # "replace" => at # "append"
  BY DEF Deletion
<1>5. at \in Step
  BY <1>4 DEF Step
<1> HIDE DEF found, at
<1>6. /\ jobs' \in [Job -> Session] /\ Onward(j)
      /\ jobs'[j].at = at /\ jobs'[j].targets = found
      /\ jobs'[j].new = jobs[j].new /\ jobs'[j].foreign = jobs[j].foreign
  BY <1>1, <1>2, <1>3, <1>5, TargetsStep
<1> QED BY <1>1, <1>2, <1>4, <1>6 DEF found

\* The copy it leaves its uid of may be an old one, on a server that keeps one.
LEMMA AppendEffect ==
  ASSUME Types, NEW j \in Job, AppendCopy(j)
  PROVE  /\ jobs' \in [Job -> Session] /\ Onward(j)
         /\ jobs[j].at = "append" /\ jobs[j].link \in Link /\ jobs'[j].at = "look"
         /\ jobs'[j].targets = jobs[j].targets /\ jobs'[j].foreign = jobs[j].foreign
         /\ \/ /\ jobs'[j].new \in copies[jobs[j].link] \cup {0}
               /\ UNCHANGED <<copies, nextUid, stored>>
            \/ /\ jobs'[j].new \in {nextUid, 0}
               /\ copies' = [copies EXCEPT ![jobs[j].link] = @ \cup {nextUid}]
               /\ nextUid' = nextUid + 1
               /\ stored' = IF Removing(jobs[j].link) THEN stored ELSE stored \cup {jobs[j].link}
<1> DEFINE l == jobs[j].link
<1>1. jobs[j].at = "append"
  BY DEF AppendCopy
<1>2. jobs \in [Job -> Session] /\ l \in Link /\ copies[l] \subseteq Nat /\ nextUid \in Nat
  BY <1>1 DEF Types, ActiveLink, FolderTypeOK
<1>3. ASSUME NEW uid \in Nat, jobs' = [jobs EXCEPT ![j].at = "look", ![j].new = Told(uid)]
      PROVE  /\ jobs' \in [Job -> Session] /\ Onward(j)
             /\ jobs'[j].at = "look" /\ jobs'[j].new \in {uid, 0}
             /\ jobs'[j].targets = jobs[j].targets /\ jobs'[j].foreign = jobs[j].foreign
  <2>1. Told(uid) \in Nat /\ Told(uid) \in {uid, 0} /\ "look" \in Step
    BY DEF Told, Step
  <2> QED BY ZenonT(40), <1>2, <1>3, <2>1, NewStep
<1>4. CASE server.oneCopy /\ copies[l] # {}
  <2>1. UNCHANGED <<copies, nextUid, stored>>
    BY <1>4 DEF AppendCopy
  <2>2. PICK uid \in copies[l] : jobs' = [jobs EXCEPT ![j].at = "look", ![j].new = Told(uid)]
    BY <1>4 DEF AppendCopy
  <2> QED BY <1>1, <1>2, <1>3, <2>1, <2>2
<1>5. CASE ~(server.oneCopy /\ copies[l] # {})
  <2>1. /\ jobs' = [jobs EXCEPT ![j].at = "look", ![j].new = Told(nextUid)]
        /\ copies' = [copies EXCEPT ![l] = @ \cup {nextUid}]
        /\ nextUid' = nextUid + 1
        /\ stored' = IF Removing(l) THEN stored ELSE stored \cup {l}
    BY <1>5 DEF AppendCopy
  <2> QED BY <1>1, <1>2, <1>3, <2>1
<1> QED BY <1>4, <1>5

LEMMA LookEffect ==
  ASSUME Types, NEW j \in Job, Look(j)
  PROVE  /\ jobs' \in [Job -> Session] /\ Onward(j)
         /\ jobs[j].at = "look" /\ jobs[j].link \in Link
         /\ jobs'[j].targets = jobs[j].targets /\ jobs'[j].foreign = jobs[j].foreign
         /\ jobs'[j].new = jobs[j].new
         /\ jobs'[j].at \in {"done", "mark", "search"}
         /\ jobs'[j].at # "done" => DistinctCopy(j)
<1> DEFINE at == IF DistinctCopy(j) THEN Deletion(jobs[j].targets) ELSE "done"
<1>1. jobs' = [jobs EXCEPT ![j].at = at] /\ jobs[j].at = "look"
  BY DEF Look
<1>2. at \in {"done", "mark", "search"} /\ (at # "done" => DistinctCopy(j))
  BY DEF Deletion
<1>3. jobs \in [Job -> Session] /\ jobs[j].link \in Link
  BY <1>1 DEF Types, ActiveLink, FolderTypeOK
<1> HIDE DEF at
<1>4. at \in Step
  BY <1>2 DEF Step
<1> QED BY <1>1, <1>2, <1>3, <1>4, AtStep

LEMMA SearchEffect ==
  ASSUME Types, NEW j \in Job, Search(j)
  PROVE  /\ jobs' \in [Job -> Session] /\ Onward(j)
         /\ jobs[j].at = "search" /\ jobs[j].link \in Link
         /\ jobs'[j].targets = jobs[j].targets /\ jobs'[j].new = jobs[j].new
         /\ jobs'[j].foreign \subseteq marked
         /\ jobs'[j].at \in {"mark", "lift"}
<1> DEFINE foreign == (marked \cap Mail) \ jobs[j].targets
           at == IF foreign = {} THEN "mark" ELSE "lift"
<1>1. jobs' = [jobs EXCEPT ![j].foreign = foreign, ![j].at = at] /\ jobs[j].at = "search"
  BY DEF Search
<1>2. foreign \subseteq marked /\ at \in {"mark", "lift"}
  OBVIOUS
<1>3. jobs \in [Job -> Session] /\ jobs[j].link \in Link /\ marked \subseteq Nat
  BY <1>1 DEF Types, ActiveLink, FolderTypeOK
<1> HIDE DEF at, foreign
<1>4. at \in Step /\ foreign \in SUBSET Nat
  BY <1>2, <1>3 DEF Step
<1>5. /\ jobs' \in [Job -> Session] /\ Onward(j)
      /\ jobs'[j].at = at /\ jobs'[j].targets = jobs[j].targets
      /\ jobs'[j].new = jobs[j].new /\ jobs'[j].foreign = foreign
  BY ZenonT(40), <1>1, <1>3, <1>4, ForeignStep
<1> QED BY <1>1, <1>2, <1>3, <1>5

\* The steps of a deletion after its search.
LEMMA DeletionEffect ==
  ASSUME Types, NEW j \in Job, Lift(j) \/ Mark(j) \/ Expunge(j) \/ Restore(j)
  PROVE  /\ jobs' \in [Job -> Session] /\ Onward(j)
         /\ Deleting(j) /\ jobs[j].link \in Link
         /\ jobs'[j].targets = jobs[j].targets /\ jobs'[j].new = jobs[j].new
         /\ jobs'[j].foreign = jobs[j].foreign
         /\ jobs'[j].at \in {"mark", "expunge", "restore", "done"}
<1>1. PICK at \in {"mark", "expunge", "restore", "done"} : jobs' = [jobs EXCEPT ![j].at = at]
  <2>1. CASE Lift(j)
    BY <2>1 DEF Lift
  <2>2. CASE Mark(j)
    BY <2>2 DEF Mark
  <2>3. CASE Expunge(j)
    <3> DEFINE at == IF jobs[j].foreign = {} THEN "done" ELSE "restore"
    <3>1. jobs' = [jobs EXCEPT ![j].at = at]
      BY <2>3 DEF Expunge
    <3> QED BY <3>1
  <2>4. CASE Restore(j)
    BY <2>4 DEF Restore
  <2> QED BY <2>1, <2>2, <2>3, <2>4
<1>2. Deleting(j)
  BY DEF Lift, Mark, Expunge, Restore, Deleting
<1>3. jobs \in [Job -> Session] /\ jobs[j].link \in Link
  BY <1>2 DEF Types, ActiveLink, FolderTypeOK, Deleting
<1>4. at \in Step
  BY DEF Step
<1> QED BY <1>1, <1>2, <1>3, <1>4, AtStep

LEMMA BreakEffect ==
  ASSUME Types, NEW j \in Job, Break(j)
  PROVE  /\ jobs' \in [Job -> Session] /\ Onward(j)
         /\ jobs[j].at # "idle" /\ jobs[j].link \in Link
         /\ jobs'[j].targets = jobs[j].targets /\ jobs'[j].new = jobs[j].new
         /\ jobs'[j].foreign = jobs[j].foreign
         /\ jobs'[j].at \in {"restore", "done"}
         /\ jobs'[j].at = "restore" => Deleting(j)
<1>1. jobs[j].at # "idle"
  BY DEF Break
<1>2. jobs \in [Job -> Session] /\ jobs[j].link \in Link
  BY <1>1 DEF Types, ActiveLink, FolderTypeOK
<1>3. PICK at \in {"restore", "done"} :
        jobs' = [jobs EXCEPT ![j].at = at, ![j].failed = TRUE] /\ (at = "restore" => Deleting(j))
  BY DEF Break, Deleting
<1>4. at \in Step
  BY DEF Step
<1> QED BY <1>1, <1>2, <1>3, <1>4, FailStep

LEMMA BeginEffect ==
  ASSUME Types, NEW j \in Job, NEW op \in {"replace", "remove"}, NEW l \in Link, Begin(j, op, l)
  PROVE  /\ jobs' \in [Job -> Session]
         /\ \A k \in Job \ {j} : jobs'[k] = jobs[k]
         /\ jobs[j].at = "idle"
         /\ jobs'[j].at = "find" /\ jobs'[j].op = op /\ jobs'[j].link = l
         /\ jobs'[j].targets = {} /\ jobs'[j].foreign = {} /\ jobs'[j].new = 0
<1>1. Open(op, l) \in Session
  BY DEF Open, Session
<1> QED BY <1>1 DEF Begin, Types, FolderTypeOK, Open

LEMMA RestEffect ==
  ASSUME Types, NEW j \in Job, Free(j)
  PROVE  /\ jobs' \in [Job -> Session]
         /\ \A k \in Job \ {j} : jobs'[k] = jobs[k]
         /\ jobs'[j] = Idle
BY IdleSession DEF Free, Types, FolderTypeOK

-----------------------------------------------------------------------------
(* Types, kept *)

\* The part of Types that is about one session.
LEMMA SessionTypes ==
  ASSUME Types, NEW j \in Job, jobs' \in [Job -> Session],
         \A k \in Job \ {j} : jobs'[k] = jobs[k],
         jobs'[j].at # "idle" => jobs'[j].link \in Link
  PROVE  jobs' \in [Job -> Session] /\ ActiveLink'
BY DEF Types, ActiveLink

LEMMA NextTypes == Types /\ [FolderNext]_folderVars => Types'
<1> SUFFICES ASSUME Types, [FolderNext]_folderVars PROVE Types'
  OBVIOUS
<1>1. ASSUME NEW j \in Job, NEW op \in {"replace", "remove"}, NEW l \in Link, Begin(j, op, l)
      PROVE  Types'
  <2>1. jobs' \in [Job -> Session] /\ ActiveLink'
    BY <1>1, BeginEffect, SessionTypes
  <2> QED BY <1>1, <2>1 DEF Begin, Types, FolderTypeOK
<1>2. ASSUME NEW j \in Job, Find(j) PROVE Types'
  <2>1. jobs' \in [Job -> Session] /\ ActiveLink'
    BY <1>2, FindEffect, SessionTypes DEF Onward
  <2> QED BY <1>2, <2>1 DEF Find, Types, FolderTypeOK
<1>3. ASSUME NEW j \in Job, AppendCopy(j) PROVE Types'
  <2>1. jobs' \in [Job -> Session] /\ ActiveLink'
    BY <1>3, AppendEffect, SessionTypes DEF Onward
  <2>2. /\ jobs[j].link \in Link
        /\ \/ UNCHANGED <<copies, nextUid, stored>>
           \/ /\ copies' = [copies EXCEPT ![jobs[j].link] = @ \cup {nextUid}]
              /\ nextUid' = nextUid + 1
              /\ stored' = IF Removing(jobs[j].link) THEN stored ELSE stored \cup {jobs[j].link}
    BY <1>3, AppendEffect
  <2>3. copies' \in [Link -> SUBSET Nat] /\ nextUid' \in Nat /\ stored' \subseteq Link
    BY <2>2 DEF Types, FolderTypeOK
  <2> QED BY <1>3, <2>1, <2>3 DEF AppendCopy, Types, FolderTypeOK
<1>4. ASSUME NEW j \in Job, Look(j) PROVE Types'
  <2>1. jobs' \in [Job -> Session] /\ ActiveLink'
    BY <1>4, LookEffect, SessionTypes DEF Onward
  <2> QED BY <1>4, <2>1 DEF Look, Types, FolderTypeOK
<1>5. ASSUME NEW j \in Job, Search(j) PROVE Types'
  <2>1. jobs' \in [Job -> Session] /\ ActiveLink'
    BY <1>5, SearchEffect, SessionTypes DEF Onward
  <2>2. crowded' \in BOOLEAN
    BY <1>5 DEF Search, Types, FolderTypeOK
  <2> QED BY <1>5, <2>1, <2>2 DEF Search, Types, FolderTypeOK
<1>6. ASSUME NEW j \in Job, Lift(j) \/ Mark(j) \/ Expunge(j) \/ Restore(j) PROVE Types'
  <2>1. jobs' \in [Job -> Session] /\ ActiveLink'
    BY <1>6, DeletionEffect, SessionTypes DEF Onward
  <2>2. jobs[j].targets \subseteq Nat /\ jobs[j].foreign \subseteq Nat
    BY DEF Types, FolderTypeOK, Session
  <2>3. CASE Lift(j)
    BY <2>1, <2>3 DEF Lift, Types, FolderTypeOK
  <2>4. CASE Mark(j)
    BY <2>1, <2>2, <2>4 DEF Mark, Types, FolderTypeOK
  <2>5. CASE Expunge(j)
    <3>1. copies' \in [Link -> SUBSET Nat] /\ others' \subseteq Other /\ marked' \subseteq Nat
      BY <2>5 DEF Expunge, Types, FolderTypeOK
    <3> QED BY <2>1, <2>5, <3>1 DEF Expunge, Types, FolderTypeOK
  <2>6. CASE Restore(j)
    BY <2>1, <2>2, <2>6 DEF Restore, Types, FolderTypeOK
  <2> QED BY <1>6, <2>3, <2>4, <2>5, <2>6
<1>7. ASSUME NEW j \in Job, Break(j) PROVE Types'
  <2>1. jobs' \in [Job -> Session] /\ ActiveLink'
    BY <1>7, BreakEffect, SessionTypes DEF Onward
  <2>2. Removals({j}) \subseteq Link /\ faults' \in 0..Faults
    BY <1>7 DEF Break, Fault, Removals, Types, ActiveLink, FolderTypeOK
  <2> QED BY <1>7, <2>1, <2>2 DEF Break, Types, FolderTypeOK
<1>8. ASSUME NEW j \in Job, Free(j) PROVE Types'
  <2>1. jobs' \in [Job -> Session] /\ ActiveLink'
    BY <1>8, RestEffect, IdleSession, SessionTypes
  <2> QED BY <1>8, <2>1 DEF Free, Types, FolderTypeOK
<1>9. ASSUME NEW u \in Other, MarkElsewhere(u) PROVE Types'
  <2>1. u \in Nat /\ late' \in BOOLEAN
    BY <1>9 DEF MarkElsewhere, Types, FolderTypeOK
  <2>2. ActiveLink'
    BY <1>9 DEF MarkElsewhere, Types, ActiveLink
  <2> QED BY <1>9, <2>1, <2>2 DEF MarkElsewhere, Types, FolderTypeOK
<1>10. CASE Quit
  <2>1. jobs' \in [Job -> Session] /\ ActiveLink'
    BY <1>10, IdleSession DEF Quit, ActiveLink
  <2>2. Removals(Job) \subseteq Link /\ faults' \in 0..Faults
    BY <1>10 DEF Quit, Fault, Removals, Types, ActiveLink, FolderTypeOK
  <2> QED BY <1>10, <2>1, <2>2 DEF Quit, Types, FolderTypeOK
<1>11. CASE UNCHANGED folderVars
  BY <1>11 DEF folderVars, Types, ActiveLink, FolderTypeOK
<1> QED
  BY <1>1, <1>2, <1>3, <1>4, <1>5, <1>6, <1>7, <1>8, <1>9, <1>10, <1>11 DEF FolderNext, Command

-----------------------------------------------------------------------------
(* Uids, kept *)

LEMMA InitUids == FolderInit => Uids
<1> SUFFICES ASSUME FolderInit PROVE Uids
  OBVIOUS
<1>1. \A j \in Job : jobs[j].at = "idle" /\ jobs[j].targets = {} /\ jobs[j].foreign = {}
                       /\ jobs[j].new = 0
  BY IdleSession DEF FolderInit
<1>2. marked = {} /\ nextUid = FirstUid /\ \A l \in Link : copies[l] = {}
  BY DEF FolderInit
<1> QED BY <1>1, <1>2 DEF Uids, UidsInUse, OwnCopies, FoundOlder, NewIsNewer

\* All steps but a search for copies and an append: no uid is given out, no copy
\* added, and a session keeps its targets or starts anew.
LEMMA UidsKept ==
  ASSUME Types, Uids, nextUid' = nextUid, \A l \in Link : copies'[l] \subseteq copies[l],
         \A u \in marked' : u < nextUid,
         \A k \in Job :
           \/ /\ jobs'[k].targets = jobs[k].targets /\ jobs'[k].link = jobs[k].link
              /\ jobs'[k].new = jobs[k].new /\ \A u \in jobs'[k].foreign : u < nextUid
              /\ jobs'[k].at \in {"append", "look"} => jobs'[k].at = jobs[k].at
              /\ jobs'[k].at # "idle" => jobs[k].link \in Link
           \/ /\ jobs'[k].targets = {} /\ jobs'[k].foreign = {} /\ jobs'[k].new = 0
              /\ jobs'[k].at \notin {"append", "look"}
  PROVE  Uids'
<1>1. UidsInUse'
  <2>1. FirstUid <= nextUid' /\ 0 < nextUid
    BY DEF Types, FolderTypeOK, Uids, UidsInUse
  <2>2. \A l \in Link : \A u \in copies'[l] : FirstUid <= u /\ u < nextUid'
    BY DEF Uids, UidsInUse
  <2>3. ASSUME NEW k \in Job
        PROVE  jobs'[k].new < nextUid' /\ \A u \in jobs'[k].targets \cup jobs'[k].foreign : u < nextUid'
    BY <2>1 DEF Uids, UidsInUse
  <2> QED BY <2>1, <2>2, <2>3 DEF UidsInUse
<1>2. OwnCopies'
  <2>1. \A l, m \in Link : l # m => copies'[l] \cap copies'[m] = {}
    BY DEF Uids, OwnCopies
  <2>2. ASSUME NEW k \in Job, NEW l \in Link, jobs'[k].link # l
        PROVE  jobs'[k].targets \cap copies'[l] = {}
    BY <2>2 DEF Uids, OwnCopies
  <2> QED BY <2>1, <2>2 DEF OwnCopies
<1>3. FoundOlder'
  <2>1. SUFFICES ASSUME NEW k \in Job, jobs'[k].at \in {"append", "look"},
                        NEW u \in copies'[jobs'[k].link] \ jobs'[k].targets,
                        NEW t \in jobs'[k].targets
                 PROVE  t < u
    BY DEF FoundOlder
  <2>2. /\ jobs'[k].targets = jobs[k].targets /\ jobs'[k].link = jobs[k].link
        /\ jobs'[k].at = jobs[k].at /\ jobs[k].link \in Link
    BY <2>1
  <2> QED BY <2>1, <2>2 DEF Uids, FoundOlder
<1>4. NewIsNewer'
  BY DEF Uids, NewIsNewer
<1> QED BY <1>1, <1>2, <1>3, <1>4 DEF Uids

LEMMA NextUids == Types /\ Uids /\ [FolderNext]_folderVars => Uids'
<1> SUFFICES ASSUME Types, Uids, [FolderNext]_folderVars PROVE Uids'
  OBVIOUS
<1>0. /\ \A l \in Link : copies[l] \subseteq Nat
      /\ nextUid \in Nat /\ FirstUid <= nextUid
      /\ \A u \in marked : u < nextUid
      /\ \A l \in Link : \A u \in copies[l] : u < nextUid
      /\ \A k \in Job : /\ jobs[k].foreign \subseteq Nat /\ jobs[k].targets \subseteq Nat
                        /\ jobs[k].new \in Nat /\ jobs[k].new < nextUid
                        /\ jobs[k].at # "idle" => jobs[k].link \in Link
                        /\ \A u \in jobs[k].targets \cup jobs[k].foreign : u < nextUid
  BY DEF Types, ActiveLink, FolderTypeOK, Session, Uids, UidsInUse
<1>1. ASSUME NEW j \in Job, NEW op \in {"replace", "remove"}, NEW l \in Link, Begin(j, op, l)
      PROVE  Uids'
  <2>1. UNCHANGED <<copies, marked, nextUid>>
    BY <1>1 DEF Begin
  <2> QED BY <1>0, <1>1, <2>1, BeginEffect, UidsKept
<1>2. ASSUME NEW j \in Job, Find(j) PROVE Uids'
  <2> DEFINE l == jobs[j].link
  <2>1. UNCHANGED <<copies, marked, nextUid>>
    BY <1>2 DEF Find
  <2>2. /\ \A k \in Job \ {j} : jobs'[k] = jobs[k]
        /\ jobs'[j].link = l /\ l \in Link /\ jobs'[j].targets = copies[l]
        /\ jobs'[j].new = jobs[j].new /\ jobs'[j].foreign = jobs[j].foreign
        /\ jobs'[j].at # "look"
    BY <1>2, FindEffect DEF Onward
  <2> HIDE DEF l
  <2>3. UidsInUse'
    BY <1>0, <2>1, <2>2 DEF Uids, UidsInUse
  <2>4. OwnCopies'
    <3>1. ASSUME NEW k \in Job, NEW m \in Link, jobs'[k].link # m
          PROVE  jobs'[k].targets \cap copies[m] = {}
      BY <2>2, <3>1 DEF Uids, OwnCopies
    <3> QED BY <2>1, <3>1 DEF Uids, OwnCopies
  <2>5. FoundOlder'
    <3>1. SUFFICES ASSUME NEW k \in Job, jobs'[k].at \in {"append", "look"}
                   PROVE  \A u \in copies[jobs'[k].link] \ jobs'[k].targets :
                            \A t \in jobs'[k].targets : t < u
      BY <2>1 DEF FoundOlder
    <3>2. CASE k = j
      BY <2>2, <3>2
    <3>3. CASE k # j
      BY <2>2, <3>1, <3>3 DEF Uids, FoundOlder
    <3> QED BY <3>2, <3>3
  <2>6. NewIsNewer'
    BY <2>2 DEF Uids, NewIsNewer
  <2> QED BY <2>3, <2>4, <2>5, <2>6 DEF Uids
<1>3. ASSUME NEW j \in Job, AppendCopy(j) PROVE Uids'
  <2> DEFINE l == jobs[j].link
  <2>1. marked' = marked
    BY <1>3 DEF AppendCopy
  <2>2. /\ \A k \in Job \ {j} : jobs'[k] = jobs[k]
        /\ jobs'[j].link = l /\ l \in Link /\ jobs'[j].targets = jobs[j].targets
        /\ jobs'[j].foreign = jobs[j].foreign
        /\ jobs[j].at = "append" /\ jobs'[j].at = "look"
    BY <1>3, AppendEffect DEF Onward
  <2>3. \/ jobs'[j].new \in copies[l] \cup {0} /\ UNCHANGED <<copies, nextUid>>
        \/ /\ jobs'[j].new \in {nextUid, 0}
           /\ copies' = [copies EXCEPT ![l] = @ \cup {nextUid}]
           /\ nextUid' = nextUid + 1
    BY <1>3, AppendEffect
  <2>0. l = jobs[j].link
    OBVIOUS
  <2> HIDE DEF l
  <2>4. /\ \A m \in Link \ {l} : copies'[m] = copies[m]
        /\ copies'[l] \in {copies[l], copies[l] \cup {nextUid}}
        /\ nextUid' \in {nextUid, nextUid + 1}
        /\ nextUid' = nextUid => copies'[l] = copies[l]
    BY <2>2, <2>3, <1>0 DEF Types, FolderTypeOK
  <2>5. UidsInUse'
    <3>1. \A m \in Link : \A u \in copies'[m] : FirstUid <= u /\ u < nextUid'
      BY <1>0, <2>2, <2>4 DEF Uids, UidsInUse
    <3>2. ASSUME NEW k \in Job
          PROVE  jobs'[k].new < nextUid' /\ \A u \in jobs'[k].targets \cup jobs'[k].foreign : u < nextUid'
      BY <1>0, <2>2, <2>3
    <3>3. FirstUid <= nextUid' /\ \A u \in marked' : u < nextUid'
      BY <1>0, <2>1, <2>4 DEF Types, FolderTypeOK
    <3> QED BY <3>1, <3>2, <3>3 DEF UidsInUse
  <2>6. OwnCopies'
    <3>1. \A m, n \in Link : m # n => copies'[m] \cap copies'[n] = {}
      BY <1>0, <2>2, <2>4 DEF Uids, OwnCopies
    <3>2. ASSUME NEW k \in Job, NEW m \in Link, jobs'[k].link # m
          PROVE  jobs'[k].targets \cap copies'[m] = {}
      <4>1. jobs'[k].targets = jobs[k].targets /\ jobs'[k].link = jobs[k].link
        BY <2>0, <2>2
      <4>2. jobs[k].targets \cap copies[m] = {} /\ nextUid \notin jobs[k].targets
        BY <1>0, <3>2, <4>1 DEF Uids, OwnCopies
      <4> QED BY <2>4, <4>1, <4>2
    <3> QED BY <3>1, <3>2 DEF OwnCopies
  <2>7. FoundOlder'
    <3>1. SUFFICES ASSUME NEW k \in Job, jobs'[k].at \in {"append", "look"},
                          NEW u \in copies'[jobs'[k].link] \ jobs'[k].targets,
                          NEW t \in jobs'[k].targets
                   PROVE  t < u
      BY DEF FoundOlder
    <3>2. /\ jobs'[k].targets = jobs[k].targets /\ jobs'[k].link = jobs[k].link
          /\ jobs[k].at \in {"append", "look"} /\ jobs[k].link \in Link
      BY <1>0, <2>0, <2>2, <3>1
    <3>3. u \in copies[jobs[k].link] \/ u = nextUid
      BY <2>4, <3>1, <3>2
    <3>4. u \in copies[jobs[k].link] => t < u
      BY <3>1, <3>2 DEF Uids, FoundOlder
    <3> QED BY <1>0, <3>1, <3>2, <3>3, <3>4
  <2>8. NewIsNewer'
    <3>1. SUFFICES ASSUME jobs'[j].new # 0, jobs'[j].new \notin jobs[j].targets,
                          NEW t \in jobs[j].targets
                   PROVE  t < jobs'[j].new
      BY <2>2 DEF Uids, NewIsNewer
    <3>2. jobs'[j].new \in copies[l] \/ jobs'[j].new = nextUid
      BY <2>3, <3>1
    <3> QED BY <1>0, <2>0, <2>2, <3>1, <3>2 DEF Uids, FoundOlder
  <2> QED BY <2>5, <2>6, <2>7, <2>8 DEF Uids
<1>4. ASSUME NEW j \in Job, Look(j) PROVE Uids'
  <2>1. UNCHANGED <<copies, marked, nextUid>>
    BY <1>4 DEF Look
  <2> QED BY <1>0, <1>4, <2>1, LookEffect, UidsKept DEF Onward
<1>5. ASSUME NEW j \in Job, Search(j) PROVE Uids'
  <2>1. UNCHANGED <<copies, marked, nextUid>>
    BY <1>5 DEF Search
  <2> QED BY <1>0, <1>5, <2>1, SearchEffect, UidsKept DEF Onward
<1>6. ASSUME NEW j \in Job, Lift(j) \/ Mark(j) \/ Expunge(j) \/ Restore(j) PROVE Uids'
  <2>1. nextUid' = nextUid
    BY <1>6 DEF Lift, Mark, Expunge, Restore
  <2>2. \A l \in Link : copies'[l] \subseteq copies[l]
    BY <1>6 DEF Lift, Mark, Expunge, Restore
  <2>3. marked' \subseteq marked \cup jobs[j].targets \cup jobs[j].foreign
    BY <1>6 DEF Lift, Mark, Expunge, Restore
  <2>4. \A u \in marked' : u < nextUid
    BY <1>0, <2>3
  <2> QED BY <1>0, <1>6, <2>1, <2>2, <2>4, DeletionEffect, UidsKept DEF Onward
<1>7. ASSUME NEW j \in Job, Break(j) PROVE Uids'
  <2>1. UNCHANGED <<copies, marked, nextUid>>
    BY <1>7 DEF Break
  <2> QED BY <1>0, <1>7, <2>1, BreakEffect, UidsKept DEF Onward
<1>8. ASSUME NEW j \in Job, Free(j) PROVE Uids'
  <2>1. UNCHANGED <<copies, marked, nextUid>>
    BY <1>8 DEF Free
  <2> QED BY <1>0, <1>8, <2>1, RestEffect, IdleSession, UidsKept
<1>9. ASSUME NEW u \in Other, MarkElsewhere(u) PROVE Uids'
  <2>1. UNCHANGED <<copies, nextUid, jobs>> /\ marked' = marked \cup {u}
    BY <1>9 DEF MarkElsewhere
  <2>2. u < nextUid
    BY <1>0
  <2> QED BY <1>0, <2>1, <2>2, UidsKept
<1>10. CASE Quit
  <2>1. UNCHANGED <<copies, marked, nextUid>> /\ \A k \in Job : jobs'[k] = Idle
    BY <1>10 DEF Quit
  <2> QED BY <1>0, <2>1, IdleSession, UidsKept
<1>11. CASE UNCHANGED folderVars
  <2>1. UNCHANGED <<copies, marked, nextUid, jobs>>
    BY <1>11 DEF folderVars
  <2> QED BY <2>1 DEF Uids, UidsInUse, OwnCopies, FoundOlder, NewIsNewer
<1> QED
  BY <1>1, <1>2, <1>3, <1>4, <1>5, <1>6, <1>7, <1>8, <1>9, <1>10, <1>11 DEF FolderNext, Command

-----------------------------------------------------------------------------
(* The newest copy, kept *)

LEMMA InitSafe == FolderInit => NewestIsSafe
BY DEF FolderInit, NewestIsSafe

\* A step of session j: what is left to show when no copy is added.
LEMMA SafeKept ==
  ASSUME NEW l \in Link, NEW c, SafeCopy(l, c), NEW j \in Job,
         copies'[l] \subseteq copies[l], c \in copies'[l], c \notin marked',
         \A k \in Job \ {j} : jobs'[k] = jobs[k],
         Spares(j, l, c)'
  PROVE  \E d \in copies'[l] : SafeCopy(l, d)'
<1>1. ASSUME NEW k \in Job PROVE Spares(k, l, c)'
  <2>1. CASE k = j
    BY <2>1
  <2>2. CASE k # j
    BY <2>2 DEF SafeCopy, Spares, Deleting
  <2> QED BY <2>1, <2>2
<1> QED BY <1>1 DEF SafeCopy

\* Nobody asks for the removal of a draft by going on.
LEMMA NotRemoving ==
  ASSUME NEW l \in Link, ~Removing(l), NEW j \in Job, Onward(j), jobs[j].at # "idle"
  PROVE  ~Removing(l)'
BY DEF Onward, Removing

LEMMA NextSafe == IInv /\ [FolderNext]_folderVars => NewestIsSafe'
<1> SUFFICES ASSUME IInv, [FolderNext]_folderVars, NEW l \in stored'
             PROVE  ~Removing(l)' /\ \E c \in copies'[l] : SafeCopy(l, c)'
  BY DEF NewestIsSafe
<1>0. Types /\ Uids
  BY DEF IInv
<1>a. /\ stored \subseteq Link
      /\ \A m \in Link : copies[m] \subseteq Nat
      /\ nextUid \in Nat
      /\ \A u \in marked : u < nextUid
      /\ \A m \in Link : \A u \in copies[m] : u < nextUid /\ FirstUid <= u
      /\ \A k \in Job : /\ jobs[k].op \in {"replace", "remove"}
                        /\ jobs[k].foreign \subseteq Nat /\ jobs[k].targets \subseteq Nat
                        /\ jobs[k].new \in Nat /\ jobs[k].new < nextUid
                        /\ jobs[k].at # "idle" => jobs[k].link \in Link
                        /\ \A u \in jobs[k].targets \cup jobs[k].foreign : u < nextUid
  BY <1>0 DEF Types, ActiveLink, FolderTypeOK, Session, Uids, UidsInUse
<1>b. ASSUME l \in stored
      PROVE  l \in Link /\ ~Removing(l) /\ \E c \in copies[l] : SafeCopy(l, c)
  BY <1>a, <1>b DEF IInv, NewestIsSafe
<1>1. ASSUME NEW j \in Job, NEW op \in {"replace", "remove"}, NEW m \in Link, Begin(j, op, m)
      PROVE  ~Removing(l)' /\ \E c \in copies'[l] : SafeCopy(l, c)'
  <2>1. UNCHANGED <<copies, marked>> /\ stored' = IF op = "remove" THEN stored \ {m} ELSE stored
    BY <1>1 DEF Begin
  <2>2. l \in stored /\ (op = "remove" => l # m)
    BY <2>1
  <2>3. PICK c \in copies[l] : SafeCopy(l, c)
    BY <1>b, <2>2
  <2>4. ~Removing(l)'
    BY <1>0, <1>1, <1>b, <2>2, BeginEffect DEF Removing
  <2>5. \A k \in Job \ {j} : jobs'[k] = jobs[k]
    BY <1>0, <1>1, BeginEffect
  <2>6. Spares(j, l, c)'
    <3>1. jobs'[j].at = "find" /\ jobs'[j].targets = {} /\ jobs'[j].foreign = {}
      BY <1>0, <1>1, BeginEffect
    <3> QED BY <3>1 DEF Spares, Deleting
  <2>7. c \notin marked' /\ copies'[l] = copies[l] /\ l \in Link
    BY <1>b, <2>1, <2>2, <2>3 DEF SafeCopy
  <2> QED BY <2>3, <2>4, <2>5, <2>6, <2>7, SafeKept
<1>2. ASSUME NEW j \in Job, Find(j)
      PROVE  ~Removing(l)' /\ \E c \in copies'[l] : SafeCopy(l, c)'
  <2>1. UNCHANGED <<copies, marked, stored>>
    BY <1>2 DEF Find
  <2>2. PICK c \in copies[l] : SafeCopy(l, c)
    BY <1>b, <2>1
  <2>3. /\ Onward(j) /\ jobs[j].at = "find" /\ jobs[j].link \in Link
        /\ jobs'[j].targets = copies[jobs[j].link]
        /\ jobs'[j].foreign = jobs[j].foreign
        /\ jobs'[j].at \in {"append", "done", "mark", "search"}
        /\ jobs[j].op = "replace" => jobs'[j].at = "append"
    BY <1>0, <1>2, FindEffect
  <2>4. ~Removing(l)' /\ l \in Link
    BY <1>b, <2>1, <2>3, NotRemoving
  <2>5. Spares(j, l, c)'
    <3>1. ASSUME Deleting(j)' PROVE c \notin jobs'[j].targets
      <4>1. jobs[j].op = "remove"
        BY <1>a, <2>3, <3>1 DEF Deleting
      <4>2. jobs[j].link # l
        BY <1>b, <2>1, <2>3, <4>1 DEF Removing
      <4> QED BY <1>0, <2>2, <2>3, <2>4, <4>2 DEF Uids, OwnCopies
    <3> QED BY <2>2, <2>3, <3>1 DEF SafeCopy, Spares
  <2> QED BY <2>1, <2>2, <2>3, <2>4, <2>5, SafeKept DEF SafeCopy, Onward
<1>3. ASSUME NEW j \in Job, AppendCopy(j)
      PROVE  ~Removing(l)' /\ \E c \in copies'[l] : SafeCopy(l, c)'
  <2> DEFINE m == jobs[j].link
  <2>1. marked' = marked
    BY <1>3 DEF AppendCopy
  <2>2. /\ Onward(j) /\ jobs[j].at = "append" /\ m \in Link /\ jobs'[j].at = "look"
        /\ jobs'[j].targets = jobs[j].targets /\ jobs'[j].foreign = jobs[j].foreign
    BY <1>0, <1>3, AppendEffect
  <2>3. \/ /\ jobs'[j].new \in copies[m] \cup {0}
           /\ UNCHANGED <<copies, nextUid, stored>>
        \/ /\ jobs'[j].new \in {nextUid, 0}
           /\ copies' = [copies EXCEPT ![m] = @ \cup {nextUid}]
           /\ nextUid' = nextUid + 1
           /\ stored' = IF Removing(m) THEN stored ELSE stored \cup {m}
    BY <1>0, <1>3, AppendEffect
  <2>4. l \in Link /\ ~Removing(l)
    BY <1>b, <2>2, <2>3
  <2>5. ~Removing(l)'
    BY <2>2, <2>4, NotRemoving
  <2>0. m = jobs[j].link
    OBVIOUS
  <2> HIDE DEF m
  <2>6. CASE copies'[l] = copies[l]
    <3>1. l \in stored
      <4>1. SUFFICES ASSUME l = m, copies' = [copies EXCEPT ![m] = @ \cup {nextUid}] PROVE FALSE
        BY <2>3
      <4>2. nextUid \in copies'[l]
        BY <2>4, <4>1, <1>0 DEF Types, FolderTypeOK
      <4> QED BY <1>a, <2>4, <2>6, <4>2
    <3>2. PICK c \in copies[l] : SafeCopy(l, c)
      BY <1>b, <3>1
    <3>3. Spares(j, l, c)'
      <4>1. ASSUME m = l PROVE jobs'[j].new <= c
        <5>1. jobs'[j].new \in copies[l] \cup {0}
          <6>1. SUFFICES ASSUME copies' = [copies EXCEPT ![m] = @ \cup {nextUid}] PROVE FALSE
            BY <2>3, <4>1
          <6>2. nextUid \in copies'[l]
            BY <2>4, <4>1, <6>1, <1>0 DEF Types, FolderTypeOK
          <6> QED BY <1>a, <2>4, <2>6, <6>2
        <5> QED BY <1>a, <2>4, <3>2, <5>1 DEF SafeCopy
      <4>2. jobs'[j].link = m
        BY <2>0, <2>2 DEF Onward
      <4> QED BY <2>2, <3>2, <4>1, <4>2 DEF SafeCopy, Spares, Deleting
    <3> QED BY <2>1, <2>2, <2>4, <2>5, <2>6, <3>2, <3>3, SafeKept DEF SafeCopy, Onward
  <2>7. CASE copies'[l] # copies[l]
    <3>0. PICK c : c = nextUid
      OBVIOUS
    <3>1. /\ l = m /\ copies'[l] = copies[l] \cup {c}
          /\ jobs'[j].new \in {c, 0}
      BY <2>2, <2>3, <2>4, <2>7, <3>0, <1>0 DEF Types, FolderTypeOK
    <3>2. c \notin marked' /\ \A u \in copies'[l] : u <= c
      BY <1>a, <3>0, <2>1, <2>4, <3>1
    <3>3. ASSUME NEW k \in Job PROVE Spares(k, l, c)'
      <4>1. CASE k = j
        BY <1>a, <3>0, <2>2, <3>1, <4>1 DEF Spares, Deleting
      <4>2. CASE k # j
        <5>1. jobs'[k] = jobs[k]
          BY <2>2, <4>2 DEF Onward
        <5> QED BY <1>a, <3>0, <5>1 DEF Spares, Deleting
      <4> QED BY <4>1, <4>2
    <3>4. SafeCopy(l, c)'
      BY <3>1, <3>2, <3>3 DEF SafeCopy
    <3> QED BY <2>5, <3>1, <3>4
  <2> QED BY <2>6, <2>7
<1>4. ASSUME NEW j \in Job, Look(j)
      PROVE  ~Removing(l)' /\ \E c \in copies'[l] : SafeCopy(l, c)'
  <2>1. UNCHANGED <<copies, marked, stored>>
    BY <1>4 DEF Look
  <2>2. PICK c \in copies[l] : SafeCopy(l, c)
    BY <1>b, <2>1
  <2>3. /\ Onward(j) /\ jobs[j].at = "look"
        /\ jobs'[j].targets = jobs[j].targets /\ jobs'[j].foreign = jobs[j].foreign
        /\ jobs'[j].at \in {"done", "mark", "search"}
        /\ jobs'[j].at # "done" => DistinctCopy(j)
    BY <1>0, <1>4, LookEffect
  <2>4. ~Removing(l)' /\ l \in Link
    BY <1>b, <2>1, <2>3, NotRemoving
  <2>5. ASSUME DistinctCopy(j) PROVE c \notin jobs[j].targets
    <3>1. CASE jobs[j].link # l
      BY <1>0, <2>2, <2>4, <3>1 DEF Uids, OwnCopies
    <3>2. CASE jobs[j].link = l /\ jobs[j].new # 0
      <4>1. jobs[j].new <= c /\ c \in Nat
        BY <1>a, <2>2, <2>3, <2>4, <3>2 DEF SafeCopy, Spares
      <4>2. \A t \in jobs[j].targets : t < jobs[j].new
        BY <1>0, <2>3, <2>5, <3>2 DEF DistinctCopy, Uids, NewIsNewer
      <4> QED BY <1>a, <4>1, <4>2
    <3>3. CASE jobs[j].link = l /\ jobs[j].new = 0
      <4>1. PICK u \in copies[l] : u \notin jobs[j].targets
        BY <2>5, <3>3 DEF DistinctCopy
      <4>2. \A t \in jobs[j].targets : t < u
        BY <1>0, <2>3, <3>3, <4>1 DEF Uids, FoundOlder
      <4>3. u <= c
        BY <2>2, <4>1 DEF SafeCopy
      <4> QED BY <1>a, <2>2, <2>4, <4>1, <4>2, <4>3
    <3> QED BY <3>1, <3>2, <3>3
  <2>6. Spares(j, l, c)'
    BY <2>2, <2>3, <2>5 DEF SafeCopy, Spares, Deleting
  <2> QED BY <2>1, <2>2, <2>3, <2>4, <2>6, SafeKept DEF SafeCopy, Onward
<1>5. ASSUME NEW j \in Job, Search(j)
      PROVE  ~Removing(l)' /\ \E c \in copies'[l] : SafeCopy(l, c)'
  <2>1. UNCHANGED <<copies, marked, stored>>
    BY <1>5 DEF Search
  <2>2. PICK c \in copies[l] : SafeCopy(l, c)
    BY <1>b, <2>1
  <2>3. /\ Onward(j) /\ jobs[j].at = "search"
        /\ jobs'[j].targets = jobs[j].targets /\ jobs'[j].foreign \subseteq marked
        /\ jobs'[j].at \in {"mark", "lift"}
    BY <1>0, <1>5, SearchEffect
  <2>4. ~Removing(l)' /\ l \in Link
    BY <1>b, <2>1, <2>3, NotRemoving
  <2>5. Spares(j, l, c)'
    BY <2>2, <2>3 DEF SafeCopy, Spares, Deleting
  <2> QED BY <2>1, <2>2, <2>3, <2>4, <2>5, SafeKept DEF SafeCopy, Onward
<1>6. ASSUME NEW j \in Job, Lift(j) \/ Mark(j) \/ Expunge(j) \/ Restore(j)
      PROVE  ~Removing(l)' /\ \E c \in copies'[l] : SafeCopy(l, c)'
  <2>1. stored' = stored
    BY <1>6 DEF Lift, Mark, Expunge, Restore
  <2>2. PICK c \in copies[l] : SafeCopy(l, c)
    BY <1>b, <2>1
  <2>3. /\ Onward(j) /\ Deleting(j)
        /\ jobs'[j].targets = jobs[j].targets /\ jobs'[j].foreign = jobs[j].foreign
        /\ jobs'[j].at # "look"
    BY <1>0, <1>6, DeletionEffect
  <2>4. ~Removing(l)' /\ l \in Link
    BY <1>b, <2>1, <2>3, NotRemoving DEF Deleting
  <2>5. c \notin marked /\ Spares(j, l, c)
    BY <2>2 DEF SafeCopy
  <2>6. Spares(j, l, c)'
    BY <2>3, <2>5 DEF Spares
  <2>7. c \notin marked'
    <3>1. marked' \subseteq marked \cup jobs[j].targets \cup jobs[j].foreign
      BY <1>6 DEF Lift, Mark, Expunge, Restore
    <3> QED BY <2>3, <2>5, <3>1 DEF Spares
  <2>8. copies'[l] \subseteq copies[l] /\ copies[l] \ marked \subseteq copies'[l]
    BY <1>6, <2>4 DEF Lift, Mark, Expunge, Restore
  <2>9. c \in copies'[l]
    BY <2>2, <2>5, <2>8
  <2> QED BY <2>2, <2>3, <2>4, <2>6, <2>7, <2>8, <2>9, SafeKept DEF Onward
<1>7. ASSUME NEW j \in Job, Break(j)
      PROVE  ~Removing(l)' /\ \E c \in copies'[l] : SafeCopy(l, c)'
  <2>1. UNCHANGED <<copies, marked, stored>>
    BY <1>7 DEF Break
  <2>2. PICK c \in copies[l] : SafeCopy(l, c)
    BY <1>b, <2>1
  <2>3. /\ Onward(j) /\ jobs[j].at # "idle"
        /\ jobs'[j].targets = jobs[j].targets /\ jobs'[j].foreign = jobs[j].foreign
        /\ jobs'[j].at \in {"restore", "done"}
        /\ jobs'[j].at = "restore" => Deleting(j)
    BY <1>0, <1>7, BreakEffect
  <2>4. ~Removing(l)' /\ l \in Link
    BY <1>b, <2>1, <2>3, NotRemoving
  <2>5. Spares(j, l, c)'
    BY <2>2, <2>3 DEF SafeCopy, Spares, Deleting
  <2> QED BY <2>1, <2>2, <2>3, <2>4, <2>5, SafeKept DEF SafeCopy, Onward
<1>8. ASSUME NEW j \in Job, Free(j)
      PROVE  ~Removing(l)' /\ \E c \in copies'[l] : SafeCopy(l, c)'
  <2>1. UNCHANGED <<copies, marked, stored>>
    BY <1>8 DEF Free
  <2>2. PICK c \in copies[l] : SafeCopy(l, c)
    BY <1>b, <2>1
  <2>3. (\A k \in Job \ {j} : jobs'[k] = jobs[k]) /\ jobs'[j] = Idle
    BY <1>0, <1>8, RestEffect
  <2>4. ~Removing(l)' /\ l \in Link
    BY <1>b, <2>1, <2>3, IdleSession DEF Removing
  <2>5. Spares(j, l, c)'
    BY <2>3, IdleSession DEF Spares, Deleting
  <2> QED BY <2>1, <2>2, <2>3, <2>4, <2>5, SafeKept DEF SafeCopy
<1>9. ASSUME NEW u \in Other, MarkElsewhere(u)
      PROVE  ~Removing(l)' /\ \E c \in copies'[l] : SafeCopy(l, c)'
  <2>1. UNCHANGED <<copies, stored, jobs>> /\ marked' = marked \cup {u}
    BY <1>9 DEF MarkElsewhere
  <2>2. PICK c \in copies[l] : SafeCopy(l, c)
    BY <1>b, <2>1
  <2>3. c # u
    BY <1>a, <1>b, <2>1, <2>2
  <2> QED BY <1>b, <2>1, <2>2, <2>3 DEF SafeCopy, Spares, Deleting, Removing
<1>10. CASE Quit
  <2>1. UNCHANGED <<copies, marked, stored>> /\ \A k \in Job : jobs'[k] = Idle
    BY <1>10 DEF Quit
  <2>2. PICK c \in copies[l] : SafeCopy(l, c)
    BY <1>b, <2>1
  <2>3. \A k \in Job : Spares(k, l, c)'
    BY <2>1, IdleSession DEF Spares, Deleting
  <2>4. ~Removing(l)'
    BY <2>1, IdleSession DEF Removing
  <2> QED BY <2>1, <2>2, <2>3, <2>4 DEF SafeCopy
<1>11. CASE UNCHANGED folderVars
  <2>1. UNCHANGED <<copies, marked, stored, jobs>>
    BY <1>11 DEF folderVars
  <2> QED BY <1>b, <2>1 DEF SafeCopy, Spares, Deleting, Removing
<1> QED
  BY <1>1, <1>2, <1>3, <1>4, <1>5, <1>6, <1>7, <1>8, <1>9, <1>10, <1>11 DEF FolderNext, Command

-----------------------------------------------------------------------------
LEMMA FolderInvariant == FolderSpec => []IInv
<1>1. FolderInit => IInv
  BY InitTypes, InitUids, InitSafe DEF IInv
<1>2. IInv /\ [FolderNext]_folderVars => IInv'
  BY NextTypes, NextUids, NextSafe DEF IInv
<1> QED BY <1>1, <1>2, PTL DEF FolderSpec

(* ReplaceDraft and RemoveDraft in any number of overlapping sessions, each *)
(* of which may break between any two commands: what they keep of every    *)
(* draft that nobody asked to remove is its newest copy.                   *)
THEOREM DraftKept == FolderSpec => []NeverNoDraft
<1>1. IInv => NeverNoDraft
  BY DEF IInv, NewestIsSafe, NeverNoDraft
<1> QED BY <1>1, FolderInvariant, PTL

-----------------------------------------------------------------------------
(* The marks of another client *)

DraftTargets == \A j \in Job : \A t \in jobs[j].targets : FirstUid <= t

PlainOnly == \A j \in Job : jobs[j].at \in {"search", "lift"} => ~server.uidplus

\* One deletion at a time is between its search and its last command.
OneMarking == ~crowded => \A j, k \in Job : Marking(j) /\ Marking(k) => j = k

\* Between the two, its session knows the marks it has lifted and must return.
MarksHeld ==
  ~crowded /\ ~late =>
    /\ others = Other
    /\ \A j \in Job : Marking(j) =>
         /\ jobs[j].at = "lift" => marked \cap Other \subseteq jobs[j].foreign
         /\ jobs[j].at \in {"mark", "expunge"} => marked \cap Other = {}
         /\ faults = Faults => theirs \subseteq jobs[j].foreign
    /\ faults = Faults /\ ~(\E j \in Job : Marking(j)) => theirs \subseteq marked

MInv == DraftTargets /\ PlainOnly /\ OneMarking /\ MarksHeld

LEMMA InitMarks == FolderInit => MInv
<1> SUFFICES ASSUME FolderInit PROVE MInv
  OBVIOUS
<1>1. /\ \A j \in Job : jobs[j].at = "idle" /\ jobs[j].targets = {}
      /\ others = Other /\ theirs = {}
  BY IdleSession DEF FolderInit
<1> QED BY <1>1 DEF MInv, DraftTargets, PlainOnly, OneMarking, MarksHeld, Marking

\* A step of session j that leaves the marks alone and does not begin a deletion.
LEMMA MarksKept ==
  ASSUME MInv, NEW j \in Job, \A k \in Job \ {j} : jobs'[k] = jobs[k],
         UNCHANGED <<server, marked, others, theirs, crowded, late>>,
         \A t \in jobs'[j].targets : FirstUid <= t,
         jobs'[j].at \in {"search", "lift"} => ~server.uidplus,
         Marking(j)' => /\ Marking(j) /\ jobs'[j].foreign = jobs[j].foreign
                        /\ jobs'[j].at = "restore" \/ jobs'[j].at = jobs[j].at,
         faults' = Faults => faults = Faults /\ (Marking(j) => Marking(j)')
  PROVE  MInv'
<1>1. \A k \in Job \ {j} : Marking(k)' <=> Marking(k)
  BY DEF Marking
<1>2. DraftTargets' /\ PlainOnly'
  BY DEF MInv, DraftTargets, PlainOnly
<1>3. OneMarking'
  BY <1>1 DEF MInv, OneMarking
<1>4. MarksHeld'
  <2>1. SUFFICES ASSUME ~crowded, ~late
                 PROVE  /\ others = Other
                        /\ \A k \in Job : Marking(k)' =>
                             /\ jobs'[k].at = "lift" => marked \cap Other \subseteq jobs'[k].foreign
                             /\ jobs'[k].at \in {"mark", "expunge"} => marked \cap Other = {}
                             /\ faults' = Faults => theirs \subseteq jobs'[k].foreign
                        /\ faults' = Faults /\ ~(\E k \in Job : Marking(k)') => theirs \subseteq marked
    BY DEF MarksHeld
  <2>2. others = Other
    BY <2>1 DEF MInv, MarksHeld
  <2>3. ASSUME NEW k \in Job, Marking(k)'
        PROVE  /\ jobs'[k].at = "lift" => marked \cap Other \subseteq jobs'[k].foreign
               /\ jobs'[k].at \in {"mark", "expunge"} => marked \cap Other = {}
               /\ faults' = Faults => theirs \subseteq jobs'[k].foreign
    <3>1. CASE k = j
      BY <2>1, <2>3, <3>1 DEF MInv, MarksHeld
    <3>2. CASE k # j
      BY <1>1, <2>1, <2>3, <3>2 DEF MInv, MarksHeld
    <3> QED BY <3>1, <3>2
  <2>4. faults' = Faults /\ ~(\E k \in Job : Marking(k)') => theirs \subseteq marked
    BY <1>1, <2>1 DEF MInv, MarksHeld
  <2> QED BY <2>2, <2>3, <2>4
<1> QED BY <1>2, <1>3, <1>4 DEF MInv

LEMMA NextMarks == IInv /\ MInv /\ [FolderNext]_folderVars => MInv'
<1> SUFFICES ASSUME IInv, MInv, [FolderNext]_folderVars PROVE MInv'
  OBVIOUS
<1>0. Types /\ Uids
  BY DEF IInv
<1>a. /\ theirs \subseteq Other /\ \A u \in Other : u < FirstUid /\ u \in Nat
      /\ FirstUid \in Nat /\ faults \in 0..Faults /\ Faults \in Nat
      /\ \A l \in Link : \A u \in copies[l] : FirstUid <= u /\ u \in Nat
      /\ \A k \in Job : \A t \in jobs[k].targets : FirstUid <= t /\ t \in Nat
  BY <1>0 DEF Types, FolderTypeOK, Session, Uids, UidsInUse, MInv, DraftTargets
<1>b. \A k \in Job : jobs[k].targets \cap Other = {}
  BY <1>a
<1>1. ASSUME NEW j \in Job, NEW op \in {"replace", "remove"}, NEW l \in Link, Begin(j, op, l)
      PROVE  MInv'
  <2>1. UNCHANGED <<server, marked, others, theirs, crowded, late, faults>>
    BY <1>1 DEF Begin
  <2>2. /\ \A k \in Job \ {j} : jobs'[k] = jobs[k]
        /\ jobs[j].at = "idle" /\ jobs'[j].at = "find" /\ jobs'[j].targets = {}
    BY <1>0, <1>1, BeginEffect
  <2> QED BY <2>1, <2>2, MarksKept DEF Marking
<1>2. ASSUME NEW j \in Job, Find(j) PROVE MInv'
  <2>1. UNCHANGED <<server, marked, others, theirs, crowded, late, faults>>
    BY <1>2 DEF Find
  <2>2. /\ \A k \in Job \ {j} : jobs'[k] = jobs[k]
        /\ jobs[j].at = "find" /\ jobs[j].link \in Link
        /\ jobs'[j].targets = copies[jobs[j].link]
    BY <1>0, <1>2, FindEffect DEF Onward
  <2>3. ~Marking(j)' /\ (jobs'[j].at \in {"search", "lift"} => ~server.uidplus)
    <3>1. jobs'[j].at = IF jobs[j].op = "replace" THEN "append" ELSE Deletion(copies[jobs[j].link])
      BY <1>0, <1>2 DEF Find, Types, FolderTypeOK, Session
    <3> QED BY <2>1, <3>1 DEF Deletion, Marking
  <2> QED BY <1>a, <2>1, <2>2, <2>3, MarksKept DEF Marking
<1>3. ASSUME NEW j \in Job, AppendCopy(j) PROVE MInv'
  <2>1. UNCHANGED <<server, marked, others, theirs, crowded, late, faults>>
    BY <1>3 DEF AppendCopy
  <2>2. /\ \A k \in Job \ {j} : jobs'[k] = jobs[k]
        /\ jobs[j].at = "append" /\ jobs'[j].at = "look" /\ jobs'[j].targets = jobs[j].targets
    BY <1>0, <1>3, AppendEffect DEF Onward
  <2> QED BY <1>a, <2>1, <2>2, MarksKept DEF Marking
<1>4. ASSUME NEW j \in Job, Look(j) PROVE MInv'
  <2>1. UNCHANGED <<server, marked, others, theirs, crowded, late, faults>>
    BY <1>4 DEF Look
  <2>2. /\ \A k \in Job \ {j} : jobs'[k] = jobs[k]
        /\ jobs[j].at = "look" /\ jobs'[j].targets = jobs[j].targets
    BY <1>0, <1>4, LookEffect DEF Onward
  <2>3. ~Marking(j)' /\ (jobs'[j].at \in {"search", "lift"} => ~server.uidplus)
    <3>1. jobs'[j].at = IF DistinctCopy(j) THEN Deletion(jobs[j].targets) ELSE "done"
      BY <1>0, <1>4 DEF Look, Types, FolderTypeOK, Session
    <3> QED BY <2>1, <3>1 DEF Deletion, Marking
  <2> QED BY <1>a, <2>1, <2>2, <2>3, MarksKept DEF Marking
<1>5. ASSUME NEW j \in Job, Search(j) PROVE MInv'
  <2>1. UNCHANGED <<server, marked, others, theirs, late, faults>>
    BY <1>5 DEF Search
  <2>2. /\ \A k \in Job \ {j} : jobs'[k] = jobs[k]
        /\ jobs[j].at = "search" /\ jobs'[j].targets = jobs[j].targets
        /\ jobs'[j].at \in {"mark", "lift"}
    BY <1>0, <1>5, SearchEffect DEF Onward
  <2>3. /\ jobs'[j].foreign = (marked \cap Mail) \ jobs[j].targets
        /\ jobs'[j].at = IF (marked \cap Mail) \ jobs[j].targets = {} THEN "mark" ELSE "lift"
    BY <1>0, <1>5 DEF Search, Types, FolderTypeOK, Session
  <2>4. DraftTargets'
    BY <2>2 DEF MInv, DraftTargets
  <2>5. \A k \in Job \ {j} : Marking(k)' <=> Marking(k)
    BY <2>1, <2>2 DEF Marking
  <2>6. ASSUME ~crowded' PROVE ~crowded /\ \A k \in Job \ {j} : ~Marking(k)'
    BY <1>5, <2>5, <2>6 DEF Search
  <2>7. OneMarking'
    BY <2>6 DEF OneMarking
  <2>8. MarksHeld'
    <3>1. SUFFICES ASSUME ~crowded', ~late'
                   PROVE  /\ others' = Other
                          /\ \A k \in Job : Marking(k)' =>
                               /\ jobs'[k].at = "lift" => marked' \cap Other \subseteq jobs'[k].foreign
                               /\ jobs'[k].at \in {"mark", "expunge"} => marked' \cap Other = {}
                               /\ faults' = Faults => theirs' \subseteq jobs'[k].foreign
                          /\ faults' = Faults /\ ~(\E k \in Job : Marking(k)') => theirs' \subseteq marked'
      BY DEF MarksHeld
    <3>2. others = Other /\ ~Marking(j) /\ ~crowded /\ ~late
      BY <2>1, <2>2, <2>6, <3>1 DEF MInv, MarksHeld, Marking
    <3>3. ~(\E k \in Job : Marking(k))
      BY <2>5, <2>6, <3>1, <3>2
    <3>4. faults = Faults => theirs \subseteq marked
      BY <3>2, <3>3 DEF MInv, MarksHeld
    <3>5. marked \cap Other \subseteq jobs'[j].foreign
      BY <1>b, <2>3, <3>2 DEF Mail
    <3>6. jobs'[j].at = "mark" => marked \cap Other = {}
      BY <2>3, <3>5
    <3>7. ASSUME NEW k \in Job, Marking(k)' PROVE k = j
      BY <2>6, <3>1, <3>7
    <3> QED BY <1>a, <2>1, <2>2, <3>2, <3>4, <3>5, <3>6, <3>7
  <2>9. PlainOnly'
    BY <2>1, <2>2 DEF MInv, PlainOnly
  <2> QED BY <2>4, <2>7, <2>8, <2>9 DEF MInv
<1>6. ASSUME NEW j \in Job, Lift(j) \/ Mark(j) \/ Expunge(j) \/ Restore(j) PROVE MInv'
  <2>1. UNCHANGED <<server, theirs, late, faults, crowded>>
    BY <1>6 DEF Lift, Mark, Expunge, Restore
  <2>2. /\ \A k \in Job \ {j} : jobs'[k] = jobs[k]
        /\ jobs'[j].targets = jobs[j].targets /\ jobs'[j].foreign = jobs[j].foreign
    BY <1>0, <1>6, DeletionEffect DEF Onward
  <2>3. DraftTargets'
    BY <2>2 DEF MInv, DraftTargets
  <2>4. \A k \in Job \ {j} : Marking(k)' <=> Marking(k)
    BY <2>1, <2>2 DEF Marking
  <2>5. Marking(j)' => Marking(j)
    BY <1>0, <1>6, <2>1, DeletionEffect DEF Marking, Lift, Mark, Expunge, Restore
  <2>6. OneMarking'
    BY <2>1, <2>4, <2>5 DEF MInv, OneMarking
  <2>7. MarksHeld'
    <3>1. SUFFICES ASSUME ~crowded, ~late
                   PROVE  /\ others' = Other
                          /\ \A k \in Job : Marking(k)' =>
                               /\ jobs'[k].at = "lift" => marked' \cap Other \subseteq jobs'[k].foreign
                               /\ jobs'[k].at \in {"mark", "expunge"} => marked' \cap Other = {}
                               /\ faults = Faults => theirs \subseteq jobs'[k].foreign
                          /\ faults = Faults /\ ~(\E k \in Job : Marking(k)') => theirs \subseteq marked'
      BY <2>1 DEF MarksHeld
    <3>2. others = Other
      BY <3>1 DEF MInv, MarksHeld
    <3>3. CASE server.uidplus
      <4>1. \A k \in Job : ~Marking(k) /\ ~Marking(k)'
        BY <2>1, <3>3 DEF Marking
      <4>2. faults = Faults => theirs \subseteq marked
        BY <3>1, <4>1 DEF MInv, MarksHeld
      <4>3. ~Lift(j)
        BY <3>3 DEF Lift, MInv, PlainOnly
      <4>4. CASE Mark(j)
        BY <3>2, <4>1, <4>2, <4>4 DEF Mark
      <4>5. CASE Expunge(j)
        <5>1. others' = others \ (marked \cap jobs[j].targets)
              /\ marked' = marked \ (marked \cap jobs[j].targets)
          BY <3>3, <4>5 DEF Expunge
        <5>2. others' = Other /\ (theirs \subseteq marked => theirs \subseteq marked')
          BY <1>a, <1>b, <3>2, <5>1
        <5> QED BY <4>1, <4>2, <5>2
      <4>6. CASE Restore(j)
        BY <3>2, <4>1, <4>2, <4>6 DEF Restore
      <4> QED BY <1>6, <4>3, <4>4, <4>5, <4>6
    <3>4. CASE ~server.uidplus
      <4>1. Marking(j)
        BY <1>6, <3>4 DEF Lift, Mark, Expunge, Restore, Marking
      <4>2. ASSUME NEW k \in Job, Marking(k)' PROVE k = j
        BY <2>4, <3>1, <4>1, <4>2 DEF MInv, OneMarking
      <4>3. /\ jobs[j].at = "lift" => marked \cap Other \subseteq jobs[j].foreign
            /\ jobs[j].at \in {"mark", "expunge"} => marked \cap Other = {}
            /\ faults = Faults => theirs \subseteq jobs[j].foreign
        BY <3>1, <4>1 DEF MInv, MarksHeld
      <4>4. CASE Lift(j)
        <5>1. jobs'[j].at = "mark" /\ marked' = marked \ jobs[j].foreign /\ others' = others
              /\ jobs[j].at = "lift"
          BY <1>0, <4>4 DEF Lift, Types, FolderTypeOK, Session
        <5>2. Marking(j)'
          BY <2>1, <3>4, <5>1 DEF Marking
        <5> QED BY <2>2, <3>2, <4>2, <4>3, <5>1, <5>2
      <4>5. CASE Mark(j)
        <5>1. jobs'[j].at = "expunge" /\ marked' = marked \cup (jobs[j].targets \cap Mail)
              /\ others' = others /\ jobs[j].at = "mark"
          BY <1>0, <4>5 DEF Mark, Types, FolderTypeOK, Session
        <5>2. Marking(j)' /\ marked' \cap Other = {}
          BY <1>b, <2>1, <3>4, <4>3, <5>1 DEF Marking
        <5> QED BY <2>2, <3>2, <4>2, <4>3, <5>1, <5>2
      <4>6. CASE Expunge(j)
        <5>1. /\ jobs'[j].at = IF jobs[j].foreign = {} THEN "done" ELSE "restore"
              /\ others' = others \ marked /\ jobs[j].at = "expunge"
          BY <1>0, <3>4, <4>6 DEF Expunge, Types, FolderTypeOK, Session
        <5>2. others' = Other
          BY <3>2, <4>3, <5>1
        <5>3. CASE jobs[j].foreign = {}
          BY <2>2, <4>2, <4>3, <5>1, <5>2, <5>3 DEF Marking
        <5>4. CASE jobs[j].foreign # {}
          <6>1. Marking(j)' /\ jobs'[j].at = "restore"
            BY <2>1, <3>4, <5>1, <5>4 DEF Marking
          <6> QED BY <2>2, <4>2, <4>3, <5>2, <6>1
        <5> QED BY <5>3, <5>4
      <4>7. CASE Restore(j)
        <5>1. /\ jobs'[j].at = "done" /\ marked' = marked \cup (jobs[j].foreign \cap Mail)
              /\ others' = others
          BY <1>0, <4>7 DEF Restore, Types, FolderTypeOK, Session
        <5>2. ~Marking(j)'
          BY <5>1 DEF Marking
        <5>3. theirs \subseteq jobs[j].foreign => theirs \subseteq marked'
          BY <1>a, <3>2, <5>1 DEF Mail
        <5> QED BY <3>2, <4>2, <4>3, <5>1, <5>2, <5>3
      <4> QED BY <1>6, <4>4, <4>5, <4>6, <4>7
    <3> QED BY <3>3, <3>4
  <2>8. PlainOnly'
    <3>1. jobs'[j].at \notin {"search", "lift"}
      BY <1>0, <1>6, DeletionEffect
    <3> QED BY <2>1, <2>2, <3>1 DEF MInv, PlainOnly
  <2> QED BY <2>3, <2>6, <2>7, <2>8 DEF MInv
<1>7. ASSUME NEW j \in Job, Break(j) PROVE MInv'
  <2>1. UNCHANGED <<server, marked, others, theirs, crowded, late>> /\ faults' = faults - 1
    BY <1>7 DEF Break, Fault
  <2>2. /\ \A k \in Job \ {j} : jobs'[k] = jobs[k]
        /\ jobs'[j].targets = jobs[j].targets /\ jobs'[j].foreign = jobs[j].foreign
        /\ jobs'[j].at \in {"restore", "done"}
    BY <1>0, <1>7, BreakEffect DEF Onward
  <2>3. Marking(j)' => Marking(j)
    <3>1. jobs'[j].at = "restore" => jobs[j].at \in {"mark", "expunge"}
      BY <1>0, <1>7 DEF Break, Types, FolderTypeOK, Session
    <3> QED BY <2>1, <2>2, <3>1 DEF Marking
  <2>4. faults' # Faults
    BY <1>a, <2>1
  <2>5. Marking(j)' => jobs'[j].at = "restore"
    BY <2>2 DEF Marking
  <2> QED BY <1>a, <2>1, <2>2, <2>3, <2>4, <2>5, MarksKept
<1>8. ASSUME NEW j \in Job, Free(j) PROVE MInv'
  <2>1. UNCHANGED <<server, marked, others, theirs, crowded, late, faults>> /\ jobs[j].at = "done"
    BY <1>8 DEF Free
  <2>2. (\A k \in Job \ {j} : jobs'[k] = jobs[k]) /\ jobs'[j] = Idle
    BY <1>0, <1>8, RestEffect
  <2> QED BY <2>1, <2>2, IdleSession, MarksKept DEF Marking
<1>9. ASSUME NEW u \in Other, MarkElsewhere(u) PROVE MInv'
  <2>1. /\ UNCHANGED <<server, others, jobs, faults, crowded>>
        /\ marked' = marked \cup {u} /\ theirs' = theirs \cup {u}
        /\ late' = (late \/ \E k \in Job : Marking(k))
    BY <1>9 DEF MarkElsewhere
  <2>2. \A k \in Job : Marking(k)' <=> Marking(k)
    BY <2>1 DEF Marking
  <2>3. DraftTargets' /\ PlainOnly' /\ OneMarking'
    BY <2>1, <2>2 DEF MInv, DraftTargets, PlainOnly, OneMarking
  <2>4. MarksHeld'
    BY <2>1, <2>2 DEF MInv, MarksHeld
  <2> QED BY <2>3, <2>4 DEF MInv
<1>10. CASE Quit
  <2>1. /\ UNCHANGED <<server, marked, others, theirs, crowded, late>> /\ faults' = faults - 1
        /\ \A k \in Job : jobs'[k] = Idle
    BY <1>10 DEF Quit, Fault
  <2>2. faults' # Faults
    BY <1>a, <2>1
  <2>3. \A k \in Job : ~Marking(k)' /\ jobs'[k].targets = {} /\ jobs'[k].at = "idle"
    BY <2>1, IdleSession DEF Marking
  <2>4. DraftTargets' /\ PlainOnly' /\ OneMarking'
    BY <2>3 DEF DraftTargets, PlainOnly, OneMarking
  <2>5. MarksHeld'
    BY <2>1, <2>2, <2>3 DEF MInv, MarksHeld
  <2> QED BY <2>4, <2>5 DEF MInv
<1>11. CASE UNCHANGED folderVars
  BY <1>11 DEF folderVars, MInv, DraftTargets, PlainOnly, OneMarking, MarksHeld, Marking
<1> QED
  BY <1>1, <1>2, <1>3, <1>4, <1>5, <1>6, <1>7, <1>8, <1>9, <1>10, <1>11 DEF FolderNext, Command

LEMMA MarksInvariant == FolderSpec => []MInv
<1>1. FolderInit => MInv
  BY InitMarks
<1>2. IInv /\ MInv /\ [FolderNext]_folderVars => MInv'
  BY NextMarks
<1> QED BY <1>1, <1>2, FolderInvariant, PTL DEF FolderSpec

(* What another client has merely marked survives Pelton's deletions, and   *)
(* its mark too when nothing failed, on servers with and without UIDPLUS;  *)
(* the two exceptions are deletions that overlap and a mark set while one  *)
(* runs.                                                                   *)
THEOREM OthersKept == FolderSpec => []OnlyThose
<1>1. MInv => OnlyThose
  BY DEF MInv, MarksHeld, OnlyThose
<1> QED BY <1>1, MarksInvariant, PTL

-----------------------------------------------------------------------------
(* The panes and the local drafts *)

\* A pane, and what its save in flight knows.
GoodPane ==
  {x \in Pane : /\ x.run.step # "none" => x.saves # <<>>
                /\ x.run.step = "session" => x.run.job \in Job
                /\ x.run.step = "remove" => x.run.link \in Link}

\* A draft that is not sealed has a Message-ID.
GoodDraft == {d \in Draft : ~d.sealed => d.link \in Link}

GoodDrafts ==
  /\ IsFiniteSet(DOMAIN drafts) /\ DOMAIN drafts \subseteq Nat \ {0}
  /\ \A d \in DOMAIN drafts : drafts[d] \in GoodDraft

GoodPanes ==
  /\ panes \in Seq(GoodPane) /\ Len(panes) <= MaxPanes
  /\ made \in Seq(SUBSET Nat) /\ Len(made) = Len(panes)

GoodRest ==
  /\ links \subseteq Link /\ edits \in 0..MaxEdits /\ outbox \subseteq Nat
  /\ left \in [clicks : 0..Clicks, errors : 0..Errors]

DInv == GoodDrafts /\ GoodPanes /\ GoodRest

-----------------------------------------------------------------------------
(* Panes and drafts *)

HIDE FolderAssumption DEF history
USE DraftsAssumption

LEMMA PaneAt ==
  ASSUME GoodPanes, NEW p \in DOMAIN panes
  PROVE  panes[p] \in GoodPane
<1>1. p \in 1..Len(panes)
  BY LenProperties DEF GoodPanes
<1> QED BY <1>1, ElementOfSeq DEF GoodPanes

LEMMA PutGood ==
  ASSUME GoodPanes, NEW p \in DOMAIN panes, NEW x \in GoodPane, Put(p, x), UNCHANGED made
  PROVE  GoodPanes'
<1>1. p \in 1..Len(panes)
  BY LenProperties DEF GoodPanes
<1>2. [panes EXCEPT ![p] = x] \in Seq(GoodPane) /\ Len([panes EXCEPT ![p] = x]) = Len(panes)
  BY <1>1, ExceptSeq DEF GoodPanes
<1> QED BY <1>2 DEF GoodPanes, Put

LEMMA AddGood ==
  ASSUME NEW ps \in Seq(GoodPane), Len(ps) < MaxPanes,
         made \in Seq(SUBSET Nat), Len(made) = Len(ps),
         NEW x \in GoodPane, Add(ps, x)
  PROVE  GoodPanes'
<1>1. panes' \in Seq(GoodPane) /\ Len(panes') = Len(ps) + 1
  BY AppendProperties DEF Add
<1>2. made' \in Seq(SUBSET Nat) /\ Len(made') = Len(made) + 1
  BY AppendProperties DEF Add
<1>3. Len(ps) \in Nat
  BY LenProperties
<1> QED BY <1>1, <1>2, <1>3 DEF GoodPanes

LEMMA NoRunType ==
  /\ NoRun.step = "none"
  /\ NoRun \in [step : {"none", "save", "saved", "upload", "remove", "session"},
                draftId : Nat, link : Link \cup {NoLink}, encrypt : BOOLEAN,
                content : Nat, job : Job \cup {NoDraft}]
BY DEF NoRun

LEMMA NoneType ==
  None \in [for : {"nothing", "send", "discard"}, after : Nat,
            step : {"wait", "queue", "delete", "close"}, draftId : Nat, content : Nat]
BY DEF None

LEMMA NewPaneGood ==
  ASSUME NEW content \in Nat, NEW draftId \in Nat, NEW link \in Link \cup {NoLink},
         NEW encrypt \in BOOLEAN, NEW saved \in Nat
  PROVE  NewPane(content, draftId, link, encrypt, saved) \in GoodPane
<1>1. <<>> \in Seq(BOOLEAN)
  BY EmptySeq
<1>2. NewPane(content, draftId, link, encrypt, saved) \in Pane
  BY <1>1, NoRunType, NoneType DEF NewPane, Pane
<1> QED BY <1>2, NoRunType DEF NewPane, GoodPane

LEMMA EndedGood ==
  ASSUME NEW x \in Pane, x.saves # <<>>
  PROVE  Ended(x) \in GoodPane
<1>1. Tail(x.saves) \in Seq(BOOLEAN)
  BY HeadTailProperties DEF Pane
<1> DEFINE after == IF x.wait.after = 0 THEN 0 ELSE x.wait.after - 1
<1>2. [x.wait EXCEPT !.after = after] \in
        [for : {"nothing", "send", "discard"}, after : Nat,
         step : {"wait", "queue", "delete", "close"}, draftId : Nat, content : Nat]
  <2>1. x.wait.after \in Nat
    BY DEF Pane
  <2>2. after \in Nat
    BY <2>1
  <2> HIDE DEF after
  <2> QED BY <2>2 DEF Pane
<1>3. Ended(x) \in Pane
  BY <1>1, <1>2, NoRunType DEF Ended, Pane
<1>4. Ended(x).run = NoRun
  BY DEF Ended, Pane
<1> QED BY <1>3, <1>4, NoRunType DEF GoodPane

LEMMA NextDraftIdType ==
  ASSUME GoodDrafts
  PROVE  NextDraftId \in Nat \ {0} /\ NextDraftId \notin DOMAIN drafts
<1> DEFINE S == {0} \cup DOMAIN drafts
           f == [x \in S |-> x]
<1>1. IsFiniteSet(S) /\ S \subseteq Nat
  <2>1. S \subseteq Nat
    BY DEF GoodDrafts
  <2>2. IsFiniteSet({0}) /\ IsFiniteSet(DOMAIN drafts)
    BY FS_Singleton DEF GoodDrafts
  <2> QED BY <2>1, <2>2, FS_Union
<1>2. f \in [S -> Nat]
  BY <1>1
<1>3. PICK b \in Nat : \A x \in S : f[x] <= b
  <2> HIDE DEF f, S
  <2> QED BY <1>1, <1>2, FiniteBounded
<1>4. S \in SUBSET (0..b) /\ S # {}
  <2>1. \A x \in S : f[x] = x
    OBVIOUS
  <2>2. 0 \in S
    OBVIOUS
  <2> HIDE DEF f, S
  <2> QED BY <1>1, <1>3, <2>1, <2>2
<1>5. Max(S) \in S /\ \A x \in S : x <= Max(S)
  <2> HIDE DEF S
  <2> QED BY <1>4, MaxOfBounded
<1>6. 1 + Max(S) \in Nat \ {0} /\ 1 + Max(S) \notin S
  <2> DEFINE m == Max(S)
  <2>1. m \in Nat /\ \A x \in S : x \in Nat /\ x <= m
    BY <1>1, <1>5
  <2> HIDE DEF S, m
  <2>2. 1 + m \in Nat \ {0} /\ 1 + m \notin S
    BY <2>1
  <2> QED BY <2>2 DEF m
<1> QED BY <1>6 DEF NextDraftId

-----------------------------------------------------------------------------
(* The user *)

LEMMA GoodKept ==
  ASSUME DInv, UNCHANGED drafts
  PROVE  GoodDrafts'
BY DEF DInv, GoodDrafts

LEMMA RestKept ==
  ASSUME DInv, UNCHANGED <<links, edits, outbox, left>>
  PROVE  GoodRest'
BY DEF DInv, GoodRest

LEMMA ClickGood ==
  ASSUME DInv, Click \/ Error, UNCHANGED <<links, edits, outbox>>
  PROVE  GoodRest'
<1>1. left' \in [clicks : 0..Clicks, errors : 0..Errors]
  BY DEF Click, Error, DInv, GoodRest
<1> QED BY <1>1 DEF DInv, GoodRest

LEMMA EditsNext ==
  ASSUME DInv, edits < MaxEdits
  PROVE  edits + 1 \in Nat /\ edits + 1 \in 0..MaxEdits
BY DEF DInv, GoodRest

LEMMA ComposeGood ==
  ASSUME DInv, Compose
  PROVE  DInv'
<1>1. NewPane(edits + 1, 0, NoLink, FALSE, 0) \in GoodPane
  BY EditsNext, NewPaneGood DEF Compose
<1>2. GoodPanes'
  BY <1>1, AddGood DEF Compose, DInv, GoodPanes
<1>3. GoodRest'
  BY EditsNext DEF Compose, DInv, GoodRest
<1> QED BY <1>2, <1>3, GoodKept DEF DInv, Compose

LEMMA UndoSendGood ==
  ASSUME DInv, UndoSend
  PROVE  DInv'
<1>1. PICK content \in outbox, p \in DOMAIN panes :
        /\ outbox' = outbox \ {content}
        /\ Add(panes, NewPane(content, 0, NoLink, panes[p].encrypt, 0))
  BY DEF UndoSend
<1>2. panes[p].encrypt \in BOOLEAN
  BY PaneAt DEF DInv, GoodPane, Pane
<1>3. content \in Nat
  BY DEF DInv, GoodRest
<1>4. NewPane(content, 0, NoLink, panes[p].encrypt, 0) \in GoodPane
  BY <1>2, <1>3, NewPaneGood
<1>5. GoodPanes'
  BY <1>1, <1>4, AddGood DEF UndoSend, DInv, GoodPanes
<1>6. left' \in [clicks : 0..Clicks, errors : 0..Errors]
  BY SMTT(30) DEF UndoSend, Click, DInv, GoodRest
<1>7. GoodRest'
  BY <1>1, <1>6 DEF UndoSend, DInv, GoodRest
<1> QED BY <1>5, <1>7, GoodKept DEF DInv, UndoSend

LEMMA OpenDraftGood ==
  ASSUME DInv, NEW id \in DOMAIN drafts, OpenDraft(id)
  PROVE  DInv'
<1> DEFINE d == drafts[id]
<1>1. /\ d.content \in Nat /\ d.link \in Link \cup {NoLink}
      /\ d.sealed \in BOOLEAN /\ id \in Nat
  BY DEF DInv, GoodDrafts, GoodDraft, Draft
<1>2. NewPane(d.content, id, d.link, d.sealed, d.content) \in GoodPane
  BY <1>1, NewPaneGood
<1>3. GoodPanes'
  BY <1>2, AddGood DEF OpenDraft, DInv, GoodPanes
<1> QED BY <1>3, GoodKept, ClickGood DEF DInv, OpenDraft

LEMMA EditGood ==
  ASSUME DInv, NEW p \in DOMAIN panes, Edit(p)
  PROVE  DInv'
<1>1. PICK encrypt \in BOOLEAN :
        Put(p, [panes[p] EXCEPT !.content = edits + 1, !.encrypt = encrypt])
  BY DEF Edit
<1>2. panes[p] \in GoodPane
  BY PaneAt DEF DInv
<1>3. [panes[p] EXCEPT !.content = edits + 1, !.encrypt = encrypt] \in GoodPane
  BY <1>2, EditsNext DEF GoodPane, Pane, Edit
<1>4. GoodPanes'
  BY <1>1, <1>3, PutGood DEF DInv, Edit
<1>5. GoodRest'
  BY EditsNext DEF Edit, DInv, GoodRest
<1> QED BY <1>4, <1>5, GoodKept DEF DInv, Edit

LEMMA ClickSaveGood ==
  ASSUME DInv, NEW p \in DOMAIN panes, ClickSave(p)
  PROVE  DInv'
<1>1. PICK closing \in BOOLEAN : Put(p, [panes[p] EXCEPT !.saves = Append(@, closing)])
  BY DEF ClickSave
<1>2. panes[p] \in GoodPane
  BY PaneAt DEF DInv
<1>3. panes[p].saves \in Seq(BOOLEAN)
  BY <1>2 DEF GoodPane, Pane
<1>4. Append(panes[p].saves, closing) \in Seq(BOOLEAN) /\ Append(panes[p].saves, closing) # <<>>
  BY <1>3, AppendProperties
<1>5. [panes[p] EXCEPT !.saves = Append(panes[p].saves, closing)] \in GoodPane
  BY <1>2, <1>4 DEF GoodPane, Pane
<1>6. GoodPanes'
  BY <1>1, <1>5, PutGood DEF DInv, ClickSave
<1> QED BY <1>6, GoodKept, ClickGood DEF DInv, ClickSave

LEMMA ClickSendOrDiscardGood ==
  ASSUME DInv, NEW p \in DOMAIN panes, ClickSendOrDiscard(p)
  PROVE  DInv'
<1>1. PICK for \in {"send", "discard"} :
        Put(p, [panes[p] EXCEPT !.wait = [None EXCEPT !.for = for, !.after = Len(panes[p].saves)]])
  BY DEF ClickSendOrDiscard
<1>2. panes[p] \in GoodPane
  BY PaneAt DEF DInv
<1>3. Len(panes[p].saves) \in Nat
  BY <1>2, LenProperties DEF GoodPane, Pane
<1>4. [None EXCEPT !.for = for, !.after = Len(panes[p].saves)] \in
        [for : {"nothing", "send", "discard"}, after : Nat,
         step : {"wait", "queue", "delete", "close"}, draftId : Nat, content : Nat]
  BY <1>3, NoneType
<1>5. [panes[p] EXCEPT !.wait = [None EXCEPT !.for = for, !.after = Len(panes[p].saves)]]
        \in GoodPane
  BY <1>2, <1>4 DEF GoodPane, Pane
<1>6. GoodPanes'
  BY <1>1, <1>5, PutGood DEF DInv, ClickSendOrDiscard
<1> QED BY <1>6, GoodKept, ClickGood DEF DInv, ClickSendOrDiscard

LEMMA CloseGood ==
  ASSUME DInv, NEW p \in DOMAIN panes, Close(p)
  PROVE  DInv'
<1>1. panes[p] \in GoodPane
  BY PaneAt DEF DInv
<1>2. [panes[p] EXCEPT !.open = FALSE] \in GoodPane
  BY ZenonT(40), <1>1 DEF GoodPane, Pane
<1>3. GoodPanes'
  BY <1>2, PutGood DEF DInv, Close
<1> QED BY <1>3, GoodKept, RestKept DEF DInv, Close

-----------------------------------------------------------------------------
(* Saving *)

LEMMA StartSaveGood ==
  ASSUME DInv, NEW p \in DOMAIN panes, StartSave(p)
  PROVE  DInv'
<1> DEFINE now == panes[p]
           run == [step |-> "save", draftId |-> now.draftId, link |-> now.link,
                   encrypt |-> now.encrypt, content |-> now.content, job |-> NoDraft]
<1>1. now \in GoodPane
  BY PaneAt DEF DInv
<1>2. [now EXCEPT !.run = run] \in GoodPane
  BY <1>1 DEF GoodPane, Pane, StartSave
<1>3. GoodPanes'
  BY <1>2, PutGood DEF DInv, StartSave
<1> QED BY <1>3, GoodKept, RestKept DEF DInv, StartSave

LEMMA SaveFailsGood ==
  ASSUME DInv, NEW p \in DOMAIN panes, SaveFails(p)
  PROVE  DInv'
<1>1. panes[p] \in Pane /\ panes[p].saves # <<>>
  BY PaneAt DEF DInv, GoodPane, SaveFails
<1>2. GoodPanes'
  BY <1>1, EndedGood, PutGood DEF DInv, SaveFails
<1>3. GoodRest'
  BY RestKept, ClickGood DEF SaveFails
<1> QED BY <1>2, <1>3, GoodKept DEF DInv, SaveFails

\* The Message-ID a save is stored under.
LEMMA LinkForType ==
  ASSUME DInv, NEW p \in DOMAIN panes, NEW id, NEW link \in LinkFor(id, panes[p].run)
  PROVE  /\ link \in Link \cup {NoLink}
         /\ ~panes[p].run.encrypt => link \in Link
<1>1. panes[p].run.link \in Link \cup {NoLink}
  BY PaneAt DEF DInv, GoodPane, Pane
<1>2. CASE id \in DOMAIN drafts /\ drafts[id].link # NoLink
  BY <1>2 DEF LinkFor, DInv, GoodDrafts, GoodDraft, Draft
<1>3. CASE ~(id \in DOMAIN drafts /\ drafts[id].link # NoLink)
  <2>1. CASE panes[p].run.link # NoLink \/ panes[p].run.encrypt
    BY <1>1, <1>3, <2>1 DEF LinkFor
  <2>2. CASE ~(panes[p].run.link # NoLink \/ panes[p].run.encrypt)
    <3>1. link \in FreshLinks
      BY <1>3, <2>2 DEF LinkFor
    <3>2. link \in Link
      BY <3>1 DEF FreshLinks, DInv, GoodRest
    <3> QED BY <3>2
  <2> QED BY <2>1, <2>2
<1> QED BY <1>2, <1>3

LEMMA StoredGood ==
  ASSUME DInv, NEW id \in Nat \ {0}, NEW d \in GoodDraft, drafts' = With(id, d)
  PROVE  GoodDrafts'
<1>1. DOMAIN drafts' = {id} \cup DOMAIN drafts
  BY DEF With
<1>2. IsFiniteSet({id}) /\ IsFiniteSet(DOMAIN drafts)
  BY FS_Singleton DEF DInv, GoodDrafts
<1>3. IsFiniteSet(DOMAIN drafts')
  BY ZenonT(40), <1>1, <1>2, FS_Union
<1>4. \A x \in DOMAIN drafts' : drafts'[x] = d \/ (x \in DOMAIN drafts /\ drafts'[x] = drafts[x])
  BY <1>1 DEF With
<1>5. \A x \in DOMAIN drafts' : drafts'[x] \in GoodDraft
  BY <1>4 DEF DInv, GoodDrafts
<1>6. DOMAIN drafts' \subseteq Nat \ {0}
  BY <1>1 DEF DInv, GoodDrafts
<1> QED BY <1>3, <1>5, <1>6 DEF GoodDrafts

LEMMA SaveDraftGood ==
  ASSUME DInv, NEW p \in DOMAIN panes, SaveDraft(p)
  PROVE  DInv'
<1> DEFINE run == panes[p].run
           id  == IF run.draftId = 0 THEN NextDraftId ELSE run.draftId
<1>1. panes[p] \in GoodPane /\ run.draftId \in Nat
  BY PaneAt DEF DInv, GoodPane, Pane
<1>2. id \in Nat \ {0}
  BY <1>1, NextDraftIdType DEF DInv
<1>3. PICK link \in LinkFor(id, run) :
        /\ drafts' = With(id, [sealed |-> run.encrypt, link |-> link,
                               content |-> run.content])
        /\ links' = links \cup ({link} \ {NoLink})
  BY DEF SaveDraft
<1>4. link \in Link \cup {NoLink} /\ (~run.encrypt => link \in Link)
  BY LinkForType
<1>5. [sealed |-> run.encrypt, link |-> link, content |-> run.content] \in GoodDraft
  BY <1>1, <1>4 DEF GoodPane, Pane, GoodDraft, Draft
<1>6. GoodDrafts'
  <2> HIDE DEF id
  <2> QED BY <1>2, <1>3, <1>5, StoredGood
<1>7. [panes[p] EXCEPT !.run.step = "saved", !.run.draftId = id] \in GoodPane
  <2> HIDE DEF id
  <2> QED BY <1>1, <1>2 DEF GoodPane, Pane, SaveDraft
<1>8. Put(p, [panes[p] EXCEPT !.run.step = "saved", !.run.draftId = id])
  BY DEF SaveDraft
<1>9. panes' \in Seq(GoodPane) /\ Len(panes') = Len(panes)
  <2>1. p \in 1..Len(panes)
    BY LenProperties DEF DInv, GoodPanes
  <2> QED BY <1>7, <1>8, <2>1, ExceptSeq DEF DInv, GoodPanes, Put
<1>10. made' \in Seq(SUBSET Nat) /\ Len(made') = Len(made)
  <2>1. p \in 1..Len(made) /\ made \in Seq(SUBSET Nat)
    BY LenProperties DEF DInv, GoodPanes
  <2>2. made[p] \cup {id} \in SUBSET Nat
    <3>1. made[p] \in SUBSET Nat
      BY <2>1, ElementOfSeq
    <3> QED BY <3>1, <1>2
  <2>3. made' = made \/ made' = [made EXCEPT ![p] = made[p] \cup {id}]
    BY DEF SaveDraft
  <2> HIDE DEF id
  <2> QED BY <2>1, <2>2, <2>3, ExceptSeq
<1>11. GoodPanes'
  BY <1>9, <1>10 DEF DInv, GoodPanes
<1>12. GoodRest'
  BY <1>3, <1>4 DEF SaveDraft, DInv, GoodRest
<1> QED BY <1>6, <1>11, <1>12 DEF DInv

LEMMA SavedGood ==
  ASSUME DInv, NEW p \in DOMAIN panes, Saved(p)
  PROVE  DInv'
<1> DEFINE now  == panes[p]
           open == now.open /\ ~Head(now.saves)
           told == [now EXCEPT !.open = open, !.saved = now.run.content,
                               !.draftId = IF open THEN now.run.draftId ELSE @]
           next == IF ~now.run.encrypt THEN [told EXCEPT !.run.step = "upload"]
                   ELSE IF now.run.link # NoLink THEN [told EXCEPT !.run.step = "remove"]
                   ELSE Ended(told)
<1>1. now \in GoodPane /\ now.saves # <<>>
  BY PaneAt DEF DInv, GoodPane, Saved
<1>2. Head(now.saves) \in BOOLEAN
  BY <1>1, HeadTailProperties DEF GoodPane, Pane
<1>3. told \in Pane /\ told.saves = now.saves /\ told.run = now.run
  BY <1>1, <1>2 DEF GoodPane, Pane
<1>4. next \in GoodPane
  <2> HIDE DEF told
  <2>1. now.run.link # NoLink => now.run.link \in Link
    BY <1>1 DEF GoodPane, Pane
  <2>2. [told EXCEPT !.run.step = "upload"] \in GoodPane
    BY ZenonT(40), <1>1, <1>3 DEF GoodPane, Pane
  <2>3. now.run.link # NoLink => [told EXCEPT !.run.step = "remove"] \in GoodPane
    BY <1>1, <1>3, <2>1 DEF GoodPane, Pane
  <2>4. Ended(told) \in GoodPane
    BY <1>1, <1>3, EndedGood
  <2> QED BY <2>2, <2>3, <2>4
<1>5. Put(p, next)
  BY DEF Saved
<1>6. GoodPanes'
  <2> HIDE DEF next
  <2> QED BY <1>4, <1>5, PutGood DEF DInv, Saved
<1> QED BY <1>6, GoodKept, RestKept DEF DInv, Saved

LEMMA SlotIsJob ==
  ASSUME FreeSlots # {}
  PROVE  Slot \in Job
BY DEF Slot, FreeSlots

LEMMA AwaitGood ==
  ASSUME DInv, NEW p \in DOMAIN panes, NEW op, NEW link, Await(p, op, link),
         panes[p].saves # <<>>
  PROVE  DInv'
<1>1. panes[p] \in GoodPane
  BY PaneAt DEF DInv
<1>2. Slot \in Job
  BY SlotIsJob DEF Await
<1>3. [panes[p] EXCEPT !.run.step = "session", !.run.job = Slot] \in GoodPane
  BY <1>1, <1>2 DEF GoodPane, Pane
<1>4. GoodPanes'
  BY <1>3, PutGood DEF DInv, Await
<1> QED BY <1>4, GoodKept, RestKept DEF DInv, Await

LEMMA InFlight ==
  ASSUME DInv, NEW p \in DOMAIN panes, panes[p].run.step # "none"
  PROVE  panes[p].saves # <<>>
BY PaneAt DEF DInv, GoodPane

LEMMA UploadDraftGood ==
  ASSUME DInv, NEW p \in DOMAIN panes, UploadDraft(p) \/ RemoveServerDraft(p)
  PROVE  DInv'
<1>1. panes[p].saves # <<>>
  BY InFlight DEF UploadDraft, RemoveServerDraft
<1> QED BY <1>1, AwaitGood DEF UploadDraft, RemoveServerDraft

LEMMA UploadFailedGood ==
  ASSUME DInv, NEW p \in DOMAIN panes, panes[p].run.step # "none", UploadFailed(p)
  PROVE  GoodPanes'
<1> DEFINE run == panes[p].run
           ps  == [panes EXCEPT ![p] = Ended(panes[p])]
<1>1. panes[p] \in GoodPane /\ panes[p] \in Pane
  BY PaneAt DEF DInv, GoodPane
<1>2. Ended(panes[p]) \in GoodPane
  BY <1>1, InFlight, EndedGood
<1>3. ps \in Seq(GoodPane) /\ Len(ps) = Len(panes)
  <2>1. p \in 1..Len(panes)
    BY LenProperties DEF DInv, GoodPanes
  <2> QED BY <1>2, <2>1, ExceptSeq DEF DInv, GoodPanes
<1>4. NewPane(run.content, run.draftId, run.link, run.encrypt, run.content) \in GoodPane
  BY <1>1, NewPaneGood DEF Pane
<1>5. CASE panes' = ps /\ UNCHANGED made
  BY <1>3, <1>5 DEF DInv, GoodPanes
<1>6. CASE /\ Len(panes) # MaxPanes
           /\ Add(ps, NewPane(run.content, run.draftId, run.link, run.encrypt, run.content))
  <2>1. Len(ps) < MaxPanes
    BY <1>3, <1>6, LenProperties DEF DInv, GoodPanes
  <2> HIDE DEF ps
  <2> QED BY <1>3, <1>4, <1>6, <2>1, AddGood DEF DInv, GoodPanes
<1> QED BY <1>5, <1>6 DEF UploadFailed

LEMMA NothingToUploadGood ==
  ASSUME DInv, NEW p \in DOMAIN panes, NothingToUpload(p)
  PROVE  DInv'
<1>1. GoodPanes'
  BY UploadFailedGood DEF NothingToUpload
<1> QED BY <1>1, GoodKept, RestKept DEF DInv, NothingToUpload

LEMMA UploadedGood ==
  ASSUME DInv, FolderTypeOK, NEW p \in DOMAIN panes, Uploaded(p)
  PROVE  DInv'
<1> DEFINE run == panes[p].run
           job == jobs[run.job]
           link == IF job.op = "replace" THEN job.link ELSE NoLink
           next == IF job.failed \/ ~panes[p].open THEN panes[p]
                   ELSE [panes[p] EXCEPT !.link = link]
<1>1. panes[p] \in GoodPane /\ panes[p] \in Pane /\ panes[p].saves # <<>>
  BY PaneAt, InFlight DEF DInv, GoodPane, Uploaded
<1>2. run.job \in Job
  BY <1>1 DEF Uploaded, GoodPane
<1>3. link \in Link \cup {NoLink}
  <2>1. job \in Session
    BY <1>2 DEF FolderTypeOK
  <2> QED BY <2>1 DEF Session
<1>4. next \in Pane /\ next.saves = panes[p].saves
  <2> HIDE DEF link
  <2>1. /\ [panes[p] EXCEPT !.link = link] \in Pane
        /\ [panes[p] EXCEPT !.link = link].saves = panes[p].saves
    BY <1>1, <1>3 DEF Pane
  <2>2. next = panes[p] \/ next = [panes[p] EXCEPT !.link = link]
    OBVIOUS
  <2> HIDE DEF next
  <2> QED BY <1>1, <2>1, <2>2
<1>5. Ended(next) \in GoodPane
  <2> HIDE DEF next
  <2> QED BY <1>1, <1>4, EndedGood
<1>6. GoodPanes'
  <2>1. CASE UploadFailed(p)
    BY <2>1, UploadFailedGood DEF Uploaded
  <2>2. CASE Put(p, Ended(next)) /\ UNCHANGED made
    <3> HIDE DEF next
    <3> QED BY <1>5, <2>2, PutGood DEF DInv
  <2> QED BY <2>1, <2>2 DEF Uploaded
<1> QED BY <1>6, GoodKept, RestKept DEF DInv, Uploaded

-----------------------------------------------------------------------------
(* Sending and discarding, and the end of the program *)

LEMMA SettledGood ==
  ASSUME DInv, NEW p \in DOMAIN panes, Settled(p)
  PROVE  DInv'
<1> DEFINE now  == panes[p]
           next == IF now.wait.for = "discard" THEN [now EXCEPT !.open = FALSE, !.wait = None]
                   ELSE [now EXCEPT !.wait.step = "queue", !.wait.draftId = now.draftId,
                                    !.wait.content = now.content]
<1>1. now \in GoodPane
  BY PaneAt DEF DInv
<1>2. next \in GoodPane
  <2>1. [now EXCEPT !.open = FALSE, !.wait = None] \in GoodPane
    BY ZenonT(40), <1>1, NoneType DEF GoodPane, Pane
  <2>2. [now EXCEPT !.wait.step = "queue", !.wait.draftId = now.draftId,
                    !.wait.content = now.content] \in GoodPane
    BY <1>1 DEF GoodPane, Pane
  <2> QED BY <2>1, <2>2
<1>3. Put(p, next)
  BY DEF Settled
<1>4. GoodPanes'
  <2> HIDE DEF next
  <2> QED BY <1>2, <1>3, PutGood DEF DInv, Settled
<1> QED BY <1>4, GoodKept, RestKept DEF DInv, Settled

LEMMA SendFailsGood ==
  ASSUME DInv, NEW p \in DOMAIN panes, SendFails(p)
  PROVE  DInv'
<1>1. panes[p] \in GoodPane
  BY PaneAt DEF DInv
<1>2. [panes[p] EXCEPT !.wait = None] \in GoodPane
  BY <1>1, NoneType DEF GoodPane, Pane
<1>3. GoodPanes'
  BY <1>2, PutGood DEF DInv, SendFails
<1> QED BY <1>3, GoodKept, ClickGood DEF DInv, SendFails

LEMMA SendMessageGood ==
  ASSUME DInv, NEW p \in DOMAIN panes, SendMessage(p)
  PROVE  DInv'
<1> DEFINE step == IF panes[p].wait.draftId = 0 THEN "close" ELSE "delete"
<1>1. panes[p] \in GoodPane
  BY PaneAt DEF DInv
<1>2. [panes[p] EXCEPT !.wait.step = step] \in GoodPane
  <2>1. step \in {"wait", "queue", "delete", "close"}
    OBVIOUS
  <2> HIDE DEF step
  <2> QED BY SMTT(30), <1>1, <2>1 DEF GoodPane, Pane
<1>3. GoodPanes'
  BY <1>2, PutGood DEF DInv, SendMessage
<1>4. panes[p].wait.content \in Nat
  BY <1>1 DEF GoodPane, Pane
<1>5. GoodRest'
  BY <1>4 DEF SendMessage, DInv, GoodRest
<1> QED BY <1>3, <1>5, GoodKept DEF DInv, SendMessage

LEMMA DeleteDraftGood ==
  ASSUME DInv, NEW p \in DOMAIN panes, DeleteDraft(p)
  PROVE  DInv'
<1> DEFINE rest == DOMAIN drafts \ {panes[p].wait.draftId}
<1>1. panes[p] \in GoodPane
  BY PaneAt DEF DInv
<1>2. [panes[p] EXCEPT !.wait.step = "close"] \in GoodPane
  BY <1>1 DEF GoodPane, Pane
<1>3. GoodPanes'
  BY <1>2, PutGood DEF DInv, DeleteDraft
<1>4. drafts' = [d \in rest |-> drafts[d]]
  BY DEF DeleteDraft, Restrict
<1>5. IsFiniteSet(rest)
  <2>1. rest \subseteq DOMAIN drafts /\ IsFiniteSet(DOMAIN drafts)
    BY DEF DInv, GoodDrafts
  <2> HIDE DEF rest
  <2> QED BY <2>1, FS_Subset
<1>6. GoodDrafts'
  BY <1>4, <1>5 DEF DInv, GoodDrafts
<1> QED BY <1>3, <1>6, RestKept DEF DInv, DeleteDraft

LEMMA CloseSentGood ==
  ASSUME DInv, NEW p \in DOMAIN panes, CloseSent(p)
  PROVE  DInv'
<1>1. panes[p] \in GoodPane
  BY PaneAt DEF DInv
<1>2. [panes[p] EXCEPT !.open = FALSE, !.wait = None] \in GoodPane
  BY ZenonT(40), <1>1, NoneType DEF GoodPane, Pane
<1>3. GoodPanes'
  BY <1>2, PutGood DEF DInv, CloseSent
<1> QED BY <1>3, GoodKept, RestKept DEF DInv, CloseSent

LEMMA ExitGood ==
  ASSUME DInv, Exit
  PROVE  DInv'
<1> DEFINE closed(p) == [panes[p] EXCEPT !.open = FALSE, !.saves = <<>>, !.run = NoRun,
                                         !.wait = None]
<1>1. DOMAIN panes = 1..Len(panes) /\ Len(panes) \in Nat
  BY LenProperties DEF DInv, GoodPanes
<1>2. \A p \in DOMAIN panes : closed(p) \in GoodPane
  <2>1. SUFFICES ASSUME NEW p \in DOMAIN panes PROVE closed(p) \in GoodPane
    OBVIOUS
  <2>2. panes[p] \in GoodPane /\ <<>> \in Seq(BOOLEAN)
    BY PaneAt, EmptySeq DEF DInv
  <2> QED BY <2>2, NoRunType, NoneType DEF GoodPane, Pane
<1>3. panes' = [p \in 1..Len(panes) |-> closed(p)]
  BY <1>1 DEF Exit
<1>4. panes' \in Seq(GoodPane) /\ Len(panes') = Len(panes)
  <2> HIDE DEF closed
  <2>1. panes' \in [1..Len(panes) -> GoodPane]
    BY <1>1, <1>2, <1>3
  <2>2. panes' \in Seq(GoodPane)
    BY <1>1, <2>1, SeqDef
  <2>3. DOMAIN panes' = 1..Len(panes')
    BY <2>2, LenProperties
  <2> QED BY <1>1, <2>1, <2>2, <2>3, LenProperties
<1>5. GoodPanes'
  BY <1>4 DEF Exit, DInv, GoodPanes
<1> QED BY <1>5, GoodKept, RestKept DEF DInv, Exit

-----------------------------------------------------------------------------
(* What a step does to the server's folder *)

LEMMA BeginStep ==
  ASSUME NEW op \in {"replace", "remove"}, NEW link \in Link, FreeSlots # {},
         Begin(Slot, op, link)
  PROVE  FolderNext
BY SlotIsJob DEF FolderNext

LEMMA BackgroundStep ==
  ASSUME NEW link \in Link \cup {NoLink}, RemoveInBackground(link)
  PROVE  [FolderNext]_folderVars
<1>1. CASE link = NoLink
  BY <1>1 DEF RemoveInBackground
<1>2. CASE link # NoLink
  <2>1. link \in Link /\ FreeSlots # {} /\ Begin(Slot, "remove", link)
    BY <1>2 DEF RemoveInBackground
  <2> QED BY <2>1, BeginStep
<1> QED BY <1>1, <1>2

LEMMA SaveDraftStep ==
  ASSUME DInv, NEW p \in DOMAIN panes, SaveDraft(p)
  PROVE  [FolderNext]_folderVars
<1> DEFINE run == panes[p].run
           id  == IF run.draftId = 0 THEN NextDraftId ELSE run.draftId
<1>1. PICK link \in LinkFor(id, run) : RemoveInBackground(IF run.encrypt THEN link ELSE NoLink)
  BY DEF SaveDraft
<1>2. link \in Link \cup {NoLink}
  BY LinkForType
<1> QED BY <1>1, <1>2, BackgroundStep

LEMMA UploadDraftStep ==
  ASSUME DInv, NEW p \in DOMAIN panes, UploadDraft(p) \/ RemoveServerDraft(p)
  PROVE  [FolderNext]_folderVars
<1>1. CASE UploadDraft(p)
  <2> DEFINE link == drafts[panes[p].run.draftId].link
  <2>1. FreeSlots # {} /\ Begin(Slot, "replace", link)
    BY <1>1 DEF UploadDraft, Await
  <2>2. link \in Link
    BY <1>1 DEF UploadDraft, Uploadable, DInv, GoodDrafts, GoodDraft, Draft
  <2> QED BY <2>1, <2>2, BeginStep
<1>2. CASE RemoveServerDraft(p)
  <2>1. FreeSlots # {} /\ Begin(Slot, "remove", panes[p].run.link)
    BY <1>2 DEF RemoveServerDraft, Await
  <2>2. panes[p].run.link \in Link
    BY <1>2, PaneAt DEF RemoveServerDraft, DInv, GoodPane
  <2> QED BY <2>1, <2>2, BeginStep
<1> QED BY <1>1, <1>2

LEMMA DeleteDraftStep ==
  ASSUME DInv, NEW p \in DOMAIN panes, DeleteDraft(p)
  PROVE  [FolderNext]_folderVars
<1> DEFINE id   == panes[p].wait.draftId
           link == IF id \in DOMAIN drafts THEN drafts[id].link ELSE NoLink
<1>1. RemoveInBackground(link)
  BY DEF DeleteDraft
<1>2. link \in Link \cup {NoLink}
  BY DEF DInv, GoodDrafts, GoodDraft, Draft
<1> QED BY <1>1, <1>2, BackgroundStep

\* A step of a pane, and one of the user.
LEMMA PaneSteps ==
  ASSUME DInv, FolderTypeOK, NEW p \in DOMAIN panes, Saving(p) \/ Sending(p)
  PROVE  DInv' /\ [FolderNext]_folderVars
<1>1. CASE StartSave(p)
  BY <1>1, StartSaveGood DEF StartSave
<1>2. CASE SaveFails(p)
  BY <1>2, SaveFailsGood DEF SaveFails
<1>3. CASE SaveDraft(p)
  BY <1>3, SaveDraftGood, SaveDraftStep
<1>4. CASE Saved(p)
  BY <1>4, SavedGood DEF Saved
<1>5. CASE UploadDraft(p) \/ RemoveServerDraft(p)
  BY <1>5, UploadDraftGood, UploadDraftStep
<1>6. CASE NothingToUpload(p)
  BY <1>6, NothingToUploadGood DEF NothingToUpload
<1>7. CASE Uploaded(p)
  <2>1. panes[p].run.job \in Job
    BY <1>7, PaneAt DEF Uploaded, DInv, GoodPane
  <2>2. Free(panes[p].run.job)
    BY <1>7 DEF Uploaded
  <2>3. FolderNext
    BY <2>1, <2>2 DEF FolderNext
  <2> QED BY <1>7, <2>3, UploadedGood
<1>8. CASE Settled(p)
  BY <1>8, SettledGood DEF Settled
<1>9. CASE SendFails(p)
  BY <1>9, SendFailsGood DEF SendFails
<1>10. CASE SendMessage(p)
  BY <1>10, SendMessageGood DEF SendMessage
<1>11. CASE DeleteDraft(p)
  BY <1>11, DeleteDraftGood, DeleteDraftStep
<1>12. CASE CloseSent(p)
  BY <1>12, CloseSentGood DEF CloseSent
<1> QED
  BY <1>1, <1>2, <1>3, <1>4, <1>5, <1>6, <1>7, <1>8, <1>9, <1>10, <1>11, <1>12 DEF Saving, Sending

LEMMA UserSteps ==
  ASSUME DInv, User
  PROVE  DInv' /\ UNCHANGED folderVars
<1>1. CASE Compose
  BY <1>1, ComposeGood DEF Compose
<1>2. CASE UndoSend
  BY <1>2, UndoSendGood DEF UndoSend
<1>3. ASSUME NEW id \in DOMAIN drafts, OpenDraft(id) PROVE DInv' /\ UNCHANGED folderVars
  BY <1>3, OpenDraftGood DEF OpenDraft
<1>4. ASSUME NEW p \in DOMAIN panes, Edit(p) PROVE DInv' /\ UNCHANGED folderVars
  BY <1>4, EditGood DEF Edit
<1>5. ASSUME NEW p \in DOMAIN panes, ClickSave(p) PROVE DInv' /\ UNCHANGED folderVars
  BY <1>5, ClickSaveGood DEF ClickSave
<1>6. ASSUME NEW p \in DOMAIN panes, ClickSendOrDiscard(p) PROVE DInv' /\ UNCHANGED folderVars
  BY <1>6, ClickSendOrDiscardGood DEF ClickSendOrDiscard
<1>7. ASSUME NEW p \in DOMAIN panes, Close(p) PROVE DInv' /\ UNCHANGED folderVars
  BY <1>7, CloseGood DEF Close
<1> QED BY <1>1, <1>2, <1>3, <1>4, <1>5, <1>6, <1>7 DEF User

LEMMA LocalKept ==
  ASSUME DInv, UNCHANGED local
  PROVE  DInv'
BY DEF local, DInv, GoodDrafts, GoodPanes, GoodRest

LEMMA MailboxStep ==
  ASSUME Mailbox
  PROVE  FolderNext
BY DEF Mailbox, FolderNext

LEMMA Steps ==
  ASSUME DInv, FolderTypeOK, [Next]_vars
  PROVE  DInv' /\ [FolderNext]_folderVars
<1>1. CASE User
  BY <1>1, UserSteps
<1>2. CASE Mailbox
  BY <1>2, MailboxStep, LocalKept DEF Mailbox
<1>3. CASE Exit
  BY <1>3, ExitGood DEF Exit, FolderNext
<1>4. ASSUME NEW p \in DOMAIN panes, Saving(p) \/ Sending(p)
      PROVE  DInv' /\ [FolderNext]_folderVars
  BY <1>4, PaneSteps
<1>5. CASE UNCHANGED vars
  BY <1>5, LocalKept DEF vars
<1> QED BY <1>1, <1>2, <1>3, <1>4, <1>5 DEF Next

LEMMA InitGood == Init => DInv
<1> SUFFICES ASSUME Init PROVE DInv
  OBVIOUS
<1>1. GoodPanes
  BY EmptySeq DEF Init, GoodPanes
<1>2. GoodDrafts
  <2>1. DOMAIN drafts = {} /\ IsFiniteSet({})
    BY FS_EmptySet DEF Init
  <2> QED BY <2>1 DEF GoodDrafts
<1>3. GoodRest
  BY DEF Init, GoodRest
<1> QED BY <1>1, <1>2, <1>3 DEF DInv

LEMMA DraftsInvariant == Spec => [](DInv /\ Types)
<1>1. Init => DInv /\ Types
  BY InitGood, InitTypes DEF Init
<1>2. DInv /\ Types /\ [Next]_vars => (DInv /\ Types)'
  BY Steps, NextTypes DEF Types
<1> QED BY <1>1, <1>2, PTL DEF Spec

-----------------------------------------------------------------------------
(* The panes of a patient user: what a pane holds, and nobody else does    *)

Stored == {"saved", "upload", "remove", "session"}
Heard  == {"upload", "remove", "session"}

\* A pane that may yet do something about a draft, its drafts, and the contents
\* that it alone has: a pane that deletes its draft has handed its content on.
Live(x)  == (x.open /\ x.wait.step # "close") \/ x.saves # <<>>
Holds(x) == IF Live(x) THEN {x.draftId, x.run.draftId} \ {0} ELSE {}
Texts(x) == IF Live(x) /\ x.wait.step # "delete"
              THEN {x.content, x.saved, x.run.content} \ {0} ELSE {}

\* No save follows one that closes, no send or discard waits for one.
Ordered(x) ==
  /\ x.saves \in {<<>>, <<FALSE>>, <<TRUE>>, <<FALSE, FALSE>>, <<FALSE, TRUE>>}
  /\ ~x.open => x.saves \in {<<>>, <<FALSE>>, <<TRUE>>} /\ x.wait = None
  /\ x.wait # None => /\ x.wait.for # "nothing"
                      /\ x.saves \in {<<>>, <<FALSE>>}
                      /\ x.saves # <<>> => x.wait.after = 1
  /\ x.wait.step # "wait" => x.saves = <<>>
  /\ x.wait.step \in {"queue", "delete"} => x.wait.draftId = x.draftId /\ x.wait.content = x.content
  /\ x.wait.step = "delete" => x.draftId # 0

\* The ids and contents that a pane and its save in flight go by.
Knows(x) ==
  /\ x.run.step = "none" => x.run.draftId = 0 /\ x.run.content = 0
  /\ x.run.step = "save" => x.run.draftId = x.draftId
  /\ x.run.step \in Stored => x.run.draftId # 0 /\ x.draftId \in {0, x.run.draftId}
  /\ x.run.step \in Heard /\ x.open => x.draftId = x.run.draftId
  /\ x.run.step # "none" => x.run.content # 0
  /\ ~x.open /\ x.draftId = 0 /\ x.saves # <<>> => x.saves = <<TRUE>> /\ x.run.step \in Heard
  /\ x.open /\ x.draftId = 0 => x.saved = 0

Within(x, e) == x.content \in 1..e /\ x.saved \in 0..e /\ x.run.content \in 0..e

Makes(x, m) ==
  /\ m = {} \/ \E d \in m : m = {d}
  /\ m # {} /\ x.draftId = 0 =>
       x.run.step = "saved" \/ (~x.open /\ (x.saves = <<>> \/ x.run.step \in Heard))

Stores(x, D) ==
  /\ Holds(x) \subseteq DOMAIN D
  /\ x.run.step \in Stored => D[x.run.draftId].content = x.run.content
  /\ Live(x) /\ x.draftId # 0 /\ x.run.step # "saved" => D[x.draftId].content = x.saved

PaneOk(x, m, D, e) == Ordered(x) /\ Knows(x) /\ Within(x, e) /\ Makes(x, m) /\ Stores(x, D)

PanesOk(ps, ms, D, e) ==
  /\ \A p \in DOMAIN ps : PaneOk(ps[p], ms[p], D, e)
  /\ \A p, q \in DOMAIN ps : p # q => Holds(ps[p]) \cap Holds(ps[q]) = {}

Numbered(D, o, e) == o \subseteq 1..e /\ \A d \in DOMAIN D : D[d].content \in 1..e

\* The drafts that no pane holds.
Loose(ps, D) == {d \in DOMAIN D : \A p \in DOMAIN ps : d \notin Holds(ps[p])}

Apart(ps, D, o) ==
  /\ \A p \in DOMAIN ps :
       /\ Texts(ps[p]) \cap o = {}
       /\ \A q \in DOMAIN ps : p # q => Texts(ps[p]) \cap Texts(ps[q]) = {}
       /\ \A d \in Loose(ps, D) : D[d].content \notin Texts(ps[p])
  /\ \A d \in Loose(ps, D) : D[d].content \notin o
  /\ \A c, d \in Loose(ps, D) : c # d => D[c].content # D[d].content

PInv ==
  /\ PanesOk(panes, made, drafts, edits)
  /\ Numbered(drafts, outbox, edits)
  /\ Undisturbed => Apart(panes, drafts, outbox)

-----------------------------------------------------------------------------
(* Panes *)

\* What a pane says of the drafts stays true when those it holds stay.
LEMMA StoresKept ==
  ASSUME NEW x \in GoodPane, NEW D, NEW E, Knows(x), Stores(x, D),
         \A d \in Holds(x) : d \in DOMAIN E /\ E[d] = D[d]
  PROVE  Stores(x, E)
<1>1. x.run.step \in Stored => x.run.draftId \in Holds(x)
  BY DEF GoodPane, Knows, Holds, Live, Stored
<1>2. Live(x) /\ x.draftId # 0 => x.draftId \in Holds(x)
  BY DEF Holds
<1> QED BY <1>1, <1>2 DEF Stores

LEMMA PutOk ==
  ASSUME NEW ps \in Seq(GoodPane), NEW ms, NEW D, NEW e \in Nat, PanesOk(ps, ms, D, e),
         NEW ns, NEW E, NEW f \in Nat, e <= f, NEW p \in DOMAIN ps, NEW y, PaneOk(y, ns[p], E, f),
         \A q \in DOMAIN ps \ {p} : ns[q] = ms[q] /\ Holds(y) \cap Holds(ps[q]) = {},
         \A q \in DOMAIN ps \ {p} : \A d \in Holds(ps[q]) : d \in DOMAIN E /\ E[d] = D[d]
  PROVE  PanesOk([ps EXCEPT ![p] = y], ns, E, f)
<1> DEFINE qs == [ps EXCEPT ![p] = y]
<1>1. DOMAIN qs = DOMAIN ps /\ qs[p] = y /\ \A q \in DOMAIN ps \ {p} : qs[q] = ps[q]
  OBVIOUS
<1>2. \A q \in DOMAIN ps \ {p} : PaneOk(ps[q], ns[q], E, f)
  <2>1. SUFFICES ASSUME NEW q \in DOMAIN ps \ {p} PROVE PaneOk(ps[q], ns[q], E, f)
    OBVIOUS
  <2>2. PaneOk(ps[q], ms[q], D, e) /\ ns[q] = ms[q]
    BY DEF PanesOk
  <2>3. ps[q] \in GoodPane
    <3>1. q \in 1..Len(ps)
      BY LenProperties
    <3> QED BY <3>1, ElementOfSeq
  <2>4. Stores(ps[q], E)
    BY <2>2, <2>3, StoresKept DEF PaneOk
  <2>5. Within(ps[q], f)
    BY SMTT(30), <2>2 DEF PaneOk, Within
  <2> QED BY <2>2, <2>4, <2>5 DEF PaneOk
<1>3. \A q, r \in DOMAIN ps : q # r => Holds(ps[q]) \cap Holds(ps[r]) = {}
  BY DEF PanesOk
<1>4. \A q \in DOMAIN ps \ {p} : Holds(y) \cap Holds(ps[q]) = {} /\ Holds(ps[q]) \cap Holds(y) = {}
  OBVIOUS
<1> HIDE DEF qs
<1>5. \A q, r \in DOMAIN qs : q # r => Holds(qs[q]) \cap Holds(qs[r]) = {}
  <2>1. SUFFICES ASSUME NEW q \in DOMAIN qs, NEW r \in DOMAIN qs, q # r
                 PROVE  Holds(qs[q]) \cap Holds(qs[r]) = {}
    OBVIOUS
  <2>2. CASE q = p
    BY <1>1, <1>4, <2>1, <2>2
  <2>3. CASE r = p
    BY <1>1, <1>4, <2>1, <2>3
  <2>4. CASE q # p /\ r # p
    BY <1>1, <1>3, <2>1, <2>4
  <2> QED BY <2>2, <2>3, <2>4
<1>6. \A q \in DOMAIN qs : PaneOk(qs[q], ns[q], E, f)
  BY <1>1, <1>2
<1>7. PanesOk(qs, ns, E, f)
  BY <1>5, <1>6 DEF PanesOk
<1> QED BY <1>7 DEF qs

\* What Append does.
LEMMA AppendAt ==
  ASSUME NEW S, NEW s \in Seq(S), NEW y
  PROVE  /\ DOMAIN Append(s, y) = DOMAIN s \cup {Len(s) + 1}
         /\ Len(s) + 1 \notin DOMAIN s
         /\ Append(s, y)[Len(s) + 1] = y
         /\ \A i \in DOMAIN s : Append(s, y)[i] = s[i]
<1>1. DOMAIN s = 1..Len(s) /\ Len(s) \in Nat
  BY LenProperties
<1> QED BY <1>1

LEMMA AddOk ==
  ASSUME NEW ps \in Seq(GoodPane), NEW ms \in Seq(SUBSET Nat), Len(ms) = Len(ps),
         NEW D, NEW e \in Nat, PanesOk(ps, ms, D, e),
         NEW f \in Nat, e <= f, NEW y, PaneOk(y, {}, D, f),
         \A q \in DOMAIN ps : Holds(y) \cap Holds(ps[q]) = {}
  PROVE  PanesOk(Append(ps, y), Append(ms, {}), D, f)
<1> DEFINE qs == Append(ps, y)
           ns == Append(ms, {})
           n  == Len(ps) + 1
<1>1. /\ DOMAIN qs = DOMAIN ps \cup {n} /\ n \notin DOMAIN ps
      /\ qs[n] = y /\ \A q \in DOMAIN ps : qs[q] = ps[q]
  BY AppendAt
<1>2. ns[n] = {} /\ \A q \in DOMAIN ps : ns[q] = ms[q]
  <2>1. DOMAIN ps = DOMAIN ms
    BY LenProperties
  <2> QED BY <2>1, AppendAt
<1>3. \A q \in DOMAIN ps : PaneOk(ps[q], ms[q], D, f)
  BY SMTT(30) DEF PanesOk, PaneOk, Within
<1>4. \A q, r \in DOMAIN ps : q # r => Holds(ps[q]) \cap Holds(ps[r]) = {}
  BY DEF PanesOk
<1> HIDE DEF qs, ns, n
<1>5. \A q \in DOMAIN qs : PaneOk(qs[q], ns[q], D, f)
  BY <1>1, <1>2, <1>3
<1>6. \A q, r \in DOMAIN qs : q # r => Holds(qs[q]) \cap Holds(qs[r]) = {}
  BY <1>1, <1>4
<1>7. PanesOk(qs, ns, D, f)
  BY <1>5, <1>6 DEF PanesOk
<1> QED BY <1>7 DEF qs, ns

LEMMA OneHeld ==
  ASSUME NEW x \in GoodPane, Knows(x)
  PROVE  \A c, d \in Holds(x) : c = d
BY DEF GoodPane, Pane, Knows, Holds, Stored

LEMMA OwnText ==
  ASSUME NEW x \in GoodPane, Knows(x), NEW D, NEW o, NEW e \in Nat, Stores(x, D), Numbered(D, o, e),
         NEW d \in Holds(x), x.wait.step # "delete"
  PROVE  D[d].content \in Texts(x)
<1>1. Live(x) /\ d # 0 /\ D[d].content # 0
  BY DEF Holds, Stores, Numbered
<1>2. D[d].content \in {x.saved, x.run.content}
  <2>1. CASE x.run.step \in Stored /\ d = x.run.draftId
    BY <2>1 DEF Stores
  <2>2. CASE d = x.draftId /\ x.run.step # "saved"
    BY <1>1, <2>2 DEF Stores
  <2>3. x.run.step \in Stored \/ d = x.draftId
    BY <1>1 DEF GoodPane, Pane, Knows, Holds, Stored
  <2>4. x.run.step \in Stored => d = x.run.draftId
    BY <1>1 DEF Knows, Holds
  <2> QED BY <2>1, <2>2, <2>3, <2>4 DEF Stored
<1> QED BY <1>1, <1>2 DEF Texts

LEMMA TextsWithin ==
  ASSUME NEW x, NEW e \in Nat, Within(x, e)
  PROVE  Texts(x) \subseteq 1..e
BY DEF Within, Texts

LEMMA GoodAt ==
  ASSUME NEW ps \in Seq(GoodPane), NEW p \in DOMAIN ps
  PROVE  ps[p] \in GoodPane
<1>1. p \in 1..Len(ps)
  BY LenProperties
<1> QED BY <1>1, ElementOfSeq

\* A pane changes, what it alone has gains nothing that was in use, and a draft
\* is let go of by a pane that has its content.
LEMMA PutApart ==
  ASSUME NEW ps \in Seq(GoodPane), NEW ms, NEW D, NEW o, NEW e \in Nat,
         PanesOk(ps, ms, D, e), Numbered(D, o, e), Apart(ps, D, o),
         NEW p \in DOMAIN ps, NEW y, NEW F, F \cap 1..e = {}, NEW E, NEW u,
         Texts(y) \subseteq Texts(ps[p]) \cup F,
         F \cap u = {}, u \subseteq o \cup (Texts(ps[p]) \ Texts(y)),
         \A d \in Loose([ps EXCEPT ![p] = y], E) :
           /\ d \in DOMAIN D /\ E[d].content = D[d].content
           /\ \/ d \in Loose(ps, D)
              \/ d \in Holds(ps[p]) /\ ps[p].wait.step # "delete" /\ Texts(y) = {} /\ u = o
  PROVE  Apart([ps EXCEPT ![p] = y], E, u)
<1> DEFINE qs == [ps EXCEPT ![p] = y]
           x  == ps[p]
           L  == Loose(ps, D)
           M  == Loose(qs, E)
           R  == {d \in M : d \notin L}
<1>1. DOMAIN qs = DOMAIN ps /\ qs[p] = y /\ \A q \in DOMAIN ps \ {p} : qs[q] = ps[q]
  OBVIOUS
<1>2. \A q \in DOMAIN ps : /\ Texts(ps[q]) \subseteq 1..e /\ Texts(ps[q]) \cap o = {}
                           /\ \A d \in L : D[d].content \notin Texts(ps[q])
                           /\ \A r \in DOMAIN ps : q # r => Texts(ps[q]) \cap Texts(ps[r]) = {}
  BY TextsWithin DEF PanesOk, PaneOk, Apart
<1>3. /\ \A d \in L : D[d].content \notin o
      /\ \A c, d \in L : c # d => D[c].content # D[d].content
      /\ \A d \in DOMAIN D : D[d].content \in 1..e
  BY DEF Apart, Numbered
<1>4. \A d \in R : D[d].content \in Texts(x) /\ Texts(y) = {} /\ u = o
  <2>1. PaneOk(x, ms[p], D, e) /\ x \in GoodPane
    BY GoodAt DEF PanesOk
  <2>2. \A d \in R : d \in Holds(x) /\ x.wait.step # "delete" /\ Texts(y) = {} /\ u = o
    OBVIOUS
  <2> HIDE DEF R
  <2> QED BY <2>1, <2>2, OwnText DEF PaneOk
<1>5. \A c, d \in R : c = d
  <2>1. Knows(x) /\ x \in GoodPane
    BY GoodAt DEF PanesOk, PaneOk
  <2>2. \A d \in R : d \in Holds(x)
    OBVIOUS
  <2> HIDE DEF R, x
  <2> QED BY <2>1, <2>2, OneHeld
<1>6. \A d \in M : d \in DOMAIN D /\ E[d].content = D[d].content /\ (d \in L \/ d \in R)
  OBVIOUS
<1> HIDE DEF qs, L, M, R
<1>7. \A q \in DOMAIN qs : /\ Texts(qs[q]) \cap u = {}
                           /\ \A d \in M : E[d].content \notin Texts(qs[q])
  <2>1. SUFFICES ASSUME NEW q \in DOMAIN qs
                 PROVE  Texts(qs[q]) \cap u = {} /\ \A d \in M : E[d].content \notin Texts(qs[q])
    OBVIOUS
  <2>2. CASE q = p
    <3>1. Texts(y) \cap u = {}
      BY <1>2
    <3>2. \A d \in M : E[d].content \notin Texts(y)
      BY <1>2, <1>3, <1>4, <1>6
    <3> QED BY <1>1, <2>2, <3>1, <3>2
  <2>3. CASE q # p
    <3>1. Texts(ps[q]) \cap u = {}
      BY <1>1, <1>2, <2>1, <2>3
    <3>2. \A d \in M : E[d].content \notin Texts(ps[q])
      BY <1>1, <1>2, <1>4, <1>6, <2>1, <2>3
    <3> QED BY <1>1, <2>1, <2>3, <3>1, <3>2
  <2> QED BY <2>2, <2>3
<1>8. \A q, r \in DOMAIN qs : q # r => Texts(qs[q]) \cap Texts(qs[r]) = {}
  <2>1. \A q \in DOMAIN ps \ {p} : Texts(y) \cap Texts(ps[q]) = {}
    BY <1>2
  <2> QED BY <1>1, <1>2, <2>1
<1>9. \A d \in M : E[d].content \notin u
  <2>1. SUFFICES ASSUME NEW d \in M PROVE D[d].content \notin u
    BY <1>6
  <2>2. CASE d \in R
    BY <1>2, <1>4, <2>2
  <2>3. CASE d \in L
    BY <1>2, <1>3, <2>3
  <2> QED BY <1>6, <2>2, <2>3
<1>10. \A c, d \in M : c # d => E[c].content # E[d].content
  BY <1>2, <1>3, <1>4, <1>5, <1>6
<1>11. Apart(qs, E, u)
  BY <1>7, <1>8, <1>9, <1>10 DEF Apart, M
<1> QED BY <1>11 DEF qs

LEMMA AddApart ==
  ASSUME NEW ps \in Seq(GoodPane), NEW D, NEW o, Apart(ps, D, o), NEW y, NEW u, u \subseteq o,
         Texts(y) \cap u = {}, \A q \in DOMAIN ps : Texts(y) \cap Texts(ps[q]) = {},
         \A d \in Loose(ps, D) \ Holds(y) : D[d].content \notin Texts(y)
  PROVE  Apart(Append(ps, y), D, u)
<1> DEFINE qs == Append(ps, y)
           n  == Len(ps) + 1
<1>1. /\ DOMAIN qs = DOMAIN ps \cup {n} /\ n \notin DOMAIN ps
      /\ qs[n] = y /\ \A q \in DOMAIN ps : qs[q] = ps[q]
  BY AppendAt
<1> HIDE DEF qs, n
<1>2. \A d \in Loose(qs, D) : d \in Loose(ps, D) \ Holds(y)
  BY <1>1 DEF Loose
<1>3. \A q \in DOMAIN qs : /\ Texts(qs[q]) \cap u = {}
                           /\ \A d \in Loose(qs, D) : D[d].content \notin Texts(qs[q])
  BY <1>1, <1>2 DEF Apart
<1>4. \A q, r \in DOMAIN qs : q # r => Texts(qs[q]) \cap Texts(qs[r]) = {}
  BY <1>1 DEF Apart
<1>5. Apart(qs, D, u)
  BY <1>2, <1>3, <1>4 DEF Apart
<1> QED BY <1>5 DEF qs

-----------------------------------------------------------------------------
(* What the user does to them *)

LEMMA PaneIsOk ==
  ASSUME DInv, PInv, NEW p \in DOMAIN panes
  PROVE  panes[p] \in GoodPane /\ PaneOk(panes[p], made[p], drafts, edits)
BY PaneAt DEF DInv, PInv, PanesOk

\* A pane changes, and no draft does.
LEMMA TurnOk ==
  ASSUME DInv, PInv, NEW p \in DOMAIN panes, NEW y, NEW f \in Nat, edits <= f,
         PaneOk(y, made[p], drafts, f), Holds(y) = Holds(panes[p]) \/ Holds(y) = {}
  PROVE  /\ PanesOk([panes EXCEPT ![p] = y], made, drafts, f)
         /\ /\ Undisturbed
            /\ Texts(y) \subseteq Texts(panes[p]) \cup (edits + 1)..f
            /\ Holds(y) # Holds(panes[p]) => Texts(y) = {} /\ panes[p].wait.step # "delete"
            => Apart([panes EXCEPT ![p] = y], drafts, outbox)
<1>1. panes \in Seq(GoodPane) /\ edits \in Nat
  BY DEF DInv, GoodPanes, GoodRest
<1>2. PanesOk(panes, made, drafts, edits) /\ Numbered(drafts, outbox, edits)
  BY DEF PInv
<1>3. PanesOk([panes EXCEPT ![p] = y], made, drafts, f)
  <2>1. \A q \in DOMAIN panes \ {p} : Holds(panes[p]) \cap Holds(panes[q]) = {}
    BY <1>2 DEF PanesOk
  <2>2. \A q \in DOMAIN panes : \A d \in Holds(panes[q]) : d \in DOMAIN drafts
    BY <1>2 DEF PanesOk, PaneOk, Stores
  <2>3. \A q \in DOMAIN panes \ {p} : Holds(y) \cap Holds(panes[q]) = {}
    BY <2>1
  <2> QED BY <1>1, <1>2, <2>2, <2>3, PutOk
<1>4. ASSUME Undisturbed,
             Texts(y) \subseteq Texts(panes[p]) \cup (edits + 1)..f,
             Holds(y) # Holds(panes[p]) => Texts(y) = {} /\ panes[p].wait.step # "delete"
      PROVE  Apart([panes EXCEPT ![p] = y], drafts, outbox)
  <2> DEFINE F == (edits + 1)..f
             qs == [panes EXCEPT ![p] = y]
  <2>1. Apart(panes, drafts, outbox)
    BY <1>4 DEF PInv
  <2>2. F \cap 1..edits = {} /\ F \cap outbox = {}
    BY <1>1, <1>2 DEF Numbered
  <2>3. \A d \in Loose(qs, drafts) :
          d \in Loose(panes, drafts)
            \/ (d \in Holds(panes[p]) /\ panes[p].wait.step # "delete" /\ Texts(y) = {})
    <3>1. \A q \in DOMAIN panes : qs[q] = IF q = p THEN y ELSE panes[q]
      OBVIOUS
    <3>2. DOMAIN qs = DOMAIN panes
      OBVIOUS
    <3> HIDE DEF qs
    <3> QED BY <3>1, <3>2, <1>4 DEF Loose
  <2>4. Loose(qs, drafts) \subseteq DOMAIN drafts
    BY DEF Loose
  <2>5. Texts(y) \subseteq Texts(panes[p]) \cup F
    BY <1>4
  <2> HIDE DEF F
  <2> QED BY <1>1, <1>2, <2>1, <2>2, <2>3, <2>4, <2>5, PutApart
<1> QED BY <1>3, <1>4

\* A pane changes, and nothing else but the number of edits.
LEMMA TurnKept ==
  ASSUME DInv, PInv, NEW p \in DOMAIN panes, NEW y, Put(p, y),
         UNCHANGED <<drafts, outbox, made>>, edits' \in Nat, edits <= edits',
         PaneOk(y, made[p], drafts, edits'),
         Holds(y) = Holds(panes[p]) \/ Holds(y) = {},
         Undisturbed' =>
           /\ Undisturbed
           /\ Texts(y) \subseteq Texts(panes[p]) \cup (edits + 1)..edits'
           /\ Holds(y) # Holds(panes[p]) => Texts(y) = {} /\ panes[p].wait.step # "delete"
  PROVE  PInv'
<1>1. /\ panes' = [panes EXCEPT ![p] = y] /\ edits \in Nat
      /\ drafts' = drafts /\ outbox' = outbox /\ made' = made
  BY DEF Put, DInv, GoodRest
<1>2. PanesOk([panes EXCEPT ![p] = y], made, drafts, edits')
  BY TurnOk
<1>3. Undisturbed' => Apart([panes EXCEPT ![p] = y], drafts, outbox)
  BY TurnOk
<1>4. Numbered(drafts, outbox, edits')
  BY <1>1 DEF PInv, Numbered
<1> QED BY <1>1, <1>2, <1>3, <1>4 DEF PInv

LEMMA NoneFields == None.step = "wait" /\ None.for = "nothing" /\ None.after = 0
BY DEF None

LEMMA Undisturbing ==
  ASSUME DInv, UNCHANGED left \/ Click, UNCHANGED faults
  PROVE  Undisturbed' => Undisturbed
BY DEF Undisturbed, Click, DInv, GoodRest

LEMMA EditKeeps ==
  ASSUME DInv, PInv, Patient, NEW p \in DOMAIN panes, Edit(p)
  PROVE  PInv'
<1> DEFINE x == panes[p]
<1>1. PICK encrypt \in BOOLEAN : Put(p, [x EXCEPT !.content = edits + 1, !.encrypt = encrypt])
  BY DEF Edit
<1> DEFINE y == [x EXCEPT !.content = edits + 1, !.encrypt = encrypt]
<1>2. x \in GoodPane /\ PaneOk(x, made[p], drafts, edits)
  BY PaneIsOk
<1>3. /\ y.open = x.open /\ y.draftId = x.draftId /\ y.content = edits + 1 /\ y.saved = x.saved
      /\ y.saves = x.saves /\ y.run = x.run /\ y.wait = x.wait
  BY <1>2 DEF GoodPane, Pane
<1>4. x.wait = None /\ edits \in Nat /\ edits' = edits + 1
  BY DEF Edit, Calm, DInv, GoodRest
<1> HIDE DEF x, y
<1>5. Holds(y) = Holds(x) /\ Live(y) = Live(x)
  BY <1>3 DEF Holds, Live
<1>6. Texts(y) \subseteq Texts(x) \cup (edits + 1)..edits'
  BY <1>3, <1>4 DEF Texts, Live
<1>7. PaneOk(y, made[p], drafts, edits')
  <2>1. Ordered(y) /\ Knows(y)
    BY <1>2, <1>3, <1>4, NoneFields DEF PaneOk, Ordered, Knows
  <2>2. Within(y, edits') /\ Makes(y, made[p])
    BY <1>2, <1>3, <1>4 DEF PaneOk, Within, Makes
  <2>3. Stores(y, drafts)
    BY <1>2, <1>3, <1>5 DEF PaneOk, Stores
  <2> QED BY <2>1, <2>2, <2>3 DEF PaneOk
<1>8. Undisturbed' => Undisturbed
  BY Undisturbing DEF Edit, folderVars
<1>9. Put(p, y) /\ UNCHANGED <<drafts, outbox, made>>
  BY <1>1 DEF Edit, y
<1> QED BY <1>4, <1>5, <1>6, <1>7, <1>8, <1>9, TurnKept DEF x

LEMMA AppendSave ==
  ASSUME NEW s \in {<<>>, <<FALSE>>}, NEW c \in BOOLEAN
  PROVE  /\ Append(s, c) \in {<<FALSE>>, <<TRUE>>, <<FALSE, FALSE>>, <<FALSE, TRUE>>}
         /\ Append(s, c) # <<>>
<1>1. Append(<<>>, c) = <<c>> /\ Append(<<FALSE>>, c) = <<FALSE, c>>
  <2>1. <<>> \in Seq(BOOLEAN) /\ <<FALSE>> \in Seq(BOOLEAN)
    OBVIOUS
  <2>2. <<c>> \in Seq(BOOLEAN) /\ <<FALSE, c>> \in Seq(BOOLEAN)
    OBVIOUS
  <2>3. Append(<<>>, c) = <<c>>
    BY <2>1, <2>2, AppendProperties, SeqEqual
  <2>4. Append(<<FALSE>>, c) = <<FALSE, c>>
    <3> DEFINE t == Append(<<FALSE>>, c)
    <3>1. t \in Seq(BOOLEAN) /\ Len(t) = 2 /\ t[1] = FALSE /\ t[2] = c
      BY <2>1, AppendProperties
    <3>2. Len(<<FALSE, c>>) = 2 /\ <<FALSE, c>>[1] = FALSE /\ <<FALSE, c>>[2] = c
      OBVIOUS
    <3> HIDE DEF t
    <3>3. \A i \in 1..2 : i = 1 \/ i = 2
      OBVIOUS
    <3>4. t = <<FALSE, c>>
      BY <2>2, <3>1, <3>2, <3>3, SeqEqual
    <3> QED BY <3>4 DEF t
  <2> QED BY <2>3, <2>4
<1>2. c = TRUE \/ c = FALSE
  OBVIOUS
<1>3. <<c>> # <<>> /\ <<FALSE, c>> # <<>>
  OBVIOUS
<1> QED BY <1>1, <1>2, <1>3

\* What a pane that is left alone looks like.
LEMMA CalmPane ==
  ASSUME Patient, NEW p \in DOMAIN panes, Ordered(panes[p]), Calm(p)
  PROVE  panes[p].saves \in {<<>>, <<FALSE>>} /\ panes[p].wait = None
<1>1. Len(<<FALSE, FALSE>>) = 2 /\ Len(<<FALSE, TRUE>>) = 2
  OBVIOUS
<1>2. /\ panes[p].saves \in {<<>>, <<FALSE>>, <<TRUE>>, <<FALSE, FALSE>>, <<FALSE, TRUE>>}
      /\ Len(panes[p].saves) < 2 /\ panes[p].saves # <<TRUE>> /\ panes[p].wait = None
  BY DEF Calm, Ordered
<1>3. panes[p].saves # <<FALSE, FALSE>> /\ panes[p].saves # <<FALSE, TRUE>>
  <2>1. ASSUME panes[p].saves = <<FALSE, FALSE>> \/ panes[p].saves = <<FALSE, TRUE>> PROVE FALSE
    <3>1. Len(panes[p].saves) = 2
      BY <1>1, <2>1, Zenon
    <3> QED BY <1>2, <3>1
  <2> QED BY <2>1
<1> QED BY <1>2, <1>3

LEMMA ClickSaveKeeps ==
  ASSUME DInv, PInv, Patient, NEW p \in DOMAIN panes, ClickSave(p)
  PROVE  PInv'
<1> DEFINE x == panes[p]
<1>1. PICK closing \in BOOLEAN : Put(p, [x EXCEPT !.saves = Append(@, closing)])
  BY DEF ClickSave
<1> DEFINE y == [x EXCEPT !.saves = Append(x.saves, closing)]
<1>2. x \in GoodPane /\ PaneOk(x, made[p], drafts, edits)
  BY PaneIsOk
<1>3. /\ y.open = x.open /\ y.draftId = x.draftId /\ y.content = x.content /\ y.saved = x.saved
      /\ y.saves = Append(x.saves, closing) /\ y.run = x.run /\ y.wait = x.wait
  BY <1>2 DEF GoodPane, Pane
<1>4. x.open /\ x.wait = None /\ x.saves \in {<<>>, <<FALSE>>}
  BY <1>2, CalmPane DEF ClickSave, PaneOk
<1>5. /\ y.saves \in {<<FALSE>>, <<TRUE>>, <<FALSE, FALSE>>, <<FALSE, TRUE>>}
      /\ y.saves # <<>>
  BY <1>3, <1>4, AppendSave
<1>6. edits' \in Nat /\ edits' = edits
  BY DEF ClickSave, DInv, GoodRest
<1> HIDE DEF x, y
<1>7. Live(x) /\ Live(y) /\ Holds(y) = Holds(x) /\ Texts(y) = Texts(x)
  BY <1>3, <1>4, <1>5, NoneFields DEF Holds, Live, Texts
<1>8. PaneOk(y, made[p], drafts, edits')
  <2>1. Ordered(y)
    BY <1>3, <1>4, <1>5, NoneFields DEF Ordered
  <2>2. Knows(y) /\ Within(y, edits') /\ Makes(y, made[p])
    BY <1>2, <1>3, <1>4, <1>6 DEF PaneOk, Within, Makes, Knows
  <2>3. Stores(y, drafts)
    BY <1>2, <1>3, <1>7 DEF PaneOk, Stores
  <2> QED BY <2>1, <2>2, <2>3 DEF PaneOk
<1>9. Undisturbed' => Undisturbed
  BY Undisturbing DEF ClickSave, folderVars
<1>10. Put(p, y) /\ UNCHANGED <<drafts, outbox, made>>
  BY <1>1 DEF ClickSave, y
<1> QED BY <1>6, <1>7, <1>8, <1>9, <1>10, TurnKept DEF x

LEMMA ClickSendOrDiscardKeeps ==
  ASSUME DInv, PInv, Patient, NEW p \in DOMAIN panes, ClickSendOrDiscard(p)
  PROVE  PInv'
<1> DEFINE x == panes[p]
<1>1. PICK for \in {"send", "discard"} :
        Put(p, [x EXCEPT !.wait = [None EXCEPT !.for = for, !.after = Len(x.saves)]])
  BY DEF ClickSendOrDiscard
<1> DEFINE w == [None EXCEPT !.for = for, !.after = Len(x.saves)]
           y == [x EXCEPT !.wait = w]
<1>2. x \in GoodPane /\ PaneOk(x, made[p], drafts, edits)
  BY PaneIsOk
<1>3. w.for = for /\ w.after = Len(x.saves) /\ w.step = "wait"
  BY DEF None
<1>4. x.open /\ x.wait = None /\ x.saves \in {<<>>, <<FALSE>>} /\ Len(<<FALSE>>) = 1
  BY <1>2, CalmPane DEF ClickSendOrDiscard, PaneOk
<1>5. edits' \in Nat /\ edits' = edits
  BY DEF ClickSendOrDiscard, DInv, GoodRest
<1> HIDE DEF w, x
<1>6. /\ y.open = x.open /\ y.draftId = x.draftId /\ y.content = x.content /\ y.saved = x.saved
      /\ y.saves = x.saves /\ y.run = x.run /\ y.wait = w
  BY <1>2 DEF GoodPane, Pane
<1> HIDE DEF y
<1>7. Live(x) /\ Live(y) /\ Holds(y) = Holds(x) /\ Texts(y) = Texts(x)
  BY <1>3, <1>4, <1>6, NoneFields DEF Holds, Live, Texts
<1>8. PaneOk(y, made[p], drafts, edits')
  <2>1. Ordered(y)
    BY <1>3, <1>4, <1>6, NoneFields DEF Ordered
  <2>2. Knows(y) /\ Within(y, edits') /\ Makes(y, made[p])
    BY <1>2, <1>4, <1>5, <1>6 DEF PaneOk, Within, Makes, Knows
  <2>3. Stores(y, drafts)
    BY <1>2, <1>6, <1>7 DEF PaneOk, Stores
  <2> QED BY <2>1, <2>2, <2>3 DEF PaneOk
<1>9. Undisturbed' => Undisturbed
  BY Undisturbing DEF ClickSendOrDiscard, folderVars
<1>10. Put(p, y) /\ UNCHANGED <<drafts, outbox, made>>
  BY <1>1 DEF ClickSendOrDiscard, y, w, x
<1> QED BY <1>5, <1>7, <1>8, <1>9, <1>10, TurnKept DEF x

LEMMA CloseKeeps ==
  ASSUME DInv, PInv, Patient, NEW p \in DOMAIN panes, Close(p)
  PROVE  PInv'
<1> DEFINE x == panes[p]
           y == [x EXCEPT !.open = FALSE]
<1>1. x \in GoodPane /\ PaneOk(x, made[p], drafts, edits)
  BY PaneIsOk
<1>2. /\ y.open = FALSE /\ y.draftId = x.draftId /\ y.content = x.content /\ y.saved = x.saved
      /\ y.saves = x.saves /\ y.run = x.run /\ y.wait = x.wait
  BY <1>1 DEF GoodPane, Pane
<1>3. x.open /\ x.wait = None /\ x.saves \in {<<>>, <<FALSE>>} /\ x.saved = x.content
  BY <1>1, CalmPane DEF Close, PaneOk
<1>4. edits' \in Nat /\ edits' = edits /\ edits \in Nat
  BY DEF Close, DInv, GoodRest
<1> HIDE DEF x, y
<1>5. x.draftId # 0 /\ Live(x)
  BY <1>1, <1>3, <1>4, NoneFields DEF PaneOk, Knows, Within, Live
<1>6. Holds(y) = Holds(x) \/ (Holds(y) = {} /\ Texts(y) = {})
  BY <1>2, <1>5 DEF Holds, Texts
<1>7. Texts(y) \subseteq Texts(x)
  BY <1>2, <1>5 DEF Texts
<1>8. PaneOk(y, made[p], drafts, edits')
  <2>1. Ordered(y)
    BY <1>2, <1>3, NoneFields DEF Ordered
  <2>2. Knows(y) /\ Within(y, edits') /\ Makes(y, made[p])
    BY <1>1, <1>2, <1>3, <1>4, <1>5 DEF PaneOk, Within, Makes, Knows
  <2>3. Stores(y, drafts)
    BY <1>1, <1>2, <1>5, <1>6 DEF PaneOk, Stores
  <2> QED BY <2>1, <2>2, <2>3 DEF PaneOk
<1>9. Undisturbed' => Undisturbed
  BY Undisturbing DEF Close, folderVars
<1>10. Put(p, y) /\ UNCHANGED <<drafts, outbox, made>>
  BY DEF Close, y, x
<1>11. x.wait.step # "delete"
  BY <1>3, NoneFields
<1> QED BY <1>4, <1>6, <1>7, <1>8, <1>9, <1>10, <1>11, TurnKept DEF x

LEMMA NewPaneOk ==
  ASSUME NEW y, y.open = TRUE, y.saves = <<>>, y.run = NoRun, y.wait = None,
         NEW e \in Nat, y.content \in 1..e, NEW D,
         y.draftId = 0 => y.saved = 0,
         y.draftId # 0 => /\ y.saved = y.content /\ y.draftId \in DOMAIN D
                          /\ D[y.draftId].content = y.content
  PROVE  PaneOk(y, {}, D, e) /\ Holds(y) = {y.draftId} \ {0} /\ Texts(y) = {y.content}
<1>2. NoRun.step = "none" /\ NoRun.draftId = 0 /\ NoRun.content = 0
  BY DEF NoRun
<1>3. Live(y) /\ Holds(y) = {y.draftId} \ {0} /\ Texts(y) = {y.content}
  BY <1>2, NoneFields DEF Live, Holds, Texts
<1>4. Ordered(y)
  BY NoneFields DEF Ordered
<1>5. Knows(y) /\ Within(y, e) /\ Makes(y, {})
  BY <1>2 DEF Knows, Within, Makes, Stored, Heard
<1>6. Stores(y, D)
  BY <1>2, <1>3 DEF Stores, Stored
<1> QED BY <1>3, <1>4, <1>5, <1>6 DEF PaneOk

\* A pane is opened, and of all else only the outbox and the number of edits change.
LEMMA OpenKept ==
  ASSUME DInv, PInv, NEW y, Add(panes, y), UNCHANGED drafts, outbox' \subseteq outbox,
         edits' \in Nat, edits <= edits', PaneOk(y, {}, drafts, edits'),
         \A q \in DOMAIN panes : Holds(y) \cap Holds(panes[q]) = {},
         Undisturbed' =>
           /\ Undisturbed
           /\ Texts(y) \cap outbox' = {}
           /\ \A q \in DOMAIN panes : Texts(y) \cap Texts(panes[q]) = {}
           /\ \A d \in Loose(panes, drafts) \ Holds(y) : drafts[d].content \notin Texts(y)
  PROVE  PInv'
<1>1. /\ panes \in Seq(GoodPane) /\ made \in Seq(SUBSET Nat) /\ Len(made) = Len(panes)
      /\ edits \in Nat /\ panes' = Append(panes, y) /\ made' = Append(made, {})
      /\ drafts' = drafts
  BY DEF DInv, GoodPanes, GoodRest, Add
<1>2. PanesOk(panes, made, drafts, edits) /\ Numbered(drafts, outbox, edits)
  BY DEF PInv
<1>3. PanesOk(Append(panes, y), Append(made, {}), drafts, edits')
  BY <1>1, <1>2, AddOk
<1>4. Numbered(drafts, outbox', edits')
  BY <1>1, <1>2 DEF Numbered
<1>5. ASSUME Undisturbed' PROVE Apart(Append(panes, y), drafts, outbox')
  <2>1. Apart(panes, drafts, outbox)
    BY <1>5 DEF PInv
  <2> QED BY <1>1, <1>5, <2>1, AddApart
<1> QED BY <1>1, <1>3, <1>4, <1>5 DEF PInv

\* The contents in use.
LEMMA InUse ==
  ASSUME DInv, PInv
  PROVE  /\ edits \in Nat /\ outbox \subseteq 1..edits
         /\ \A p \in DOMAIN panes : Texts(panes[p]) \subseteq 1..edits
         /\ \A d \in DOMAIN drafts : drafts[d].content \in 1..edits
<1>1. edits \in Nat
  BY DEF DInv, GoodRest
<1>2. \A p \in DOMAIN panes : Within(panes[p], edits)
  BY DEF PInv, PanesOk, PaneOk
<1> QED BY <1>1, <1>2, TextsWithin DEF PInv, Numbered

LEMMA ComposeKeeps ==
  ASSUME DInv, PInv, Compose
  PROVE  PInv'
<1> DEFINE y == NewPane(edits + 1, 0, NoLink, FALSE, 0)
<1>1. edits \in Nat /\ edits' = edits + 1
  BY DEF Compose, DInv, GoodRest
<1>2. PaneOk(y, {}, drafts, edits') /\ Holds(y) = {} /\ Texts(y) = {edits + 1}
  <2>1. edits' \in Nat /\ edits + 1 \in 1..edits'
    BY <1>1
  <2>2. /\ y.open = TRUE /\ y.draftId = 0 /\ y.content = edits + 1 /\ y.saved = 0
        /\ y.saves = <<>> /\ y.run = NoRun /\ y.wait = None
    BY DEF NewPane
  <2> HIDE DEF y
  <2>3. PaneOk(y, {}, drafts, edits') /\ Holds(y) = {y.draftId} \ {0} /\ Texts(y) = {y.content}
    BY <2>1, <2>2, NewPaneOk
  <2> QED BY <2>2, <2>3
<1>3. Add(panes, y) /\ UNCHANGED <<drafts, outbox>>
  BY DEF Compose
<1>4. Undisturbed' => Undisturbed
  BY Undisturbing DEF Compose, folderVars
<1>5. edits + 1 \notin 1..edits
  BY <1>1
<1> HIDE DEF y
<1>6. /\ Texts(y) \cap outbox' = {}
      /\ \A q \in DOMAIN panes : Texts(y) \cap Texts(panes[q]) = {}
      /\ \A d \in Loose(panes, drafts) : drafts[d].content \notin Texts(y)
  BY <1>2, <1>3, <1>5, InUse DEF Loose
<1> QED BY <1>1, <1>2, <1>3, <1>4, <1>6, OpenKept

LEMMA UndoSendKeeps ==
  ASSUME DInv, PInv, UndoSend
  PROVE  PInv'
<1>1. PICK content \in outbox, p \in DOMAIN panes :
        /\ outbox' = outbox \ {content}
        /\ Add(panes, NewPane(content, 0, NoLink, panes[p].encrypt, 0))
  BY DEF UndoSend
<1> DEFINE y == NewPane(content, 0, NoLink, panes[p].encrypt, 0)
<1>2. edits' \in Nat /\ edits' = edits /\ content \in 1..edits /\ UNCHANGED drafts
  BY InUse DEF UndoSend
<1>3. PaneOk(y, {}, drafts, edits') /\ Holds(y) = {} /\ Texts(y) = {content}
  <2>1. /\ y.open = TRUE /\ y.draftId = 0 /\ y.content = content /\ y.saved = 0
        /\ y.saves = <<>> /\ y.run = NoRun /\ y.wait = None
    BY DEF NewPane
  <2> HIDE DEF y
  <2>2. PaneOk(y, {}, drafts, edits') /\ Holds(y) = {y.draftId} \ {0} /\ Texts(y) = {y.content}
    BY <1>2, <2>1, NewPaneOk
  <2> QED BY <2>1, <2>2
<1>4. Undisturbed' => Undisturbed
  BY Undisturbing DEF UndoSend, folderVars
<1>5. Add(panes, y)
  BY <1>1
<1> HIDE DEF y
<1>6. Undisturbed =>
        /\ \A q \in DOMAIN panes : Texts(y) \cap Texts(panes[q]) = {}
        /\ \A d \in Loose(panes, drafts) : drafts[d].content \notin Texts(y)
  BY <1>3 DEF PInv, Apart
<1> QED BY <1>1, <1>2, <1>3, <1>4, <1>5, <1>6, OpenKept

LEMMA OpenDraftKeeps ==
  ASSUME DInv, PInv, Patient, NEW id \in DOMAIN drafts, OpenDraft(id)
  PROVE  PInv'
<1> DEFINE d == drafts[id]
           y == NewPane(d.content, id, d.link, d.sealed, d.content)
<1>1. edits' \in Nat /\ edits' = edits /\ d.content \in 1..edits /\ UNCHANGED <<drafts, outbox>>
  BY InUse DEF OpenDraft
<1>2. id # 0
  BY DEF DInv, GoodDrafts
<1>3. PaneOk(y, {}, drafts, edits') /\ Holds(y) = {id} /\ Texts(y) = {d.content}
  <2>1. /\ y.open = TRUE /\ y.draftId = id /\ y.content = d.content /\ y.saved = d.content
        /\ y.saves = <<>> /\ y.run = NoRun /\ y.wait = None
    BY DEF NewPane
  <2> HIDE DEF y
  <2>2. PaneOk(y, {}, drafts, edits') /\ Holds(y) = {y.draftId} \ {0} /\ Texts(y) = {y.content}
    BY <1>1, <1>2, <2>1, NewPaneOk
  <2> QED BY <1>2, <2>1, <2>2
<1>4. Undisturbed' => Undisturbed
  BY Undisturbing DEF OpenDraft, folderVars
<1>5. Add(panes, y)
  BY DEF OpenDraft
<1>6. \A p \in DOMAIN panes : id \notin Holds(panes[p])
  <2>1. SUFFICES ASSUME NEW p \in DOMAIN panes PROVE id \notin Holds(panes[p])
    OBVIOUS
  <2>2. CASE Busy(p)
    BY <2>2 DEF OpenDraft, Holds
  <2>3. CASE ~Busy(p)
    <3>1. panes[p].saves = <<>> /\ panes[p].run.draftId = 0
      BY <2>3, PaneIsOk DEF Busy, GoodPane, PaneOk, Knows
    <3>2. panes[p].open => panes[p].draftId # id
      BY DEF OpenDraft, OpenElsewhere
    <3> QED BY <1>2, <3>1, <3>2 DEF Holds, Live
  <2> QED BY <2>2, <2>3
<1>7. id \in Loose(panes, drafts)
  BY <1>6 DEF Loose
<1> HIDE DEF y
<1>8. Undisturbed =>
        /\ Texts(y) \cap outbox = {}
        /\ \A q \in DOMAIN panes : Texts(y) \cap Texts(panes[q]) = {}
        /\ \A c \in Loose(panes, drafts) \ Holds(y) : drafts[c].content \notin Texts(y)
  BY <1>3, <1>7 DEF PInv, Apart
<1> QED BY <1>1, <1>3, <1>4, <1>5, <1>6, <1>8, OpenKept

-----------------------------------------------------------------------------
(* What their saves do *)

LEMMA TailSave ==
  ASSUME NEW s \in {<<FALSE>>, <<TRUE>>, <<FALSE, FALSE>>, <<FALSE, TRUE>>}
  PROVE  /\ Tail(s) \in {<<>>, <<FALSE>>, <<TRUE>>}
         /\ s \in {<<FALSE>>, <<TRUE>>} => Tail(s) = <<>>
         /\ s # <<TRUE>> => Head(s) = FALSE
         /\ s = <<TRUE>> => Head(s) = TRUE
<1>1. ASSUME NEW b \in BOOLEAN PROVE Tail(<<b>>) = <<>> /\ Head(<<b>>) = b
  <2>1. <<b>> \in Seq(BOOLEAN) /\ Len(<<b>>) = 1 /\ <<b>> # <<>>
    OBVIOUS
  <2>2. Tail(<<b>>) \in Seq(BOOLEAN) /\ Len(Tail(<<b>>)) = 0
    BY <2>1, HeadTailProperties
  <2>3. Tail(<<b>>) = <<>>
    BY <2>2, EmptySeq
  <2> QED BY <2>3
<1>2. ASSUME NEW b \in BOOLEAN PROVE Tail(<<FALSE, b>>) = <<b>> /\ Head(<<FALSE, b>>) = FALSE
  <2> DEFINE t == <<FALSE, b>>
  <2>1. t \in Seq(BOOLEAN) /\ Len(t) = 2 /\ t # <<>> /\ t[2] = b
    OBVIOUS
  <2>2. <<b>> \in Seq(BOOLEAN) /\ Len(<<b>>) = 1 /\ <<b>>[1] = b
    OBVIOUS
  <2>3. Tail(t) = <<b>>
    <3> HIDE DEF t
    <3> DEFINE u == Tail(t)
    <3>1. u \in Seq(BOOLEAN) /\ Len(u) = Len(t) - 1 /\ \A i \in 1..Len(u) : u[i] = t[i + 1]
      BY <2>1, HeadTailProperties
    <3> HIDE DEF u
    <3>2. \A i \in 1..1 : i = 1
      OBVIOUS
    <3>3. Len(u) = 1 /\ u[1] = b
      BY <2>1, <3>1
    <3>4. u = <<b>>
      BY <2>2, <3>1, <3>2, <3>3, SeqEqual
    <3> QED BY <3>4 DEF u
  <2>4. Head(<<FALSE, b>>) = FALSE
    <3>1. \A a, c : Head(<<a, c>>) = a
      OBVIOUS
    <3> QED BY <3>1, Zenon
  <2> QED BY <2>3, <2>4, Zenon DEF t
<1>3. TRUE \in BOOLEAN /\ FALSE \in BOOLEAN
  OBVIOUS
<1>4. <<FALSE>> # <<TRUE>> /\ <<FALSE, FALSE>> # <<TRUE>> /\ <<FALSE, TRUE>> # <<TRUE>>
      /\ <<FALSE, FALSE>> \notin {<<FALSE>>, <<TRUE>>} /\ <<FALSE, TRUE>> \notin {<<FALSE>>, <<TRUE>>}
  OBVIOUS
<1>5. Tail(<<FALSE>>) = <<>> /\ Head(<<FALSE>>) = FALSE /\ Tail(<<TRUE>>) = <<>> /\ Head(<<TRUE>>) = TRUE
  BY <1>1, <1>3, Zenon
<1>6. Tail(<<FALSE, FALSE>>) = <<FALSE>> /\ Head(<<FALSE, FALSE>>) = FALSE
      /\ Tail(<<FALSE, TRUE>>) = <<TRUE>> /\ Head(<<FALSE, TRUE>>) = FALSE
  BY <1>2, <1>3, Zenon
<1> QED BY <1>4, <1>5, <1>6, Zenon

\* What the end of a save does to what waits for it.
EndedWait(w) == [w EXCEPT !.after = IF @ = 0 THEN 0 ELSE @ - 1]

LEMMA EndedFields ==
  ASSUME NEW x \in Pane
  PROVE  LET y == Ended(x)
         IN  /\ y.open = x.open /\ y.draftId = x.draftId /\ y.content = x.content
             /\ y.saved = x.saved /\ y.saves = Tail(x.saves) /\ y.run = NoRun
             /\ y.wait = EndedWait(x.wait)
BY DEF Ended, Pane, EndedWait

LEMMA EndedWaitFields ==
  ASSUME NEW x \in Pane
  PROVE  LET w == EndedWait(x.wait)
         IN  /\ w.for = x.wait.for /\ w.step = x.wait.step
             /\ w.draftId = x.wait.draftId /\ w.content = x.wait.content
             /\ x.wait = None => w = None
<1>1. /\ EndedWait(x.wait).for = x.wait.for /\ EndedWait(x.wait).step = x.wait.step
      /\ EndedWait(x.wait).draftId = x.wait.draftId
      /\ EndedWait(x.wait).content = x.wait.content
  BY DEF Pane, EndedWait
<1>2. EndedWait(None) = None
  BY DEF EndedWait, None
<1> QED BY <1>1, <1>2

LEMMA EndedOk ==
  ASSUME NEW x \in GoodPane, NEW m, NEW D, NEW e \in Nat, PaneOk(x, m, D, e),
         x.run.step \in {"save"} \cup Heard,
         NEW y, y.open = x.open, y.draftId = x.draftId, y.content = x.content,
         y.saved = x.saved, y.saves = Tail(x.saves), y.run = NoRun, y.wait = EndedWait(x.wait)
  PROVE  /\ PaneOk(y, m, D, e)
         /\ Holds(y) = Holds(x) \/ (Holds(y) = {} /\ Texts(y) = {})
         /\ Texts(y) \subseteq Texts(x)
         /\ Live(x) /\ x.wait.step = "wait"
         /\ ~x.open => ~Live(y)
<1>1. NoRun.step = "none" /\ NoRun.draftId = 0 /\ NoRun.content = 0
  BY DEF NoRun
<1>2. x.saves # <<>> /\ x.wait.step = "wait" /\ Live(x)
  BY DEF GoodPane, PaneOk, Ordered, Heard, Live, Pane
<1>3. x.saves \in {<<FALSE>>, <<TRUE>>, <<FALSE, FALSE>>, <<FALSE, TRUE>>}
  BY <1>2 DEF PaneOk, Ordered
<1>4. /\ y.saves \in {<<>>, <<FALSE>>, <<TRUE>>}
      /\ x.saves \in {<<FALSE>>, <<TRUE>>} => y.saves = <<>>
  BY <1>3, TailSave
<1>5. /\ y.wait.for = x.wait.for /\ y.wait.step = x.wait.step
      /\ x.wait = None => y.wait = None
  BY EndedWaitFields DEF GoodPane
<1>6. ~x.open => y.saves = <<>>
  BY <1>2, <1>4 DEF PaneOk, Ordered
<1>7. Live(y) <=> x.open
  BY <1>2, <1>5, <1>6 DEF Live
<1>8. x.open => x.run.draftId = x.draftId
  BY DEF PaneOk, Knows, Heard
<1>9. Holds(y) = Holds(x) \/ (Holds(y) = {} /\ Texts(y) = {})
  BY <1>1, <1>2, <1>7, <1>8 DEF Holds, Texts
<1>10. Texts(y) \subseteq Texts(x)
  BY <1>1, <1>2, <1>7 DEF Texts
<1>11. Ordered(y)
  BY <1>2, <1>4, <1>5, <1>6, NoneFields DEF PaneOk, Ordered
<1>12. Knows(y) /\ Within(y, e)
  BY <1>1, <1>6 DEF PaneOk, Knows, Within, Heard, Stored
<1>13. Makes(y, m)
  BY <1>2, <1>6 DEF PaneOk, Makes, Heard
<1>14. Stores(y, D)
  <2>1. Holds(y) \subseteq DOMAIN D
    BY <1>9 DEF PaneOk, Stores
  <2> QED BY <1>1, <1>2, <1>7, <2>1 DEF PaneOk, Stores, Heard, Stored
<1> QED BY <1>2, <1>7, <1>9, <1>10, <1>11, <1>12, <1>13, <1>14 DEF PaneOk

LEMMA StartSaveKeeps ==
  ASSUME DInv, PInv, NEW p \in DOMAIN panes, StartSave(p)
  PROVE  PInv'
<1> DEFINE x == panes[p]
           run == [step |-> "save", draftId |-> x.draftId, link |-> x.link,
                   encrypt |-> x.encrypt, content |-> x.content, job |-> NoDraft]
           y == [x EXCEPT !.run = run]
<1>1. x \in GoodPane /\ PaneOk(x, made[p], drafts, edits)
  BY PaneIsOk
<1>2. /\ y.open = x.open /\ y.draftId = x.draftId /\ y.content = x.content /\ y.saved = x.saved
      /\ y.saves = x.saves /\ y.run = run /\ y.wait = x.wait
  BY <1>1 DEF GoodPane, Pane
<1>3. run.step = "save" /\ run.draftId = x.draftId /\ run.content = x.content
  OBVIOUS
<1>4. x.run.step = "none" /\ x.saves # <<>>
  BY DEF StartSave
<1>5. edits' \in Nat /\ edits' = edits /\ edits \in Nat
  BY DEF StartSave, DInv, GoodRest
<1>6. Put(p, y) /\ UNCHANGED <<drafts, outbox, made>>
  BY DEF StartSave
<1> HIDE DEF x, y, run
<1>7. Live(x) /\ Live(y) /\ Holds(y) = Holds(x) /\ Texts(y) \subseteq Texts(x)
  BY <1>1, <1>2, <1>3, <1>4 DEF Live, Holds, Texts, PaneOk, Knows
<1>8. x.content # 0
  BY <1>1, <1>5 DEF PaneOk, Within
<1>9. PaneOk(y, made[p], drafts, edits')
  <2>1. Ordered(y)
    BY <1>1, <1>2 DEF PaneOk, Ordered
  <2>2. Knows(y)
    BY <1>1, <1>2, <1>3, <1>4, <1>8 DEF PaneOk, Knows, Stored, Heard
  <2>3. Within(y, edits') /\ Makes(y, made[p])
    BY <1>1, <1>2, <1>3, <1>4, <1>5 DEF PaneOk, Within, Makes, Heard
  <2>4. Stores(y, drafts)
    BY <1>1, <1>2, <1>3, <1>4, <1>7 DEF PaneOk, Stores, Stored
  <2> QED BY <2>1, <2>2, <2>3, <2>4 DEF PaneOk
<1>10. Undisturbed' => Undisturbed
  BY Undisturbing DEF StartSave, folderVars
<1> QED BY <1>5, <1>6, <1>7, <1>9, <1>10, TurnKept DEF x

LEMMA SaveFailsKeeps ==
  ASSUME DInv, PInv, NEW p \in DOMAIN panes, SaveFails(p)
  PROVE  PInv'
<1> DEFINE x == panes[p]
           y == Ended(x)
<1>1. x \in GoodPane /\ PaneOk(x, made[p], drafts, edits)
  BY PaneIsOk
<1>2. /\ y.open = x.open /\ y.draftId = x.draftId /\ y.content = x.content /\ y.saved = x.saved
      /\ y.saves = Tail(x.saves) /\ y.run = NoRun /\ y.wait = EndedWait(x.wait)
  BY <1>1, EndedFields DEF GoodPane
<1>3. x.run.step \in {"save"} \cup Heard /\ edits' \in Nat /\ edits' = edits /\ edits \in Nat
  BY DEF SaveFails, DInv, GoodRest
<1>4. Put(p, y) /\ UNCHANGED <<drafts, outbox, made>>
  BY DEF SaveFails
<1> HIDE DEF x, y
<1>5. /\ PaneOk(y, made[p], drafts, edits)
      /\ Holds(y) = Holds(x) \/ (Holds(y) = {} /\ Texts(y) = {})
      /\ Texts(y) \subseteq Texts(x)
      /\ Live(x) /\ x.wait.step = "wait"
  BY <1>1, <1>2, <1>3, EndedOk
<1>6. Undisturbed' => Undisturbed
  BY DEF SaveFails, Error, Undisturbed, DInv, GoodRest, folderVars
<1> QED BY <1>3, <1>4, <1>5, <1>6, TurnKept DEF x

\* What the rest of a save tells a pane.
LEMMA SavedOk ==
  ASSUME NEW x \in GoodPane, NEW m, NEW D, NEW e \in Nat, PaneOk(x, m, D, e), x.run.step = "saved",
         NEW y, y.open = (x.open /\ ~Head(x.saves)), y.content = x.content,
         y.saved = x.run.content, y.saves = x.saves, y.wait = x.wait,
         y.draftId = (IF x.open /\ ~Head(x.saves) THEN x.run.draftId ELSE x.draftId),
         y.run.step \in {"upload", "remove"}, y.run.draftId = x.run.draftId,
         y.run.content = x.run.content
  PROVE  PaneOk(y, m, D, e) /\ Holds(y) = Holds(x) /\ Texts(y) \subseteq Texts(x)
<1>1. x.saves # <<>> /\ x.wait.step = "wait"
  BY DEF GoodPane, PaneOk, Ordered, Pane
<1>2. x.saves \in {<<FALSE>>, <<TRUE>>, <<FALSE, FALSE>>, <<FALSE, TRUE>>}
  BY <1>1 DEF PaneOk, Ordered
<1>3. Head(x.saves) <=> x.saves = <<TRUE>>
  BY <1>2, TailSave
<1>4. /\ x.run.draftId # 0 /\ x.draftId \in {0, x.run.draftId} /\ x.run.content # 0
      /\ y.draftId \in {0, x.run.draftId} /\ (y.open => y.draftId = x.run.draftId)
  BY DEF PaneOk, Knows, Stored
<1>5. Live(x) /\ Live(y) /\ Holds(y) = {x.run.draftId} /\ Holds(x) = {x.run.draftId}
  BY <1>1, <1>4 DEF Live, Holds
<1>6. Texts(y) \subseteq Texts(x)
  BY <1>1, <1>5 DEF Texts
<1>7. Ordered(y)
  <2>1. x.open /\ ~y.open => x.saves = <<TRUE>>
    BY <1>3
  <2>2. x.saves = <<TRUE>> => x.wait = None
    <3>1. <<TRUE>> \notin {<<>>, <<FALSE>>}
      OBVIOUS
    <3> QED BY <3>1 DEF PaneOk, Ordered
  <2> QED BY <1>1, <2>1, <2>2 DEF PaneOk, Ordered
<1>8. Knows(y)
  <2>1. ~y.open /\ y.draftId = 0 => x.saves = <<TRUE>>
    <3>1. ~x.open /\ x.draftId = 0 => FALSE
      BY <1>1 DEF PaneOk, Knows, Heard
    <3> QED BY <1>3, <3>1
  <2> QED BY <1>4, <2>1 DEF PaneOk, Knows, Heard, Stored
<1>9. Within(y, e) /\ Makes(y, m)
  <2>1. y.draftId = 0 => ~y.open
    BY <1>4
  <2>2. y.run.step \in Heard
    BY DEF Heard
  <2> QED BY <2>1, <2>2, <1>4 DEF PaneOk, Makes, Within
<1>10. Stores(y, D)
  BY <1>4, <1>5 DEF PaneOk, Stores, Stored
<1> QED BY <1>5, <1>6, <1>7, <1>8, <1>9, <1>10 DEF PaneOk

LEMMA SavedKeeps ==
  ASSUME DInv, PInv, NEW p \in DOMAIN panes, Saved(p)
  PROVE  PInv'
<1> DEFINE x == panes[p]
           open == x.open /\ ~Head(x.saves)
           told == [x EXCEPT !.open = open, !.saved = x.run.content,
                             !.draftId = IF open THEN x.run.draftId ELSE @]
           y(step) == [told EXCEPT !.run.step = step]
           z == Ended(told)
<1>1. x \in GoodPane /\ PaneOk(x, made[p], drafts, edits)
  BY PaneIsOk
<1>2. x.run.step = "saved" /\ edits' \in Nat /\ edits' = edits /\ edits \in Nat
  <2>1. x.run.step = "saved" /\ edits' = edits
    BY DEF Saved
  <2> QED BY <2>1 DEF DInv, GoodRest
<1>3. \/ Put(p, y("upload")) \/ Put(p, y("remove")) \/ Put(p, z)
  BY DEF Saved
<1>4. UNCHANGED <<drafts, outbox, made>>
  BY DEF Saved
<1>5. Undisturbed' => Undisturbed
  BY Undisturbing DEF Saved, folderVars
<1>6. Head(x.saves) \in BOOLEAN
  <2>1. x.saves # <<>>
    BY <1>1, <1>2 DEF GoodPane
  <2> QED BY <1>1, <2>1, HeadTailProperties DEF GoodPane, Pane
<1>7. /\ told \in Pane /\ told.open = open /\ told.content = x.content
      /\ told.saved = x.run.content /\ told.saves = x.saves /\ told.wait = x.wait
      /\ told.run = x.run /\ told.draftId = (IF open THEN x.run.draftId ELSE x.draftId)
  BY <1>1, <1>6 DEF GoodPane, Pane
<1> HIDE DEF told
<1>8. ASSUME NEW step \in {"upload", "remove"}
      PROVE  /\ y(step).open = told.open /\ y(step).content = told.content
             /\ y(step).saved = told.saved /\ y(step).saves = told.saves
             /\ y(step).wait = told.wait /\ y(step).draftId = told.draftId
             /\ y(step).run.step = step /\ y(step).run.draftId = x.run.draftId
             /\ y(step).run.content = x.run.content
             /\ y(step) \in GoodPane \/ step = "remove"
  BY <1>1, <1>2, <1>7 DEF GoodPane, Pane
<1>9. /\ z.open = told.open /\ z.draftId = told.draftId /\ z.content = told.content
      /\ z.saved = told.saved /\ z.saves = Tail(told.saves) /\ z.run = NoRun
      /\ z.wait = EndedWait(told.wait)
  BY <1>7, EndedFields
<1> HIDE DEF z, y, open
<1>10. ASSUME NEW step \in {"upload", "remove"}
       PROVE  /\ PaneOk(y(step), made[p], drafts, edits)
              /\ Holds(y(step)) = Holds(x) /\ Texts(y(step)) \subseteq Texts(x)
  <2>1. y(step).open = (x.open /\ ~Head(x.saves))
    BY <1>7, <1>8 DEF open
  <2>2. y(step).draftId = (IF x.open /\ ~Head(x.saves) THEN x.run.draftId ELSE x.draftId)
    BY <1>7, <1>8 DEF open
  <2> DEFINE w == y(step)
  <2>3. /\ w.content = x.content /\ w.saved = x.run.content /\ w.saves = x.saves
        /\ w.wait = x.wait /\ w.run.step \in {"upload", "remove"}
        /\ w.run.draftId = x.run.draftId /\ w.run.content = x.run.content
    BY <1>7, <1>8
  <2> HIDE DEF x
  <2> QED BY <1>1, <1>2, <2>1, <2>2, <2>3, SavedOk
<1>11. ASSUME NEW step \in {"upload", "remove"}, Put(p, y(step)) PROVE PInv'
  BY <1>2, <1>4, <1>5, <1>10, <1>11, TurnKept DEF x
<1>12. CASE Put(p, z)
  <2> DEFINE w == y("upload")
  <2>1. /\ w \in GoodPane /\ PaneOk(w, made[p], drafts, edits)
        /\ Holds(w) = Holds(x) /\ Texts(w) \subseteq Texts(x)
        /\ w.run.step \in {"save"} \cup Heard /\ w.wait = x.wait
    BY <1>7, <1>8, <1>10 DEF Heard
  <2>2. /\ z.open = w.open /\ z.draftId = w.draftId /\ z.content = w.content
        /\ z.saved = w.saved /\ z.saves = Tail(w.saves) /\ z.run = NoRun
        /\ z.wait = EndedWait(w.wait)
    BY <1>8, <1>9
  <2> HIDE DEF w
  <2>3. /\ PaneOk(z, made[p], drafts, edits)
        /\ Holds(z) = Holds(w) \/ (Holds(z) = {} /\ Texts(z) = {})
        /\ Texts(z) \subseteq Texts(w)
        /\ w.wait.step = "wait"
    BY <1>2, <2>1, <2>2, EndedOk
  <2> QED BY <1>2, <1>4, <1>5, <1>12, <2>1, <2>3, TurnKept DEF x
<1> QED BY <1>3, <1>11, <1>12

LEMMA SaveDraftKeeps ==
  ASSUME DInv, PInv, NEW p \in DOMAIN panes, SaveDraft(p)
  PROVE  PInv'
<1> DEFINE x  == panes[p]
           id == IF x.run.draftId = 0 THEN NextDraftId ELSE x.run.draftId
           y  == [x EXCEPT !.run.step = "saved", !.run.draftId = id]
<1>1. x \in GoodPane /\ PaneOk(x, made[p], drafts, edits)
  BY PaneIsOk
<1>2. id \in Nat \ {0} /\ (x.run.draftId = 0 => id \notin DOMAIN drafts)
  <2>1. x.run.draftId \in Nat
    BY <1>1 DEF GoodPane, Pane
  <2> QED BY <2>1, NextDraftIdType DEF DInv
<1>3. /\ x.run.step = "save"
      /\ x.run.draftId \in {0} \cup DOMAIN drafts
      /\ made' = IF x.run.draftId = 0 THEN [made EXCEPT ![p] = @ \cup {id}] ELSE made
      /\ Put(p, y) /\ UNCHANGED <<edits, outbox, left>>
  BY DEF SaveDraft
<1>4. PICK link : drafts' = With(id, [sealed |-> x.run.encrypt, link |-> link,
                                      content |-> x.run.content])
  BY DEF SaveDraft
<1>5. UNCHANGED faults
  BY DEF SaveDraft, RemoveInBackground, Begin, folderVars
<1> HIDE DEF id
<1>6. /\ y.open = x.open /\ y.draftId = x.draftId /\ y.content = x.content /\ y.saved = x.saved
      /\ y.saves = x.saves /\ y.wait = x.wait
      /\ y.run.step = "saved" /\ y.run.draftId = id /\ y.run.content = x.run.content
  BY <1>1 DEF GoodPane, Pane
<1>7. /\ DOMAIN drafts' = {id} \cup DOMAIN drafts /\ drafts'[id].content = x.run.content
      /\ \A d \in DOMAIN drafts \ {id} : drafts'[d] = drafts[d]
  BY <1>4 DEF With
<1>8. /\ panes \in Seq(GoodPane) /\ edits \in Nat /\ panes' = [panes EXCEPT ![p] = y]
      /\ outbox' = outbox /\ edits' = edits
  BY <1>3 DEF DInv, GoodPanes, GoodRest, Put
<1>9. p \in DOMAIN made /\ \A q \in DOMAIN panes \ {p} : made'[q] = made[q]
  <2>1. DOMAIN made = DOMAIN panes
    BY LenProperties DEF DInv, GoodPanes
  <2> QED BY <1>3, <2>1
<1>10. /\ PanesOk(panes, made, drafts, edits) /\ Numbered(drafts, outbox, edits)
       /\ Undisturbed => Apart(panes, drafts, outbox)
  BY DEF PInv
<1> HIDE DEF x, y
<1>11. /\ x.run.draftId = x.draftId /\ x.saves # <<>> /\ x.run.content \in 1..edits
       /\ x.draftId \in {0, id} /\ (x.draftId = 0 => id \notin DOMAIN drafts)
  <2>1. x.run.draftId = x.draftId /\ x.saves # <<>> /\ x.run.content \in 1..edits
    BY <1>1, <1>3, <1>8 DEF GoodPane, PaneOk, Knows, Within
  <2> QED BY <1>2, <2>1 DEF id
<1>12. Live(x) /\ Live(y) /\ Holds(y) = {id} /\ Holds(x) = {x.draftId} \ {0} /\ Texts(y) \subseteq Texts(x)
  BY <1>2, <1>6, <1>11 DEF Live, Holds, Texts
<1>13. \A q \in DOMAIN panes \ {p} : id \notin Holds(panes[q]) /\ Holds(panes[q]) \subseteq DOMAIN drafts
  <2>1. SUFFICES ASSUME NEW q \in DOMAIN panes \ {p}
                 PROVE  id \notin Holds(panes[q]) /\ Holds(panes[q]) \subseteq DOMAIN drafts
    OBVIOUS
  <2>2. Holds(panes[q]) \subseteq DOMAIN drafts /\ Holds(x) \cap Holds(panes[q]) = {}
    BY <1>10 DEF PanesOk, PaneOk, Stores, x
  <2> QED BY <1>2, <1>11, <1>12, <2>2
<1>14. PaneOk(y, made'[p], drafts', edits')
  <2>1. Ordered(y) /\ Knows(y) /\ Within(y, edits')
    <3>1. Ordered(y)
      BY <1>1, <1>6 DEF PaneOk, Ordered
    <3>2. Knows(y)
      BY <1>1, <1>2, <1>3, <1>6, <1>11 DEF PaneOk, Knows, Stored, Heard
    <3>3. Within(y, edits')
      BY <1>1, <1>6, <1>8 DEF PaneOk, Within
    <3> QED BY <3>1, <3>2, <3>3
  <2>2. Makes(y, made'[p])
    <3>1. CASE x.run.draftId = 0
      <4>1. made[p] = {}
        BY <1>1, <1>3, <1>11, <3>1 DEF PaneOk, Makes, Heard
      <4>2. made'[p] = {id}
        BY <1>3, <1>9, <3>1, <4>1
      <4> QED BY <1>6, <4>2 DEF Makes
    <3>2. CASE x.run.draftId # 0
      BY <1>1, <1>3, <1>6, <3>2 DEF PaneOk, Makes
    <3> QED BY <3>1, <3>2
  <2>3. Stores(y, drafts')
    BY <1>6, <1>7, <1>12 DEF Stores
  <2> QED BY <2>1, <2>2, <2>3 DEF PaneOk
<1>15. PanesOk([panes EXCEPT ![p] = y], made', drafts', edits')
  <2>1. \A q \in DOMAIN panes \ {p} :
          /\ made'[q] = made[q] /\ Holds(y) \cap Holds(panes[q]) = {}
          /\ \A d \in Holds(panes[q]) : d \in DOMAIN drafts' /\ drafts'[d] = drafts[d]
    BY <1>7, <1>9, <1>12, <1>13
  <2>2. panes \in Seq(GoodPane) /\ edits \in Nat /\ edits' \in Nat /\ edits <= edits'
    BY <1>8
  <2>3. PanesOk(panes, made, drafts, edits)
    BY <1>10
  <2> QED BY <1>14, <2>1, <2>2, <2>3, PutOk
<1>16. Numbered(drafts', outbox', edits')
  BY <1>7, <1>8, <1>10, <1>11 DEF Numbered
<1>17. ASSUME Undisturbed' PROVE Apart([panes EXCEPT ![p] = y], drafts', outbox)
  <2> DEFINE qs == [panes EXCEPT ![p] = y]
  <2>1. Apart(panes, drafts, outbox)
    BY <1>3, <1>5, <1>10, <1>17 DEF Undisturbed
  <2>2. \A d \in Loose(qs, drafts') :
          d \in DOMAIN drafts /\ drafts'[d].content = drafts[d].content /\ d \in Loose(panes, drafts)
    <3>1. SUFFICES ASSUME NEW d \in Loose(qs, drafts')
                   PROVE  /\ d \in DOMAIN drafts /\ drafts'[d].content = drafts[d].content
                          /\ d \in Loose(panes, drafts)
      OBVIOUS
    <3>2. \A q \in DOMAIN panes : qs[q] = IF q = p THEN y ELSE panes[q]
      OBVIOUS
    <3>3. DOMAIN qs = DOMAIN panes
      OBVIOUS
    <3> HIDE DEF qs
    <3>4. d \in DOMAIN drafts' /\ \A q \in DOMAIN panes : d \notin Holds(qs[q])
      BY <3>3 DEF Loose
    <3>5. d # id
      BY <1>12, <3>2, <3>4
    <3>6. d \in DOMAIN drafts /\ drafts'[d] = drafts[d]
      BY <1>7, <3>4, <3>5
    <3>7. \A q \in DOMAIN panes : d \notin Holds(panes[q])
      BY <1>11, <1>12, <3>2, <3>4, <3>5 DEF x
    <3> QED BY <3>6, <3>7 DEF Loose
  <2>3. Texts(y) \subseteq Texts(panes[p]) \cup {}
    BY <1>12 DEF x
  <2>4. ASSUME NEW E,
               \A d \in Loose(qs, E) :
                 d \in DOMAIN drafts /\ E[d].content = drafts[d].content /\ d \in Loose(panes, drafts)
        PROVE  Apart(qs, E, outbox)
    <3>1. {} \cap 1..edits = {} /\ {} \cap outbox = {}
      OBVIOUS
    <3>2. panes \in Seq(GoodPane) /\ edits \in Nat
      BY <1>8
    <3>3. PanesOk(panes, made, drafts, edits) /\ Numbered(drafts, outbox, edits)
      BY <1>10
    <3> HIDE DEF qs
    <3>4. qs = [panes EXCEPT ![p] = y]
      BY DEF qs
    <3> QED BY <2>1, <2>3, <2>4, <3>1, <3>2, <3>3, <3>4, PutApart
  <2> QED BY <2>2, <2>4
<1> QED BY <1>8, <1>15, <1>16, <1>17 DEF PInv

\* A save gets on with the server.
LEMMA AwaitKeeps ==
  ASSUME DInv, PInv, NEW p \in DOMAIN panes, panes[p].run.step \in {"upload", "remove"},
         NEW op, NEW link, Await(p, op, link)
  PROVE  PInv'
<1> DEFINE x == panes[p]
           y == [x EXCEPT !.run.step = "session", !.run.job = Slot]
<1>1. x \in GoodPane /\ PaneOk(x, made[p], drafts, edits)
  BY PaneIsOk
<1>2. Put(p, y) /\ UNCHANGED <<drafts, edits, outbox, left, made, faults>>
  BY DEF Await, Begin
<1>3. /\ y.open = x.open /\ y.draftId = x.draftId /\ y.content = x.content /\ y.saved = x.saved
      /\ y.saves = x.saves /\ y.wait = x.wait /\ y.run.step = "session"
      /\ y.run.draftId = x.run.draftId /\ y.run.content = x.run.content
  BY <1>1 DEF GoodPane, Pane
<1>4. x.run.step \in {"upload", "remove"} /\ edits' \in Nat /\ edits' = edits /\ edits \in Nat
  BY <1>2 DEF DInv, GoodRest
<1> HIDE DEF x, y
<1>5. Live(y) = Live(x) /\ Holds(y) = Holds(x) /\ Texts(y) = Texts(x)
  BY <1>3 DEF Live, Holds, Texts
<1>6. PaneOk(y, made[p], drafts, edits')
  <2>1. Ordered(y) /\ Knows(y)
    BY <1>1, <1>3, <1>4 DEF PaneOk, Ordered, Knows, Stored, Heard
  <2>2. Within(y, edits') /\ Makes(y, made[p])
    BY <1>1, <1>3, <1>4 DEF PaneOk, Within, Makes, Heard
  <2>3. Stores(y, drafts)
    BY <1>1, <1>3, <1>4, <1>5 DEF PaneOk, Stores, Stored
  <2> QED BY <2>1, <2>2, <2>3 DEF PaneOk
<1>7. Undisturbed' => Undisturbed
  BY <1>2, Undisturbing
<1> QED BY <1>2, <1>4, <1>5, <1>6, <1>7, TurnKept DEF x

LEMMA UploadFailedKeeps ==
  ASSUME DInv, PInv, NEW p \in DOMAIN panes, panes[p].run.step \in {"upload", "session"},
         UploadFailed(p), UNCHANGED <<drafts, edits, outbox, left, faults>>
  PROVE  PInv'
<1> DEFINE x  == panes[p]
           y  == Ended(x)
           ps == [panes EXCEPT ![p] = y]
           n  == NewPane(x.run.content, x.run.draftId, x.run.link, x.run.encrypt, x.run.content)
<1>1. x \in GoodPane /\ PaneOk(x, made[p], drafts, edits) /\ y \in GoodPane
  <2>1. x \in GoodPane /\ x \in Pane /\ PaneOk(x, made[p], drafts, edits)
    BY PaneIsOk DEF GoodPane
  <2>2. x.saves # <<>>
    BY <2>1 DEF GoodPane
  <2> QED BY <2>1, <2>2, EndedGood
<1>2. /\ y.open = x.open /\ y.draftId = x.draftId /\ y.content = x.content /\ y.saved = x.saved
      /\ y.saves = Tail(x.saves) /\ y.run = NoRun /\ y.wait = EndedWait(x.wait)
  BY <1>1, EndedFields DEF GoodPane
<1>3. x.run.step \in {"save"} \cup Heard /\ edits \in Nat
  BY DEF DInv, GoodRest, Heard
<1>4. \/ panes' = ps /\ UNCHANGED made
      \/ ~x.open /\ Add(ps, n)
  BY DEF UploadFailed
<1>5. Undisturbed' => Undisturbed
  BY Undisturbing
<1> HIDE DEF x, y
<1>6. /\ PaneOk(y, made[p], drafts, edits)
      /\ Holds(y) = Holds(x) \/ (Holds(y) = {} /\ Texts(y) = {})
      /\ Texts(y) \subseteq Texts(x)
      /\ Live(x) /\ x.wait.step = "wait"
      /\ ~x.open => ~Live(y)
  BY <1>1, <1>2, <1>3, EndedOk
<1>7. PanesOk(ps, made, drafts, edits)
  BY <1>3, <1>6, TurnOk DEF x
<1>8. Undisturbed => Apart(ps, drafts, outbox)
  <2>1. Texts(y) \subseteq Texts(x) \cup (edits + 1)..edits
    BY <1>6
  <2> QED BY <1>3, <1>6, <2>1, TurnOk DEF x
<1>9. ps \in Seq(GoodPane) /\ Len(ps) = Len(panes)
  <2>1. p \in 1..Len(panes)
    BY LenProperties DEF DInv, GoodPanes
  <2> QED BY <1>1, <2>1, ExceptSeq DEF DInv, GoodPanes
<1>10. DOMAIN ps = DOMAIN panes /\ ps[p] = y /\ \A q \in DOMAIN panes \ {p} : ps[q] = panes[q]
  OBVIOUS
<1> HIDE DEF ps
<1>11. CASE panes' = ps /\ UNCHANGED made
  BY <1>5, <1>7, <1>8, <1>11 DEF PInv
<1>12. CASE ~x.open /\ Add(ps, n)
  <2> DEFINE id == x.run.draftId
  <2>1. id \in Holds(x) /\ id # 0 /\ drafts[id].content = x.run.content /\ id \in DOMAIN drafts
    BY <1>1, <1>6 DEF Holds, PaneOk, Knows, Stores, Stored, x
  <2>2. x.run.content \in 1..edits
    BY <2>1 DEF PInv, Numbered
  <2>3. PaneOk(n, {}, drafts, edits) /\ Holds(n) = {id} /\ Texts(n) = {x.run.content}
    <3>1. /\ n.open = TRUE /\ n.draftId = id /\ n.content = x.run.content
          /\ n.saved = x.run.content /\ n.saves = <<>> /\ n.run = NoRun /\ n.wait = None
      BY DEF NewPane
    <3> HIDE DEF n, id
    <3>2. PaneOk(n, {}, drafts, edits) /\ Holds(n) = {n.draftId} \ {0} /\ Texts(n) = {n.content}
      BY <1>3, <2>1, <2>2, <3>1, NewPaneOk
    <3> QED BY <2>1, <3>1, <3>2
  <2> HIDE DEF id, n
  <2>4. \A q \in DOMAIN ps : id \notin Holds(ps[q])
    <3>1. Holds(y) = {}
      BY <1>6, <1>12 DEF Holds
    <3>2. \A q \in DOMAIN panes \ {p} : id \notin Holds(panes[q])
      BY <2>1 DEF PInv, PanesOk, x
    <3> QED BY <1>10, <3>1, <3>2
  <2>5. PanesOk(Append(ps, n), Append(made, {}), drafts, edits)
    <3>1. made \in Seq(SUBSET Nat) /\ Len(made) = Len(ps)
      BY <1>9 DEF DInv, GoodPanes
    <3>2. \A q \in DOMAIN ps : Holds(n) \cap Holds(ps[q]) = {}
      BY <2>3, <2>4
    <3> QED BY <1>3, <1>7, <1>9, <2>3, <3>1, <3>2, AddOk
  <2>6. ASSUME Undisturbed PROVE Apart(Append(ps, n), drafts, outbox)
    <3>1. id \in Loose(ps, drafts)
      BY <2>1, <2>4 DEF Loose
    <3>2. Apart(ps, drafts, outbox)
      BY <1>8, <2>6
    <3>3. /\ Texts(n) \cap outbox = {}
          /\ \A q \in DOMAIN ps : Texts(n) \cap Texts(ps[q]) = {}
          /\ \A d \in Loose(ps, drafts) \ Holds(n) : drafts[d].content \notin Texts(n)
      BY <2>1, <2>3, <3>1, <3>2 DEF Apart
    <3> QED BY <1>9, <3>2, <3>3, AddApart
  <2>7. panes' = Append(ps, n) /\ made' = Append(made, {})
    BY <1>12 DEF Add
  <2> QED BY <1>5, <2>5, <2>6, <2>7 DEF PInv
<1> QED BY <1>4, <1>11, <1>12

LEMMA UploadedKeeps ==
  ASSUME DInv, FolderTypeOK, PInv, NEW p \in DOMAIN panes, Uploaded(p)
  PROVE  PInv'
<1> DEFINE x == panes[p]
           link == IF jobs[x.run.job].op = "replace" THEN jobs[x.run.job].link ELSE NoLink
           w == IF jobs[x.run.job].failed \/ ~x.open THEN x ELSE [x EXCEPT !.link = link]
           y == Ended(w)
<1>1. x \in GoodPane /\ PaneOk(x, made[p], drafts, edits)
  BY PaneIsOk
<1>2. x.run.step = "session" /\ UNCHANGED <<drafts, edits, outbox, left, faults>>
  BY DEF Uploaded, Free
<1>3. UploadFailed(p) \/ (Put(p, y) /\ UNCHANGED made)
  BY DEF Uploaded
<1>4. edits' \in Nat /\ edits' = edits /\ edits \in Nat
  BY <1>2 DEF DInv, GoodRest
<1>5. link \in Link \cup {NoLink}
  <2>1. jobs[x.run.job] \in Session
    BY <1>1, <1>2 DEF GoodPane, FolderTypeOK
  <2> QED BY <2>1 DEF Session
<1> HIDE DEF link
<1>6. /\ w \in Pane /\ w.open = x.open /\ w.draftId = x.draftId /\ w.content = x.content
      /\ w.saved = x.saved /\ w.saves = x.saves /\ w.run = x.run /\ w.wait = x.wait
  <2> DEFINE z == [x EXCEPT !.link = link]
  <2>1. x \in Pane
    BY <1>1 DEF GoodPane
  <2> HIDE DEF x
  <2>2. /\ z \in Pane /\ z.open = x.open /\ z.draftId = x.draftId /\ z.content = x.content
        /\ z.saved = x.saved /\ z.saves = x.saves /\ z.run = x.run /\ z.wait = x.wait
    BY <1>5, <2>1 DEF Pane
  <2>3. w = x \/ w = z
    BY Zenon DEF w
  <2> HIDE DEF w, z
  <2> QED BY <2>1, <2>2, <2>3
<1> HIDE DEF w
<1>7. /\ y.open = x.open /\ y.draftId = x.draftId /\ y.content = x.content /\ y.saved = x.saved
      /\ y.saves = Tail(x.saves) /\ y.run = NoRun /\ y.wait = EndedWait(x.wait)
  BY <1>6, EndedFields
<1>8. x.run.step \in {"save"} \cup Heard
  BY <1>2 DEF Heard
<1>9. Undisturbed' => Undisturbed
  BY <1>2, Undisturbing
<1> HIDE DEF x, y
<1>10. CASE Put(p, y) /\ UNCHANGED made
  <2>1. /\ PaneOk(y, made[p], drafts, edits)
        /\ Holds(y) = Holds(x) \/ (Holds(y) = {} /\ Texts(y) = {})
        /\ Texts(y) \subseteq Texts(x) /\ x.wait.step = "wait"
    BY <1>1, <1>4, <1>7, <1>8, EndedOk
  <2> QED BY <1>2, <1>4, <1>9, <1>10, <2>1, TurnKept DEF x
<1>11. CASE UploadFailed(p)
  BY <1>2, <1>11, UploadFailedKeeps DEF x
<1> QED BY <1>3, <1>10, <1>11

-----------------------------------------------------------------------------
(* Their sending and discarding, and what leaves them alone *)

\* A pane that is sending or discarding.
LEMMA Waiting ==
  ASSUME DInv, PInv, NEW p \in DOMAIN panes, panes[p].wait # None,
         panes[p].wait.step # "wait" \/ panes[p].wait.after = 0
  PROVE  /\ panes[p].saves = <<>> /\ panes[p].open /\ panes[p].wait.for # "nothing"
         /\ panes[p].run.step = "none" /\ panes[p].run.draftId = 0 /\ panes[p].run.content = 0
<1> DEFINE x == panes[p]
<1>1. x \in GoodPane /\ PaneOk(x, made[p], drafts, edits)
  BY PaneIsOk
<1>2. x.saves = <<>> /\ x.open /\ x.wait.for # "nothing"
  <2>1. x.wait # None /\ (x.wait.step # "wait" \/ x.wait.after = 0) /\ Ordered(x)
    BY <1>1 DEF PaneOk
  <2> HIDE DEF x
  <2>2. x.open
    BY <2>1 DEF Ordered
  <2>3. x.wait.for # "nothing" /\ (x.saves # <<>> => x.wait.after = 1)
    BY <2>1 DEF Ordered
  <2>4. x.wait.step # "wait" => x.saves = <<>>
    BY <2>1 DEF Ordered
  <2> QED BY <2>1, <2>2, <2>3, <2>4
<1> QED BY <1>1, <1>2 DEF GoodPane, PaneOk, Knows

LEMMA SettledKeeps ==
  ASSUME DInv, PInv, NEW p \in DOMAIN panes, Settled(p)
  PROVE  PInv'
<1> DEFINE x == panes[p]
           a == [x EXCEPT !.open = FALSE, !.wait = None]
           b == [x EXCEPT !.wait.step = "queue", !.wait.draftId = x.draftId,
                          !.wait.content = x.content]
<1>1. x \in GoodPane /\ PaneOk(x, made[p], drafts, edits)
  BY PaneIsOk
<1>2. x.wait # None /\ x.wait.step = "wait" /\ x.wait.after = 0 /\ edits' = edits
  BY DEF Settled
<1>3. (Put(p, a) \/ Put(p, b)) /\ UNCHANGED <<drafts, outbox, made, faults, left>>
  BY DEF Settled, folderVars
<1>4. /\ x.saves = <<>> /\ x.open /\ x.wait.for # "nothing"
      /\ x.run.step = "none" /\ x.run.draftId = 0 /\ x.run.content = 0
  BY <1>2, Waiting
<1>5. Undisturbed' => Undisturbed
  BY <1>3, Undisturbing
<1>6. edits \in Nat /\ edits' \in Nat
  BY <1>2 DEF DInv, GoodRest
<1>7. /\ a.open = FALSE /\ a.wait = None /\ a.draftId = x.draftId /\ a.content = x.content
      /\ a.saved = x.saved /\ a.saves = x.saves /\ a.run = x.run
  BY <1>1 DEF GoodPane, Pane
<1>8. /\ b.open = x.open /\ b.draftId = x.draftId /\ b.content = x.content
      /\ b.saved = x.saved /\ b.saves = x.saves /\ b.run = x.run
      /\ b.wait.step = "queue" /\ b.wait.draftId = x.draftId /\ b.wait.content = x.content
      /\ b.wait.for = x.wait.for
  BY <1>1 DEF GoodPane, Pane
<1> HIDE DEF x, a, b
<1>9. CASE Put(p, a)
  <2>1. Holds(a) = {} /\ Texts(a) = {} /\ ~Live(a)
    BY <1>4, <1>7 DEF Holds, Texts, Live
  <2>2. Ordered(a)
    BY <1>4, <1>7, NoneFields DEF Ordered
  <2>3. PaneOk(a, made[p], drafts, edits')
    BY <1>1, <1>2, <1>4, <1>7, <2>1, <2>2 DEF PaneOk, Knows, Within, Makes, Stores, Stored, Heard
  <2> QED BY <1>2, <1>3, <1>5, <1>6, <1>9, <2>1, <2>3, TurnKept DEF x
<1>10. CASE Put(p, b)
  <2>1. Live(x) /\ Live(b) /\ Holds(b) = Holds(x) /\ Texts(b) = Texts(x)
    BY <1>2, <1>4, <1>8 DEF Holds, Texts, Live
  <2>2. Ordered(b)
    BY <1>4, <1>8 DEF Ordered
  <2>3. Knows(b) /\ Within(b, edits') /\ Makes(b, made[p])
    BY <1>1, <1>2, <1>8 DEF PaneOk, Knows, Within, Makes
  <2>4. Stores(b, drafts)
    BY <1>1, <1>8, <2>1 DEF PaneOk, Stores
  <2>5. PaneOk(b, made[p], drafts, edits')
    BY <2>2, <2>3, <2>4 DEF PaneOk
  <2> QED BY <1>2, <1>3, <1>5, <1>6, <1>10, <2>1, <2>5, TurnKept DEF x
<1> QED BY <1>3, <1>9, <1>10

LEMMA SendFailsKeeps ==
  ASSUME DInv, PInv, NEW p \in DOMAIN panes, SendFails(p)
  PROVE  PInv'
<1> DEFINE x == panes[p]
           y == [x EXCEPT !.wait = None]
<1>1. x \in GoodPane /\ PaneOk(x, made[p], drafts, edits)
  BY PaneIsOk
<1>2. x.wait.step \in {"queue", "delete"} /\ Put(p, y)
      /\ UNCHANGED <<drafts, edits, outbox, made>>
  BY DEF SendFails
<1>3. x.saves = <<>> /\ x.open
  BY <1>2, NoneFields, Waiting
<1>4. edits \in Nat /\ edits' \in Nat /\ edits' = edits
  BY <1>2 DEF DInv, GoodRest
<1>5. ~Undisturbed'
  <2>1. left.errors \in 0..Errors /\ left'.errors = left.errors - 1
    BY DEF SendFails, Error, DInv, GoodRest
  <2>2. left'.errors # Errors
    BY <2>1
  <2> QED BY <2>2 DEF Undisturbed
<1>6. /\ y.open = x.open /\ y.draftId = x.draftId /\ y.content = x.content /\ y.saved = x.saved
      /\ y.saves = x.saves /\ y.run = x.run /\ y.wait = None
  BY <1>1 DEF GoodPane, Pane
<1> HIDE DEF x, y
<1>7. Live(x) /\ Live(y) /\ Holds(y) = Holds(x)
  BY <1>2, <1>3, <1>6, NoneFields DEF Holds, Live
<1>8. PaneOk(y, made[p], drafts, edits')
  <2>1. Ordered(y)
    BY <1>3, <1>6, NoneFields DEF Ordered
  <2>2. Knows(y) /\ Within(y, edits') /\ Makes(y, made[p])
    BY <1>1, <1>4, <1>6 DEF PaneOk, Knows, Within, Makes
  <2>3. Stores(y, drafts)
    BY <1>1, <1>6, <1>7 DEF PaneOk, Stores
  <2> QED BY <2>1, <2>2, <2>3 DEF PaneOk
<1> QED BY <1>2, <1>4, <1>5, <1>7, <1>8, TurnKept DEF x

LEMMA SendMessageKeeps ==
  ASSUME DInv, PInv, NEW p \in DOMAIN panes, SendMessage(p)
  PROVE  PInv'
<1> DEFINE x == panes[p]
           step == IF x.wait.draftId = 0 THEN "close" ELSE "delete"
           y == [x EXCEPT !.wait.step = step]
<1>1. x \in GoodPane /\ PaneOk(x, made[p], drafts, edits)
  BY PaneIsOk
<1>2. x.wait.step = "queue" /\ Put(p, y) /\ outbox' = outbox \cup {x.wait.content}
      /\ UNCHANGED <<drafts, edits, made, left, faults>>
  BY DEF SendMessage, folderVars
<1>3. /\ x.saves = <<>> /\ x.open /\ x.wait.for # "nothing"
      /\ x.run.step = "none" /\ x.run.draftId = 0 /\ x.run.content = 0
  BY <1>2, NoneFields, Waiting
<1>4. x.wait.draftId = x.draftId /\ x.wait.content = x.content /\ x.content \in 1..edits
  BY <1>1, <1>2 DEF PaneOk, Ordered, Within
<1>5. /\ y.open = x.open /\ y.draftId = x.draftId /\ y.content = x.content /\ y.saved = x.saved
      /\ y.saves = x.saves /\ y.run = x.run /\ y.wait.step = step
      /\ y.wait.for = x.wait.for /\ y.wait.draftId = x.wait.draftId
      /\ y.wait.content = x.wait.content
  <2> HIDE DEF step
  <2> QED BY <1>1 DEF GoodPane, Pane
<1>6. edits \in Nat
  BY DEF DInv, GoodRest
<1> HIDE DEF x, y
<1>7. /\ Holds(y) = Holds(x) /\ Texts(y) = {} /\ x.content \in Texts(x)
      /\ Live(y) => Live(x)
  BY <1>2, <1>3, <1>4, <1>5, <1>6 DEF Holds, Texts, Live
<1>8. PaneOk(y, made[p], drafts, edits)
  <2>1. Ordered(y)
    BY <1>3, <1>4, <1>5, NoneFields DEF Ordered
  <2>2. Knows(y) /\ Within(y, edits) /\ Makes(y, made[p])
    BY <1>1, <1>5 DEF PaneOk, Knows, Within, Makes
  <2>3. Stores(y, drafts)
    BY <1>1, <1>5, <1>7 DEF PaneOk, Stores
  <2> QED BY <2>1, <2>2, <2>3 DEF PaneOk
<1>9. PanesOk([panes EXCEPT ![p] = y], made, drafts, edits)
  BY <1>6, <1>7, <1>8, TurnOk DEF x
<1>10. Numbered(drafts, outbox', edits)
  BY <1>2, <1>4 DEF PInv, Numbered
<1>11. ASSUME Undisturbed PROVE Apart([panes EXCEPT ![p] = y], drafts, outbox')
  <2> DEFINE qs == [panes EXCEPT ![p] = y]
             u  == outbox \cup {x.content}
  <2>1. Apart(panes, drafts, outbox) /\ PanesOk(panes, made, drafts, edits)
        /\ Numbered(drafts, outbox, edits)
    BY <1>11 DEF PInv
  <2>2. panes \in Seq(GoodPane)
    BY DEF DInv, GoodPanes
  <2>3. {} \cap 1..edits = {} /\ Texts(y) \subseteq Texts(panes[p]) \cup {}
        /\ {} \cap u = {} /\ u \subseteq outbox \cup (Texts(panes[p]) \ Texts(y))
    BY <1>7 DEF x
  <2>4. \A d \in Loose(qs, drafts) : d \in DOMAIN drafts /\ d \in Loose(panes, drafts)
    <3>1. \A q \in DOMAIN panes : qs[q] = IF q = p THEN y ELSE panes[q]
      OBVIOUS
    <3>2. DOMAIN qs = DOMAIN panes
      OBVIOUS
    <3> HIDE DEF qs
    <3>3. \A q \in DOMAIN panes : Holds(qs[q]) = Holds(panes[q])
      BY <1>7, <3>1 DEF x
    <3> QED BY <3>2, <3>3 DEF Loose
  <2>5. outbox' = u
    BY <1>2, <1>4
  <2> HIDE DEF qs, u
  <2>6. qs = [panes EXCEPT ![p] = y]
    BY DEF qs
  <2>7. Apart(qs, drafts, u)
    BY <1>6, <2>1, <2>2, <2>3, <2>4, <2>6, PutApart
  <2> QED BY <2>5, <2>6, <2>7
<1>12. Undisturbed' => Undisturbed
  BY <1>2, Undisturbing
<1>13. panes' = [panes EXCEPT ![p] = y]
  BY <1>2 DEF Put
<1> QED BY <1>2, <1>9, <1>10, <1>11, <1>12, <1>13 DEF PInv

LEMMA DeleteDraftKeeps ==
  ASSUME DInv, PInv, NEW p \in DOMAIN panes, DeleteDraft(p)
  PROVE  PInv'
<1> DEFINE x  == panes[p]
           id == x.wait.draftId
           y  == [x EXCEPT !.wait.step = "close"]
<1>1. x \in GoodPane /\ PaneOk(x, made[p], drafts, edits)
  BY PaneIsOk
<1>2. x.wait.step = "delete" /\ Put(p, y) /\ UNCHANGED <<edits, outbox, made, left>>
  BY DEF DeleteDraft
<1>3. UNCHANGED faults
  BY DEF DeleteDraft, RemoveInBackground, Begin, folderVars
<1>4. DOMAIN drafts' = DOMAIN drafts \ {id} /\ \A d \in DOMAIN drafts' : drafts'[d] = drafts[d]
  BY DEF DeleteDraft, Restrict
<1>5. /\ x.saves = <<>> /\ x.open /\ x.wait.for # "nothing"
      /\ x.run.step = "none" /\ x.run.draftId = 0 /\ x.run.content = 0
  BY <1>2, NoneFields, Waiting
<1>6. id = x.draftId /\ id # 0
  BY <1>1, <1>2 DEF PaneOk, Ordered
<1>7. /\ y.open = x.open /\ y.draftId = x.draftId /\ y.content = x.content /\ y.saved = x.saved
      /\ y.saves = x.saves /\ y.run = x.run /\ y.wait.step = "close"
      /\ y.wait.for = x.wait.for
  BY <1>1 DEF GoodPane, Pane
<1>8. /\ panes \in Seq(GoodPane) /\ edits \in Nat /\ panes' = [panes EXCEPT ![p] = y]
      /\ outbox' = outbox /\ edits' = edits /\ made' = made
  BY <1>2 DEF DInv, GoodPanes, GoodRest, Put
<1>9. /\ PanesOk(panes, made, drafts, edits) /\ Numbered(drafts, outbox, edits)
      /\ Undisturbed => Apart(panes, drafts, outbox)
  BY DEF PInv
<1> HIDE DEF x, y, id
<1>10. Holds(x) = {id} /\ Holds(y) = {} /\ Texts(y) = {} /\ ~Live(y)
  BY <1>2, <1>5, <1>6, <1>7 DEF Holds, Texts, Live
<1>11. \A q \in DOMAIN panes \ {p} : id \notin Holds(panes[q]) /\ Holds(panes[q]) \subseteq DOMAIN drafts
  BY <1>9, <1>10 DEF PanesOk, PaneOk, Stores, x
<1>12. PaneOk(y, made[p], drafts', edits)
  <2>1. Ordered(y)
    BY <1>5, <1>7, NoneFields DEF Ordered
  <2>2. Knows(y) /\ Within(y, edits) /\ Makes(y, made[p])
    BY <1>1, <1>7 DEF PaneOk, Knows, Within, Makes
  <2>3. Stores(y, drafts')
    BY <1>5, <1>7, <1>10 DEF Stores, Stored
  <2> QED BY <2>1, <2>2, <2>3 DEF PaneOk
<1>13. PanesOk([panes EXCEPT ![p] = y], made, drafts', edits)
  <2>1. \A q \in DOMAIN panes \ {p} : made[q] = made[q] /\ Holds(y) \cap Holds(panes[q]) = {}
    BY <1>10
  <2>2. \A q \in DOMAIN panes \ {p} : \A d \in Holds(panes[q]) :
          d \in DOMAIN drafts' /\ drafts'[d] = drafts[d]
    BY <1>4, <1>11
  <2>3. panes \in Seq(GoodPane) /\ edits \in Nat /\ edits <= edits
    BY <1>8
  <2>4. PanesOk(panes, made, drafts, edits)
    BY <1>9
  <2> QED BY <1>12, <2>1, <2>2, <2>3, <2>4, PutOk
<1>14. Numbered(drafts', outbox, edits)
  BY <1>4, <1>9 DEF Numbered
<1>15. ASSUME Undisturbed PROVE Apart([panes EXCEPT ![p] = y], drafts', outbox)
  <2> DEFINE qs == [panes EXCEPT ![p] = y]
  <2>1. \A d \in Loose(qs, drafts') :
          d \in DOMAIN drafts /\ drafts'[d].content = drafts[d].content /\ d \in Loose(panes, drafts)
    <3>1. \A q \in DOMAIN panes : qs[q] = IF q = p THEN y ELSE panes[q]
      OBVIOUS
    <3>2. DOMAIN qs = DOMAIN panes
      OBVIOUS
    <3> HIDE DEF qs
    <3>3. SUFFICES ASSUME NEW d \in Loose(qs, drafts')
                   PROVE  /\ d \in DOMAIN drafts /\ drafts'[d].content = drafts[d].content
                          /\ d \in Loose(panes, drafts)
      OBVIOUS
    <3>4. d \in DOMAIN drafts' /\ \A q \in DOMAIN panes : d \notin Holds(qs[q])
      BY <3>2 DEF Loose
    <3>5. d # id /\ d \in DOMAIN drafts /\ drafts'[d] = drafts[d]
      BY <1>4, <3>4
    <3>6. \A q \in DOMAIN panes : d \notin Holds(panes[q])
      BY <1>10, <3>1, <3>4, <3>5 DEF x
    <3> QED BY <3>5, <3>6 DEF Loose
  <2>2. Apart(panes, drafts, outbox) /\ PanesOk(panes, made, drafts, edits)
        /\ Numbered(drafts, outbox, edits)
    BY <1>9, <1>15
  <2>3. panes \in Seq(GoodPane) /\ edits \in Nat
    BY <1>8
  <2>4. {} \cap 1..edits = {} /\ Texts(y) \subseteq Texts(panes[p]) \cup {}
        /\ {} \cap outbox = {} /\ outbox \subseteq outbox \cup (Texts(panes[p]) \ Texts(y))
    BY <1>10
  <2> HIDE DEF qs
  <2>5. qs = [panes EXCEPT ![p] = y]
    BY DEF qs
  <2>6. ASSUME NEW E,
               \A d \in Loose(qs, E) :
                 d \in DOMAIN drafts /\ E[d].content = drafts[d].content /\ d \in Loose(panes, drafts)
        PROVE  Apart(qs, E, outbox)
    BY <2>2, <2>3, <2>4, <2>5, <2>6, PutApart
  <2> QED BY <2>1, <2>5, <2>6
<1>16. Undisturbed' => Undisturbed
  BY <1>2, <1>3, Undisturbing
<1> QED BY <1>8, <1>13, <1>14, <1>15, <1>16 DEF PInv

LEMMA CloseSentKeeps ==
  ASSUME DInv, PInv, NEW p \in DOMAIN panes, CloseSent(p)
  PROVE  PInv'
<1> DEFINE x == panes[p]
           y == [x EXCEPT !.open = FALSE, !.wait = None]
<1>1. x \in GoodPane /\ PaneOk(x, made[p], drafts, edits)
  BY PaneIsOk
<1>2. x.wait.step = "close" /\ Put(p, y) /\ UNCHANGED <<drafts, edits, outbox, made, left, faults>>
  BY DEF CloseSent, folderVars
<1>3. x.saves = <<>> /\ x.open /\ x.run.step = "none"
  BY <1>2, NoneFields, Waiting
<1>4. edits \in Nat /\ edits' \in Nat /\ edits' = edits
  BY <1>2 DEF DInv, GoodRest
<1>5. /\ y.open = FALSE /\ y.draftId = x.draftId /\ y.content = x.content /\ y.saved = x.saved
      /\ y.saves = x.saves /\ y.run = x.run /\ y.wait = None
  BY <1>1 DEF GoodPane, Pane
<1> HIDE DEF x, y
<1>6. Holds(x) = {} /\ Holds(y) = {} /\ Texts(y) = {} /\ ~Live(y)
  BY <1>2, <1>3, <1>5, NoneFields DEF Holds, Texts, Live
<1>7. PaneOk(y, made[p], drafts, edits')
  <2>1. Ordered(y)
    BY <1>3, <1>5, NoneFields DEF Ordered
  <2>2. Knows(y) /\ Within(y, edits') /\ Makes(y, made[p])
    BY <1>1, <1>3, <1>4, <1>5 DEF PaneOk, Knows, Within, Makes, Heard, Stored
  <2>3. Stores(y, drafts)
    BY <1>3, <1>5, <1>6 DEF Stores, Stored
  <2> QED BY <2>1, <2>2, <2>3 DEF PaneOk
<1>8. Undisturbed' => Undisturbed
  BY <1>2, Undisturbing
<1> QED BY <1>2, <1>4, <1>6, <1>7, <1>8, TurnKept DEF x

LEMMA ExitKeeps ==
  ASSUME DInv, FolderTypeOK, PInv, Exit
  PROVE  PInv'
<1> DEFINE y(p) == [panes[p] EXCEPT !.open = FALSE, !.saves = <<>>, !.run = NoRun, !.wait = None]
<1>1. panes' = [p \in DOMAIN panes |-> y(p)] /\ UNCHANGED <<drafts, edits, outbox, made>>
  BY DEF Exit
<1>2. ~Undisturbed'
  <2>1. faults \in 0..Faults /\ faults' = faults - 1 /\ Faults \in Nat
    BY FolderAssumption DEF Exit, Quit, Fault, FolderTypeOK
  <2>2. faults' # Faults
    BY <2>1
  <2> QED BY <2>2 DEF Undisturbed
<1>3. ASSUME NEW p \in DOMAIN panes
      PROVE  PaneOk(y(p), made[p], drafts, edits) /\ Holds(y(p)) = {}
  <2> DEFINE x == panes[p]
             z == y(p)
  <2>1. x \in GoodPane /\ PaneOk(x, made[p], drafts, edits)
    BY PaneIsOk
  <2>2. /\ z.open = FALSE /\ z.draftId = x.draftId /\ z.content = x.content
        /\ z.saved = x.saved /\ z.saves = <<>> /\ z.run = NoRun /\ z.wait = None
    BY <2>1 DEF GoodPane, Pane
  <2>3. NoRun.step = "none" /\ NoRun.draftId = 0 /\ NoRun.content = 0
    BY DEF NoRun
  <2>4. edits \in Nat
    BY DEF DInv, GoodRest
  <2> HIDE DEF x, z
  <2>5. ~Live(z) /\ Holds(z) = {}
    BY <2>2 DEF Live, Holds
  <2>6. Ordered(z) /\ Knows(z)
    BY <2>2, <2>3, NoneFields DEF Ordered, Knows, Stored, Heard
  <2>7. Within(z, edits) /\ Makes(z, made[p])
    BY <2>1, <2>2, <2>3, <2>4 DEF PaneOk, Within, Makes
  <2>8. Stores(z, drafts)
    BY <2>2, <2>3, <2>5 DEF Stores, Stored
  <2> QED BY <2>5, <2>6, <2>7, <2>8 DEF PaneOk, z
<1> HIDE DEF y
<1>4. PanesOk(panes', made, drafts, edits)
  BY <1>1, <1>3 DEF PanesOk
<1> QED BY <1>1, <1>2, <1>4 DEF PInv

\* A step that leaves the panes and the drafts alone.
LEMMA LocalKeeps ==
  ASSUME DInv, PInv, UNCHANGED local, faults' = faults \/ ~Undisturbed'
  PROVE  PInv'
BY DEF PInv, local, Undisturbed

LEMMA MailboxKeeps ==
  ASSUME DInv, FolderTypeOK, PInv, Mailbox
  PROVE  PInv'
<1>1. faults' = faults \/ faults' = faults - 1
  BY DEF Mailbox, Command, Find, AppendCopy, Look, Search, Lift, Mark, Expunge, Restore, Break,
         Fault, Free, MarkElsewhere
<1>2. faults' = faults \/ ~Undisturbed'
  <2>1. faults \in 0..Faults /\ Faults \in Nat
    BY FolderAssumption DEF FolderTypeOK
  <2> QED BY <1>1, <2>1 DEF Undisturbed
<1> QED BY <1>2, LocalKeeps DEF Mailbox

LEMMA PaneKeeps ==
  ASSUME DInv, FolderTypeOK, PInv, NEW p \in DOMAIN panes, Saving(p) \/ Sending(p)
  PROVE  PInv'
<1>1. CASE UploadDraft(p)
  BY <1>1, AwaitKeeps DEF UploadDraft
<1>2. CASE RemoveServerDraft(p)
  BY <1>2, AwaitKeeps DEF RemoveServerDraft
<1>3. CASE NothingToUpload(p)
  BY <1>3, UploadFailedKeeps DEF NothingToUpload, folderVars
<1> QED BY <1>1, <1>2, <1>3, StartSaveKeeps, SaveFailsKeeps, SaveDraftKeeps, SavedKeeps,
           UploadedKeeps, SettledKeeps, SendFailsKeeps, SendMessageKeeps, DeleteDraftKeeps,
           CloseSentKeeps DEF Saving, Sending

LEMMA UserKeeps ==
  ASSUME DInv, PInv, Patient, User
  PROVE  PInv'
BY ComposeKeeps, UndoSendKeeps, OpenDraftKeeps, EditKeeps, ClickSaveKeeps,
   ClickSendOrDiscardKeeps, CloseKeeps DEF User

LEMMA StepKeeps ==
  ASSUME DInv, FolderTypeOK, PInv, Patient, [Next]_vars
  PROVE  PInv'
<1>1. CASE UNCHANGED vars
  BY <1>1, LocalKeeps DEF vars, folderVars
<1> QED BY <1>1, UserKeeps, MailboxKeeps, ExitKeeps, PaneKeeps DEF Next

LEMMA InitPanes == Init => PInv
<1> SUFFICES ASSUME Init PROVE PInv
  OBVIOUS
<1>1. DOMAIN panes = {} /\ DOMAIN drafts = {} /\ outbox = {}
  BY DEF Init
<1>2. Loose(panes, drafts) = {}
  BY <1>1 DEF Loose
<1> QED BY <1>1, <1>2 DEF PInv, PanesOk, Numbered, Apart

LEMMA PanesInvariant ==
  ASSUME Patient
  PROVE  Spec => []PInv
<1>1. Init => PInv
  BY InitPanes
<1>2. DInv /\ Types /\ PInv /\ [Next]_vars => PInv'
  BY StepKeeps DEF Types
<1> QED BY <1>1, <1>2, DraftsInvariant, PTL DEF Spec

-----------------------------------------------------------------------------
(* Stray copies: the sessions that take them *)

\* A removal under way that takes every copy.
Covers(j, l) ==
  /\ jobs[j].op = "remove" /\ jobs[j].link = l
  /\ \/ jobs[j].at = "find"
     \/ /\ jobs[j].at \in {"search", "lift", "mark", "expunge"}
        /\ copies[l] \subseteq jobs[j].targets
        /\ jobs[j].at = "expunge" => copies[l] \subseteq marked

Covered(l) == copies[l] = {} \/ \E j \in Job : Covers(j, l)

\* A removal goes on; lifting the marks of others takes none off its copies.
LEMMA CoversKept ==
  ASSUME Types, MInv, NEW j \in Job, NEW l \in Link, Covers(j, l), NEW k \in Job, k # j,
         Command(k), ~(AppendCopy(k) /\ jobs[k].link = l), ~crowded
  PROVE  Covers(j, l)'
<1>1. jobs'[j] = jobs[j]
  BY FindEffect, AppendEffect, LookEffect, SearchEffect, DeletionEffect DEF Command, Onward
<1>2. CASE Find(k) \/ Look(k) \/ Search(k)
  BY <1>1, <1>2 DEF Find, Look, Search, Covers
<1>3. CASE AppendCopy(k)
  <2>1. marked' = marked
    BY <1>3 DEF AppendCopy
  <2>2. copies'[l] = copies[l]
    BY <1>3, AppendEffect DEF Types, FolderTypeOK
  <2> QED BY <1>1, <2>1, <2>2 DEF Covers
<1>4. CASE Lift(k)
  <2>1. copies' = copies /\ Marking(k)
    <3>1. ~server.uidplus
      BY <1>4 DEF Lift, MInv, PlainOnly
    <3> QED BY <1>4, <3>1 DEF Lift, Marking
  <2>2. jobs[j].at # "expunge"
    BY <2>1 DEF MInv, OneMarking, Marking
  <2> QED BY <1>1, <2>1, <2>2 DEF Covers
<1>5. CASE Mark(k)
  BY <1>1, <1>5 DEF Mark, Covers
<1>6. CASE Expunge(k)
  <2>1. PICK gone : copies' = [m \in Link |-> copies[m] \ gone] /\ marked' = marked \ gone
    BY <1>6 DEF Expunge
  <2> QED BY <1>1, <2>1 DEF Covers
<1>7. CASE Restore(k)
  BY <1>1, <1>7 DEF Restore, Covers
<1> QED BY <1>2, <1>3, <1>4, <1>5, <1>6, <1>7 DEF Command

LEMMA CoversGoOn ==
  ASSUME Types, MInv, NEW j \in Job, NEW l \in Link, Covers(j, l), Command(j)
  PROVE  Covered(l)'
<1>1. /\ jobs[j].op = "remove" /\ jobs[j].link = l /\ jobs[j] \in Session
      /\ jobs[j].at \in {"find", "search", "lift", "mark", "expunge"}
  BY DEF Covers, Types, FolderTypeOK
<1>2. Onward(j)
  BY FindEffect, AppendEffect, LookEffect, SearchEffect, DeletionEffect DEF Command
<1>3. jobs'[j].op = "remove" /\ jobs'[j].link = l
  BY <1>1, <1>2 DEF Onward
<1>4. CASE Find(j)
  <2>1. /\ jobs'[j].targets = copies[l] /\ copies' = copies
        /\ jobs'[j].at = Deletion(copies[l])
    BY <1>1, <1>4 DEF Find, Types, FolderTypeOK, Session
  <2>2. copies[l] # {} => jobs'[j].at \in {"mark", "search"}
    BY <2>1 DEF Deletion
  <2> QED BY <1>3, <2>1, <2>2 DEF Covered, Covers
<1>5. CASE AppendCopy(j) \/ Look(j) \/ Restore(j)
  BY <1>1, <1>5 DEF AppendCopy, Look, Restore
<1>6. CASE Search(j)
  <2>1. /\ jobs'[j].targets = jobs[j].targets /\ jobs'[j].at \in {"mark", "lift"}
        /\ copies' = copies /\ jobs[j].at = "search"
    BY <1>6, SearchEffect DEF Search
  <2> QED BY <1>3, <2>1 DEF Covered, Covers
<1>7. CASE Lift(j)
  <2>1. jobs'[j].targets = jobs[j].targets /\ copies' = copies /\ jobs[j].at = "lift"
    BY <1>7, DeletionEffect DEF Lift
  <2>2. jobs'[j].at = "mark"
    BY <1>1, <1>7 DEF Lift, Types, FolderTypeOK, Session
  <2> QED BY <1>3, <2>1, <2>2 DEF Covered, Covers
<1>8. CASE Mark(j)
  <2>1. /\ jobs'[j].targets = jobs[j].targets /\ copies' = copies /\ jobs[j].at = "mark"
        /\ marked' = marked \cup (jobs[j].targets \cap Mail)
    BY <1>8, DeletionEffect DEF Mark
  <2>2. jobs'[j].at = "expunge"
    BY <1>1, <1>8 DEF Mark, Types, FolderTypeOK, Session
  <2>3. copies[l] \subseteq jobs[j].targets \cap Mail
    BY <2>1 DEF Covers, Mail
  <2> QED BY <1>3, <2>1, <2>2, <2>3 DEF Covered, Covers
<1>9. CASE Expunge(j)
  <2>1. copies[l] \subseteq jobs[j].targets /\ copies[l] \subseteq marked
    BY <1>9 DEF Expunge, Covers
  <2>2. copies'[l] = copies[l] \ (IF server.uidplus THEN marked \cap jobs[j].targets ELSE marked)
    BY <1>9 DEF Expunge
  <2>3. copies'[l] = {}
    BY <2>1, <2>2
  <2> QED BY <2>3 DEF Covered
<1> QED BY <1>4, <1>5, <1>6, <1>7, <1>8, <1>9 DEF Command

LEMMA NoneAppears ==
  ASSUME Types, NEW k \in Job, Command(k), NEW l \in Link, ~(AppendCopy(k) /\ jobs[k].link = l),
         copies[l] = {}
  PROVE  copies'[l] = {}
<1>1. CASE AppendCopy(k)
  BY <1>1, AppendEffect DEF Types, FolderTypeOK
<1>2. CASE Expunge(k)
  BY <1>2 DEF Expunge
<1>3. CASE ~AppendCopy(k) /\ ~Expunge(k)
  BY <1>3 DEF Command, Find, Look, Search, Lift, Mark, Restore
<1> QED BY <1>1, <1>2, <1>3

LEMMA CommandCovers ==
  ASSUME Types, MInv, NEW k \in Job, Command(k), NEW l \in Link, Covered(l), ~crowded',
         ~(AppendCopy(k) /\ jobs[k].link = l)
  PROVE  Covered(l)'
<1>1. ~crowded
  <2>1. CASE Search(k)
    BY <2>1 DEF Search
  <2>2. CASE ~Search(k)
    <3>1. crowded' = crowded
      BY <2>2 DEF Command, Find, AppendCopy, Look, Lift, Mark, Expunge, Restore, history
    <3> QED BY <3>1
  <2> QED BY <2>1, <2>2
<1>2. CASE copies[l] = {}
  BY <1>2, NoneAppears DEF Covered
<1>3. ASSUME NEW j \in Job, Covers(j, l) PROVE Covered(l)'
  <2>1. CASE k = j
    BY <1>3, <2>1, CoversGoOn
  <2>2. CASE k # j
    BY <1>1, <1>3, <2>2, CoversKept DEF Covered
  <2> QED BY <2>1, <2>2
<1> QED BY <1>2, <1>3 DEF Covered

\* What else happens to the folder, when no removal fails.
LEMMA OtherCovers ==
  ASSUME Types, NEW l \in Link, Covered(l), l \notin kept',
         \/ \E k \in Job : Break(k) \/ Free(k)
         \/ \E u \in Other : MarkElsewhere(u)
         \/ Quit
  PROVE  Covered(l)'
<1>1. copies' = copies /\ marked \subseteq marked'
  BY DEF Break, Free, MarkElsewhere, Quit
<1>2. SUFFICES ASSUME NEW j \in Job, Covers(j, l) PROVE Covers(j, l)'
  BY <1>1 DEF Covered
<1>3. jobs[j].at \notin {"idle", "done"} /\ jobs[j].op = "remove" /\ jobs[j].link = l
  BY <1>2 DEF Covers
<1>4. ASSUME NEW k \in Job, Break(k) PROVE Covers(j, l)'
  <2>1. k # j
    BY <1>3, <1>4 DEF Break, Removals
  <2>2. jobs'[j] = jobs[j]
    BY <1>4, <2>1, BreakEffect DEF Onward
  <2> QED BY <1>1, <1>2, <2>2 DEF Covers
<1>5. ASSUME NEW k \in Job, Free(k) PROVE Covers(j, l)'
  <2>1. k # j
    BY <1>3, <1>5 DEF Free
  <2>2. jobs'[j] = jobs[j]
    BY <1>5, <2>1, RestEffect
  <2> QED BY <1>1, <1>2, <2>2 DEF Covers
<1>6. ASSUME NEW u \in Other, MarkElsewhere(u) PROVE Covers(j, l)'
  BY <1>1, <1>2, <1>6 DEF MarkElsewhere, Covers
<1>7. ~Quit
  BY <1>3 DEF Quit, Removals
<1> QED BY <1>4, <1>5, <1>6, <1>7

LEMMA BeginCovers ==
  ASSUME Types, NEW k \in Job, NEW op \in {"replace", "remove"}, NEW m \in Link, Begin(k, op, m),
         NEW l \in Link, Covered(l) \/ (op = "remove" /\ m = l)
  PROVE  Covered(l)'
<1>1. copies' = copies /\ marked' = marked
  BY DEF Begin
<1>2. /\ \A j \in Job \ {k} : jobs'[j] = jobs[j]
      /\ jobs[k].at = "idle"
      /\ jobs'[k].at = "find" /\ jobs'[k].op = op /\ jobs'[k].link = m
  BY BeginEffect
<1>3. CASE op = "remove" /\ m = l
  BY <1>2, <1>3 DEF Covered, Covers
<1>4. ASSUME NEW j \in Job, Covers(j, l) PROVE Covers(j, l)'
  BY <1>1, <1>2, <1>4 DEF Covers
<1> QED BY <1>1, <1>3, <1>4 DEF Covered

-----------------------------------------------------------------------------
(* Stray copies: the Message-IDs that panes, saves and sessions go by *)

\* They are those of the drafts, and no draft that is uploaded is sealed.
Links(x, D, J) ==
  /\ Live(x) /\ x.link # NoLink => x.draftId # 0 /\ D[x.draftId].link = x.link
  /\ x.run.step # "none" /\ x.run.link # NoLink =>
       x.run.draftId # 0 /\ D[x.run.draftId].link = x.run.link
  /\ x.run.step \in Stored => D[x.run.draftId].sealed = x.run.encrypt
  /\ x.run.step = "upload" => ~x.run.encrypt
  /\ x.run.step = "session" =>
       /\ J[x.run.job].at # "idle"
       /\ J[x.run.job].link = D[x.run.draftId].link
       /\ J[x.run.job].op = "replace" => ~x.run.encrypt

InSession(x, j) == x.run.step = "session" /\ x.run.job = j

Uploading(s) == s.op = "replace" /\ s.at # "idle"

\* Each upload is one pane's.
LinksOk(ps, D, J) ==
  /\ \A p \in DOMAIN ps : Links(ps[p], D, J)
  /\ \A p, q \in DOMAIN ps : p # q /\ ps[p].run.step = "session" => ~InSession(ps[q], ps[p].run.job)
  /\ \A j \in Job : Uploading(J[j]) => \E p \in DOMAIN ps : InSession(ps[p], j)

LInv == LinksOk(panes, drafts, jobs)

LEMMA LinksKept ==
  ASSUME NEW x \in GoodPane, Knows(x), NEW D, NEW J, Links(x, D, J), NEW E, NEW K,
         \A d \in Holds(x) : E[d] = D[d],
         x.run.step = "session" =>
           /\ K[x.run.job].at # "idle" /\ K[x.run.job].link = J[x.run.job].link
           /\ K[x.run.job].op = J[x.run.job].op
  PROVE  Links(x, E, K)
<1>1. Live(x) /\ x.draftId # 0 => E[x.draftId] = D[x.draftId]
  BY DEF Holds
<1>2. x.run.step # "none" /\ x.run.draftId # 0 => E[x.run.draftId] = D[x.run.draftId]
  BY DEF Holds, Live, GoodPane
<1>3. x.run.step \in Stored => x.run.step # "none" /\ x.run.draftId # 0
  BY DEF Knows, Stored
<1>4. x.run.step = "session" => x.run.step \in Stored
  BY DEF Stored
<1> QED BY <1>1, <1>2, <1>3, <1>4 DEF Links

LEMMA PutLinks ==
  ASSUME NEW ps \in Seq(GoodPane), NEW D, NEW J, LinksOk(ps, D, J), NEW p \in DOMAIN ps,
         \A q \in DOMAIN ps : Knows(ps[q]),
         NEW y, NEW E, NEW K, Links(y, E, K),
         \A q \in DOMAIN ps \ {p} : \A d \in Holds(ps[q]) : E[d] = D[d],
         \A q \in DOMAIN ps \ {p} : ps[q].run.step = "session" =>
           K[ps[q].run.job] = J[ps[q].run.job] /\ ~InSession(y, ps[q].run.job),
         \A j \in Job : Uploading(K[j]) =>
           InSession(y, j) \/ (Uploading(J[j]) /\ ~InSession(ps[p], j))
  PROVE  LinksOk([ps EXCEPT ![p] = y], E, K)
<1> DEFINE qs == [ps EXCEPT ![p] = y]
<1>1. DOMAIN qs = DOMAIN ps /\ qs[p] = y /\ \A q \in DOMAIN ps \ {p} : qs[q] = ps[q]
  OBVIOUS
<1>2. \A q \in DOMAIN ps \ {p} : Links(ps[q], E, K)
  <2>1. SUFFICES ASSUME NEW q \in DOMAIN ps \ {p} PROVE Links(ps[q], E, K)
    OBVIOUS
  <2>2. ps[q] \in GoodPane
    BY GoodAt
  <2>3. Links(ps[q], D, J) /\ Knows(ps[q])
    BY DEF LinksOk
  <2>4. ps[q].run.step = "session" =>
          /\ K[ps[q].run.job].at # "idle" /\ K[ps[q].run.job].link = J[ps[q].run.job].link
          /\ K[ps[q].run.job].op = J[ps[q].run.job].op
    BY <2>3 DEF Links
  <2> QED BY <2>2, <2>3, <2>4, LinksKept
<1> HIDE DEF qs
<1>3. \A q \in DOMAIN qs : Links(qs[q], E, K)
  BY <1>1, <1>2
<1>4. ASSUME NEW q \in DOMAIN qs, NEW r \in DOMAIN qs, q # r, qs[q].run.step = "session"
      PROVE  ~InSession(qs[r], qs[q].run.job)
  <2>1. CASE q # p /\ r # p
    BY <1>1, <1>4, <2>1 DEF LinksOk
  <2>2. CASE q = p
    BY <1>1, <1>4, <2>2 DEF InSession
  <2>3. CASE r = p
    BY <1>1, <1>4, <2>3
  <2> QED BY <2>1, <2>2, <2>3
<1>5. ASSUME NEW j \in Job, Uploading(K[j]) PROVE \E q \in DOMAIN qs : InSession(qs[q], j)
  <2>1. CASE InSession(y, j)
    BY <1>1, <2>1
  <2>2. CASE Uploading(J[j]) /\ ~InSession(ps[p], j)
    <3>1. PICK q \in DOMAIN ps : InSession(ps[q], j)
      BY <2>2 DEF LinksOk
    <3> QED BY <1>1, <2>2, <3>1
  <2> QED BY <1>5, <2>1, <2>2
<1>6. LinksOk(qs, E, K)
  BY <1>3, <1>4, <1>5 DEF LinksOk
<1> QED BY <1>6 DEF qs

LEMMA AppendLinks ==
  ASSUME NEW ps \in Seq(GoodPane), NEW D, NEW J, LinksOk(ps, D, J),
         NEW y, Links(y, D, J), y.run.step # "session"
  PROVE  LinksOk(Append(ps, y), D, J)
<1> DEFINE qs == Append(ps, y)
           n  == Len(ps) + 1
<1>1. /\ DOMAIN qs = DOMAIN ps \cup {n} /\ n \notin DOMAIN ps
      /\ qs[n] = y /\ \A q \in DOMAIN ps : qs[q] = ps[q]
  BY AppendAt
<1> HIDE DEF qs, n
<1>2. \A q \in DOMAIN qs : Links(qs[q], D, J)
  BY <1>1 DEF LinksOk
<1>3. ASSUME NEW q \in DOMAIN qs, NEW r \in DOMAIN qs, q # r, qs[q].run.step = "session"
      PROVE  ~InSession(qs[r], qs[q].run.job)
  BY <1>1, <1>3 DEF LinksOk, InSession
<1>4. ASSUME NEW j \in Job, Uploading(J[j]) PROVE \E q \in DOMAIN qs : InSession(qs[q], j)
  <2>1. PICK q \in DOMAIN ps : InSession(ps[q], j)
    BY <1>4 DEF LinksOk
  <2> QED BY <1>1, <2>1
<1>5. LinksOk(qs, D, J)
  BY <1>2, <1>3, <1>4 DEF LinksOk
<1> QED BY <1>5 DEF qs

\* What is true of all panes.
LEMMA LinksFacts ==
  ASSUME DInv, PInv, LInv
  PROVE  /\ panes \in Seq(GoodPane) /\ LinksOk(panes, drafts, jobs)
         /\ \A q \in DOMAIN panes : Knows(panes[q])
         /\ \A p, q \in DOMAIN panes : p # q => Holds(panes[p]) \cap Holds(panes[q]) = {}
BY DEF DInv, GoodPanes, PInv, PanesOk, PaneOk, LInv

\* A pane changes and its save, if there is one, does not.
LEMMA SameLinks ==
  ASSUME DInv, PInv, LInv, NEW p \in DOMAIN panes, NEW y, Put(p, y), UNCHANGED <<drafts, jobs>>,
         y.run = panes[p].run, y.link = panes[p].link, y.draftId = panes[p].draftId,
         Live(y) => Live(panes[p])
  PROVE  LInv'
<1>1. /\ panes \in Seq(GoodPane) /\ LinksOk(panes, drafts, jobs)
      /\ \A q \in DOMAIN panes : Knows(panes[q])
  BY LinksFacts
<1>2. Links(y, drafts, jobs)
  BY <1>1 DEF LinksOk, Links
<1>3. \A q \in DOMAIN panes \ {p} : panes[q].run.step = "session" => ~InSession(y, panes[q].run.job)
  BY <1>1 DEF LinksOk, InSession
<1>4. \A j \in Job : Uploading(jobs[j]) =>
        InSession(y, j) \/ (Uploading(jobs[j]) /\ ~InSession(panes[p], j))
  BY DEF InSession
<1>5. LinksOk([panes EXCEPT ![p] = y], drafts, jobs)
  BY <1>1, <1>2, <1>3, <1>4, PutLinks
<1> QED BY <1>5 DEF LInv, Put

LEMMA EditLinks ==
  ASSUME DInv, PInv, LInv, NEW p \in DOMAIN panes, Edit(p)
  PROVE  LInv'
<1> DEFINE x == panes[p]
<1>1. PICK encrypt \in BOOLEAN : Put(p, [x EXCEPT !.content = edits + 1, !.encrypt = encrypt])
  BY DEF Edit
<1> DEFINE y == [x EXCEPT !.content = edits + 1, !.encrypt = encrypt]
<1>2. x \in GoodPane
  BY PaneIsOk
<1>3. /\ y.open = x.open /\ y.draftId = x.draftId /\ y.link = x.link
      /\ y.saves = x.saves /\ y.run = x.run /\ y.wait = x.wait
  BY <1>2 DEF GoodPane, Pane
<1>4. Put(p, y) /\ UNCHANGED <<drafts, jobs>>
  BY <1>1 DEF Edit, folderVars
<1> HIDE DEF y
<1>5. Live(y) => Live(x)
  BY <1>3 DEF Live
<1> QED BY <1>3, <1>4, <1>5, SameLinks

LEMMA ClickSaveLinks ==
  ASSUME DInv, PInv, LInv, Patient, NEW p \in DOMAIN panes, ClickSave(p)
  PROVE  LInv'
<1> DEFINE x == panes[p]
<1>1. PICK closing \in BOOLEAN : Put(p, [x EXCEPT !.saves = Append(@, closing)])
  BY DEF ClickSave
<1> DEFINE y == [x EXCEPT !.saves = Append(x.saves, closing)]
<1>2. x \in GoodPane
  BY PaneIsOk
<1>3. y.draftId = x.draftId /\ y.link = x.link /\ y.run = x.run
  BY <1>2 DEF GoodPane, Pane
<1>4. Put(p, y) /\ UNCHANGED <<drafts, jobs>>
  BY <1>1 DEF ClickSave, folderVars
<1> HIDE DEF y
<1>5. Live(x)
  BY NoneFields DEF ClickSave, Calm, Live
<1> QED BY <1>3, <1>4, <1>5, SameLinks

LEMMA ClickSendOrDiscardLinks ==
  ASSUME DInv, PInv, LInv, NEW p \in DOMAIN panes, ClickSendOrDiscard(p)
  PROVE  LInv'
<1> DEFINE x == panes[p]
<1>1. PICK for \in {"send", "discard"} :
        Put(p, [x EXCEPT !.wait = [None EXCEPT !.for = for, !.after = Len(x.saves)]])
  BY DEF ClickSendOrDiscard
<1> DEFINE w == [None EXCEPT !.for = for, !.after = Len(x.saves)]
           y == [x EXCEPT !.wait = w]
<1>2. x \in GoodPane
  BY PaneIsOk
<1>3. y.draftId = x.draftId /\ y.link = x.link /\ y.run = x.run
  BY <1>2 DEF GoodPane, Pane
<1>4. Put(p, y) /\ UNCHANGED <<drafts, jobs>>
  BY <1>1 DEF ClickSendOrDiscard, folderVars
<1> HIDE DEF y
<1>5. Live(x)
  BY NoneFields DEF ClickSendOrDiscard, Live
<1> QED BY <1>3, <1>4, <1>5, SameLinks

LEMMA CloseLinks ==
  ASSUME DInv, PInv, LInv, NEW p \in DOMAIN panes, Close(p)
  PROVE  LInv'
<1> DEFINE x == panes[p]
           y == [x EXCEPT !.open = FALSE]
<1>1. x \in GoodPane
  BY PaneIsOk
<1>2. /\ y.open = FALSE /\ y.draftId = x.draftId /\ y.link = x.link
      /\ y.saves = x.saves /\ y.run = x.run
  BY <1>1 DEF GoodPane, Pane
<1>3. Put(p, y) /\ UNCHANGED <<drafts, jobs>>
  BY DEF Close, folderVars
<1> HIDE DEF y
<1>4. Live(y) => Live(x)
  BY <1>2 DEF Live
<1> QED BY <1>2, <1>3, <1>4, SameLinks

\* Sending and discarding.
LEMMA SendingLinks ==
  ASSUME DInv, PInv, LInv, NEW p \in DOMAIN panes,
         Settled(p) \/ SendFails(p) \/ SendMessage(p) \/ CloseSent(p)
  PROVE  LInv'
<1> DEFINE x == panes[p]
<1>1. x \in GoodPane
  BY PaneIsOk
<1>2. UNCHANGED <<drafts, jobs>>
  BY DEF Settled, SendFails, SendMessage, CloseSent, folderVars
<1>3. CASE Settled(p)
  <2> DEFINE a == [x EXCEPT !.open = FALSE, !.wait = None]
             b == [x EXCEPT !.wait.step = "queue", !.wait.draftId = x.draftId,
                            !.wait.content = x.content]
  <2>1. Put(p, a) \/ Put(p, b)
    BY <1>3 DEF Settled
  <2>2. x.wait.step = "wait"
    BY <1>3 DEF Settled
  <2>3. /\ a.open = FALSE /\ a.draftId = x.draftId /\ a.link = x.link
        /\ a.saves = x.saves /\ a.run = x.run
    BY <1>1 DEF GoodPane, Pane
  <2>4. /\ b.open = x.open /\ b.draftId = x.draftId /\ b.link = x.link
        /\ b.saves = x.saves /\ b.run = x.run
    BY <1>1 DEF GoodPane, Pane
  <2> HIDE DEF a, b
  <2>5. (Live(a) => Live(x)) /\ (Live(b) => Live(x))
    BY <2>2, <2>3, <2>4 DEF Live
  <2>6. CASE Put(p, a)
    BY <1>2, <2>3, <2>5, <2>6, SameLinks
  <2>7. CASE Put(p, b)
    BY <1>2, <2>4, <2>5, <2>7, SameLinks
  <2> QED BY <2>1, <2>6, <2>7
<1>4. CASE SendFails(p)
  <2> DEFINE y == [x EXCEPT !.wait = None]
  <2>1. Put(p, y) /\ x.wait.step \in {"queue", "delete"}
    BY <1>4 DEF SendFails
  <2>2. y.open = x.open /\ y.draftId = x.draftId /\ y.link = x.link /\ y.run = x.run /\ y.saves = x.saves
    BY <1>1 DEF GoodPane, Pane
  <2> HIDE DEF y
  <2>3. Live(y) => Live(x)
    BY <2>1, <2>2 DEF Live
  <2> QED BY <1>2, <2>1, <2>2, <2>3, SameLinks
<1>5. CASE SendMessage(p)
  <2> DEFINE step == IF x.wait.draftId = 0 THEN "close" ELSE "delete"
             y == [x EXCEPT !.wait.step = step]
  <2>1. Put(p, y) /\ x.wait.step = "queue"
    BY <1>5 DEF SendMessage
  <2>2. y.open = x.open /\ y.draftId = x.draftId /\ y.link = x.link /\ y.run = x.run /\ y.saves = x.saves
    BY <1>1 DEF GoodPane, Pane
  <2> HIDE DEF y
  <2>3. Live(y) => Live(x)
    BY <2>1, <2>2 DEF Live
  <2> QED BY <1>2, <2>1, <2>2, <2>3, SameLinks
<1>6. CASE CloseSent(p)
  <2> DEFINE y == [x EXCEPT !.open = FALSE, !.wait = None]
  <2>1. Put(p, y)
    BY <1>6 DEF CloseSent
  <2>2. y.open = FALSE /\ y.draftId = x.draftId /\ y.link = x.link /\ y.run = x.run /\ y.saves = x.saves
    BY <1>1 DEF GoodPane, Pane
  <2> HIDE DEF y
  <2>3. Live(y) => Live(x)
    BY <2>2 DEF Live
  <2> QED BY <1>2, <2>1, <2>2, <2>3, SameLinks
<1> QED BY <1>3, <1>4, <1>5, <1>6

\* A pane is opened.
LEMMA OpenLinks ==
  ASSUME DInv, PInv, LInv, NEW y, Add(panes, y), UNCHANGED <<drafts, jobs>>, y.run = NoRun,
         y.link # NoLink => y.draftId # 0 /\ drafts[y.draftId].link = y.link
  PROVE  LInv'
<1>1. panes \in Seq(GoodPane) /\ LinksOk(panes, drafts, jobs)
  BY LinksFacts
<1>2. y.run.step = "none"
  BY DEF NoRun
<1>3. Links(y, drafts, jobs)
  BY <1>2 DEF Links, Stored
<1>4. LinksOk(Append(panes, y), drafts, jobs)
  BY <1>1, <1>2, <1>3, AppendLinks
<1> QED BY <1>4 DEF LInv, Add

LEMMA UserLinks ==
  ASSUME DInv, PInv, LInv, Patient, User
  PROVE  LInv'
<1>1. CASE Compose
  <2> DEFINE y == NewPane(edits + 1, 0, NoLink, FALSE, 0)
  <2>1. Add(panes, y) /\ UNCHANGED <<drafts, jobs>>
    BY <1>1 DEF Compose, folderVars
  <2>2. y.run = NoRun /\ y.link = NoLink
    BY DEF NewPane
  <2> HIDE DEF y
  <2> QED BY <2>1, <2>2, OpenLinks
<1>2. CASE UndoSend
  <2>1. PICK content \in outbox, p \in DOMAIN panes :
          Add(panes, NewPane(content, 0, NoLink, panes[p].encrypt, 0))
    BY <1>2 DEF UndoSend
  <2> DEFINE y == NewPane(content, 0, NoLink, panes[p].encrypt, 0)
  <2>2. Add(panes, y) /\ UNCHANGED <<drafts, jobs>>
    BY <1>2, <2>1 DEF UndoSend, folderVars
  <2>3. y.run = NoRun /\ y.link = NoLink
    BY DEF NewPane
  <2> HIDE DEF y
  <2> QED BY <2>2, <2>3, OpenLinks
<1>3. ASSUME NEW id \in DOMAIN drafts, OpenDraft(id) PROVE LInv'
  <2> DEFINE d == drafts[id]
             y == NewPane(d.content, id, d.link, d.sealed, d.content)
  <2>1. Add(panes, y) /\ UNCHANGED <<drafts, jobs>>
    BY <1>3 DEF OpenDraft, folderVars
  <2>2. y.run = NoRun /\ y.link = drafts[id].link /\ y.draftId = id
    BY DEF NewPane
  <2>3. id # 0
    BY DEF DInv, GoodDrafts
  <2> HIDE DEF y
  <2> QED BY <2>1, <2>2, <2>3, OpenLinks
<1> QED BY <1>1, <1>2, <1>3, EditLinks, ClickSaveLinks, ClickSendOrDiscardLinks, CloseLinks DEF User

\* A pane that is in no session goes on, and starts none.
LEMMA OwnLinks ==
  ASSUME DInv, PInv, LInv, NEW p \in DOMAIN panes, NEW y, Put(p, y), UNCHANGED <<drafts, jobs>>,
         panes[p].run.step # "session", y.run.step # "session", Links(y, drafts, jobs)
  PROVE  LInv'
<1>1. /\ panes \in Seq(GoodPane) /\ LinksOk(panes, drafts, jobs)
      /\ \A q \in DOMAIN panes : Knows(panes[q])
  BY LinksFacts
<1>2. \A j : ~InSession(y, j) /\ ~InSession(panes[p], j)
  BY DEF InSession
<1>3. LinksOk([panes EXCEPT ![p] = y], drafts, jobs)
  BY <1>1, <1>2, PutLinks
<1> QED BY <1>3 DEF LInv, Put

LEMMA StartSaveLinks ==
  ASSUME DInv, PInv, LInv, NEW p \in DOMAIN panes, StartSave(p)
  PROVE  LInv'
<1> DEFINE x == panes[p]
           run == [step |-> "save", draftId |-> x.draftId, link |-> x.link,
                   encrypt |-> x.encrypt, content |-> x.content, job |-> NoDraft]
           y == [x EXCEPT !.run = run]
<1>1. x \in GoodPane /\ Links(x, drafts, jobs)
  BY PaneIsOk DEF LInv, LinksOk
<1>2. /\ y.open = x.open /\ y.draftId = x.draftId /\ y.link = x.link /\ y.saves = x.saves
      /\ y.wait = x.wait
      /\ y.run.step = "save" /\ y.run.link = x.link /\ y.run.draftId = x.draftId
  BY <1>1 DEF GoodPane, Pane
<1>3. x.run.step = "none" /\ x.saves # <<>> /\ Put(p, y) /\ UNCHANGED <<drafts, jobs>>
  BY DEF StartSave, folderVars
<1> HIDE DEF y
<1>4. Live(x)
  BY <1>3 DEF Live
<1>5. Links(y, drafts, jobs)
  BY <1>1, <1>2, <1>4 DEF Links, Stored
<1> QED BY <1>2, <1>3, <1>5, OwnLinks

LEMMA EndedLink ==
  ASSUME NEW x \in Pane
  PROVE  Ended(x).link = x.link
BY DEF Ended, Pane

\* A save has ended, and its session is over.
LEMMA EndLinks ==
  ASSUME DInv, FolderTypeOK, PInv, LInv, NEW p \in DOMAIN panes, NEW y, y.run = NoRun,
         y.link # NoLink => y.draftId # 0 /\ drafts[y.draftId].link = y.link,
         \/ panes[p].run.step # "session" /\ UNCHANGED jobs
         \/ panes[p].run.step = "session" /\ Free(panes[p].run.job)
  PROVE  LinksOk([panes EXCEPT ![p] = y], drafts, jobs')
<1>1. /\ panes \in Seq(GoodPane) /\ LinksOk(panes, drafts, jobs)
      /\ \A q \in DOMAIN panes : Knows(panes[q])
  BY LinksFacts
<1>2. y.run.step = "none"
  BY DEF NoRun
<1>3. Links(y, drafts, jobs')
  BY <1>2 DEF Links, Stored
<1>4. \A j : ~InSession(y, j)
  BY <1>2 DEF InSession
<1>5. /\ \A q \in DOMAIN panes \ {p} : panes[q].run.step = "session" =>
           jobs'[panes[q].run.job] = jobs[panes[q].run.job]
      /\ \A j \in Job : Uploading(jobs'[j]) => Uploading(jobs[j]) /\ ~InSession(panes[p], j)
  <2>1. CASE panes[p].run.step # "session" /\ UNCHANGED jobs
    BY <2>1 DEF InSession
  <2>2. CASE panes[p].run.step = "session" /\ Free(panes[p].run.job)
    <3> DEFINE i == panes[p].run.job
    <3>1. i \in Job
      BY <2>2, PaneIsOk DEF GoodPane
    <3>2. jobs' = [jobs EXCEPT ![i] = Idle] /\ jobs \in [Job -> Session]
      BY <2>2 DEF Free, FolderTypeOK
    <3>3. Idle.op = "remove"
      BY DEF Idle, Open
    <3>4. \A q \in DOMAIN panes \ {p} : panes[q].run.step = "session" =>
            panes[q].run.job # i /\ panes[q].run.job \in Job
      <4>1. SUFFICES ASSUME NEW q \in DOMAIN panes \ {p}, panes[q].run.step = "session"
                     PROVE  panes[q].run.job # i /\ panes[q].run.job \in Job
        OBVIOUS
      <4>2. panes[q].run.job \in Job
        BY <4>1, PaneIsOk DEF GoodPane
      <4>3. ~InSession(panes[q], i)
        BY <1>1, <2>2, <4>1 DEF LinksOk
      <4> QED BY <4>1, <4>2, <4>3 DEF InSession
    <3> HIDE DEF i
    <3>5. \A j \in Job : j # i => jobs'[j] = jobs[j]
      BY <3>1, <3>2
    <3>6. jobs'[i] = Idle
      BY <3>1, <3>2
    <3>7. \A j : InSession(panes[p], j) => j = i
      BY DEF InSession, i
    <3> QED BY <3>1, <3>3, <3>4, <3>5, <3>6, <3>7 DEF Uploading
  <2> QED BY <2>1, <2>2
<1>6. \A q \in DOMAIN panes \ {p} : \A d \in Holds(panes[q]) : drafts[d] = drafts[d]
  OBVIOUS
<1> QED BY <1>1, <1>3, <1>4, <1>5, <1>6, PutLinks

LEMMA SaveFailsLinks ==
  ASSUME DInv, FolderTypeOK, PInv, LInv, NEW p \in DOMAIN panes, SaveFails(p)
  PROVE  LInv'
<1> DEFINE x == panes[p]
           y == Ended(x)
<1>1. x \in GoodPane /\ x \in Pane /\ Links(x, drafts, jobs)
  BY PaneIsOk DEF LInv, LinksOk, GoodPane
<1>2. y.draftId = x.draftId /\ y.run = NoRun /\ y.link = x.link
  BY <1>1, EndedFields, EndedLink
<1>3. x.run.step = "save" /\ Put(p, y) /\ UNCHANGED <<drafts, jobs>>
  BY DEF SaveFails, folderVars
<1> HIDE DEF y
<1>4. Live(x)
  BY <1>1, <1>3 DEF GoodPane, Live
<1>5. y.link # NoLink => y.draftId # 0 /\ drafts[y.draftId].link = y.link
  BY <1>1, <1>2, <1>4 DEF Links
<1>6. LinksOk([panes EXCEPT ![p] = y], drafts, jobs')
  BY <1>2, <1>3, <1>5, EndLinks
<1> QED BY <1>3, <1>6 DEF LInv, Put

LEMMA SavedLinks ==
  ASSUME DInv, FolderTypeOK, PInv, LInv, NEW p \in DOMAIN panes, Saved(p)
  PROVE  LInv'
<1> DEFINE x == panes[p]
           open == x.open /\ ~Head(x.saves)
           told == [x EXCEPT !.open = open, !.saved = x.run.content,
                             !.draftId = IF open THEN x.run.draftId ELSE @]
           y(step) == [told EXCEPT !.run.step = step]
           z == Ended(told)
<1>1. x \in GoodPane /\ Knows(x) /\ Links(x, drafts, jobs)
  BY PaneIsOk DEF LInv, LinksOk, PaneOk
<1>2. /\ x.run.step = "saved"
      /\ (Put(p, y("upload")) /\ ~x.run.encrypt) \/ Put(p, y("remove")) \/ Put(p, z)
      /\ UNCHANGED <<drafts, jobs>>
  BY DEF Saved, folderVars
<1>3. Head(x.saves) \in BOOLEAN
  <2>1. x.saves # <<>>
    BY <1>1, <1>2 DEF GoodPane
  <2> QED BY <1>1, <2>1, HeadTailProperties DEF GoodPane, Pane
<1>4. /\ told \in Pane /\ told.link = x.link /\ told.run = x.run
      /\ told.draftId = (IF open THEN x.run.draftId ELSE x.draftId)
  BY <1>1, <1>3 DEF GoodPane, Pane
<1>5. Live(x) /\ x.run.draftId # 0 /\ told.draftId \in {x.draftId, x.run.draftId}
      /\ x.draftId \in {0, x.run.draftId}
  BY <1>1, <1>2, <1>4 DEF GoodPane, Live, Knows, Stored
<1> HIDE DEF told, open
<1>6. told.link # NoLink => told.draftId # 0 /\ drafts[told.draftId].link = told.link
  BY <1>1, <1>4, <1>5 DEF Links
<1>7. ASSUME NEW step \in {"upload", "remove"}, Put(p, y(step)), step = "upload" => ~x.run.encrypt
      PROVE  LInv'
  <2> DEFINE w == y(step)
  <2>1. /\ w.link = told.link /\ w.draftId = told.draftId /\ w.run.step = step
        /\ w.run.draftId = x.run.draftId /\ w.run.link = x.run.link /\ w.run.encrypt = x.run.encrypt
    BY <1>4 DEF Pane
  <2>2. Put(p, w)
    BY <1>7
  <2> HIDE DEF w
  <2>3. Links(w, drafts, jobs)
    BY <1>1, <1>2, <1>6, <1>7, <2>1 DEF Links, Stored
  <2> QED BY <1>2, <2>1, <2>2, <2>3, OwnLinks
<1>8. CASE Put(p, z)
  <2>1. z.draftId = told.draftId /\ z.run = NoRun /\ z.link = told.link
    BY <1>4, EndedFields, EndedLink
  <2> HIDE DEF z
  <2>2. LinksOk([panes EXCEPT ![p] = z], drafts, jobs')
    BY <1>2, <1>6, <2>1, EndLinks
  <2> QED BY <1>2, <1>8, <2>2 DEF LInv, Put
<1> QED BY <1>2, <1>7, <1>8

\* What an upload that failed leaves.
LEMMA UploadFailedLinks ==
  ASSUME DInv, FolderTypeOK, PInv, LInv, NEW p \in DOMAIN panes, UploadFailed(p), UNCHANGED drafts,
         \/ panes[p].run.step = "upload" /\ UNCHANGED jobs
         \/ panes[p].run.step = "session" /\ Free(panes[p].run.job)
  PROVE  LInv'
<1> DEFINE x  == panes[p]
           y  == Ended(x)
           ps == [panes EXCEPT ![p] = y]
           n  == NewPane(x.run.content, x.run.draftId, x.run.link, x.run.encrypt, x.run.content)
<1>1. x \in GoodPane /\ x \in Pane /\ x.saves # <<>> /\ Links(x, drafts, jobs)
  BY PaneIsOk DEF LInv, LinksOk, GoodPane
<1>2. y \in GoodPane /\ y.draftId = x.draftId /\ y.run = NoRun /\ y.link = x.link
  BY <1>1, EndedFields, EndedLink, EndedGood
<1>3. panes' = ps \/ Add(ps, n)
  BY DEF UploadFailed
<1>4. n.run = NoRun /\ n.link = x.run.link /\ n.draftId = x.run.draftId
  BY DEF NewPane
<1> HIDE DEF y, n
<1>5. y.link # NoLink => y.draftId # 0 /\ drafts[y.draftId].link = y.link
  BY <1>1, <1>2 DEF Links, Live
<1>6. LinksOk(ps, drafts, jobs')
  BY <1>2, <1>5, EndLinks
<1>7. ps \in Seq(GoodPane)
  <2>1. p \in 1..Len(panes)
    BY LenProperties DEF DInv, GoodPanes
  <2> QED BY <1>2, <2>1, ExceptSeq DEF DInv, GoodPanes
<1>8. n.run.step = "none"
  BY <1>4 DEF NoRun
<1>9. Links(n, drafts, jobs')
  BY <1>1, <1>4, <1>8 DEF Links, Stored
<1> HIDE DEF ps
<1>10. LinksOk(Append(ps, n), drafts, jobs')
  BY <1>6, <1>7, <1>8, <1>9, AppendLinks
<1> QED BY <1>3, <1>6, <1>10 DEF LInv, Add

LEMMA UploadedLinks ==
  ASSUME DInv, FolderTypeOK, PInv, LInv, NEW p \in DOMAIN panes, Uploaded(p)
  PROVE  LInv'
<1> DEFINE x == panes[p]
           job == jobs[x.run.job]
           link == IF job.op = "replace" THEN job.link ELSE NoLink
           w == IF job.failed \/ ~x.open THEN x ELSE [x EXCEPT !.link = link]
           y == Ended(w)
<1>1. x \in GoodPane /\ x \in Pane /\ Knows(x) /\ Links(x, drafts, jobs)
  BY PaneIsOk DEF LInv, LinksOk, GoodPane, PaneOk
<1>2. x.run.step = "session" /\ Free(x.run.job) /\ UNCHANGED drafts
  BY DEF Uploaded
<1>3. UploadFailed(p) \/ Put(p, y)
  BY DEF Uploaded
<1>4. CASE UploadFailed(p)
  BY <1>2, <1>4, UploadFailedLinks
<1>5. CASE Put(p, y)
  <2>1. job \in Session /\ Live(x)
    BY <1>1, <1>2 DEF GoodPane, FolderTypeOK, Live
  <2>2. link \in Link \cup {NoLink} /\ (link # NoLink => link = job.link)
    BY <2>1 DEF Session
  <2>3. job.link = drafts[x.run.draftId].link
    BY <1>1, <1>2 DEF Links
  <2>4. x.open => x.draftId = x.run.draftId /\ x.draftId # 0
    BY <1>1, <1>2 DEF Knows, Heard, Stored
  <2> DEFINE z == [x EXCEPT !.link = link]
  <2> HIDE DEF link, job
  <2>5. z \in Pane /\ z.draftId = x.draftId /\ z.link = link
    BY <1>1, <2>2 DEF Pane
  <2>6. w = x \/ (w = z /\ x.open)
    BY Zenon DEF w
  <2> HIDE DEF z, w
  <2>7. w \in Pane
    BY <1>1, <2>5, <2>6
  <2>8. w.link # NoLink => w.draftId # 0 /\ drafts[w.draftId].link = w.link
    <3>1. CASE w = x
      BY <1>1, <2>1, <3>1 DEF Links
    <3>2. CASE w = z /\ x.open
      BY <2>2, <2>3, <2>4, <2>5, <3>2
    <3> QED BY <2>6, <3>1, <3>2
  <2>9. y.draftId = w.draftId /\ y.run = NoRun /\ y.link = w.link
    BY <2>7, EndedFields, EndedLink
  <2> HIDE DEF y
  <2>10. LinksOk([panes EXCEPT ![p] = y], drafts, jobs')
    BY <1>2, <2>8, <2>9, EndLinks
  <2> QED BY <1>2, <1>5, <2>10 DEF LInv, Put
<1> QED BY <1>3, <1>4, <1>5

\* Where a new session begins, none was under way.
LEMMA SlotJobs ==
  ASSUME Types, NEW op \in {"replace", "remove"}, NEW link \in Link, FreeSlots # {},
         Begin(Slot, op, link)
  PROVE  /\ Slot \in Job /\ jobs[Slot].at = "idle"
         /\ jobs'[Slot].at = "find" /\ jobs'[Slot].op = op /\ jobs'[Slot].link = link
         /\ \A j \in Job \ {Slot} : jobs'[j] = jobs[j]
<1>1. Slot \in Job
  BY SlotIsJob
<1> DEFINE s == Slot
<1> HIDE DEF s
<1>2. s \in Job /\ Begin(s, op, link)
  BY <1>1 DEF s
<1>3. /\ jobs[s].at = "idle" /\ \A j \in Job \ {s} : jobs'[j] = jobs[j]
      /\ jobs'[s].at = "find" /\ jobs'[s].op = op /\ jobs'[s].link = link
  BY <1>2, BeginEffect
<1> QED BY <1>1, <1>3 DEF s

LEMMA BackgroundJobs ==
  ASSUME Types, NEW link \in Link \cup {NoLink}, RemoveInBackground(link)
  PROVE  \A j \in Job : /\ Uploading(jobs'[j]) => Uploading(jobs[j])
                        /\ jobs[j].at # "idle" => jobs'[j] = jobs[j]
<1>1. CASE link = NoLink
  BY <1>1 DEF RemoveInBackground, folderVars
<1>2. CASE link # NoLink
  <2>1. link \in Link /\ FreeSlots # {} /\ Begin(Slot, "remove", link)
    BY <1>2 DEF RemoveInBackground
  <2>2. /\ jobs[Slot].at = "idle" /\ jobs'[Slot].op = "remove"
        /\ \A j \in Job \ {Slot} : jobs'[j] = jobs[j]
    BY <2>1, SlotJobs
  <2> QED BY <2>2 DEF Uploading
<1> QED BY <1>1, <1>2

\* The sessions that panes wait for are under way.
LEMMA JobsOfPanes ==
  ASSUME DInv, PInv, LInv, NEW q \in DOMAIN panes, panes[q].run.step = "session"
  PROVE  panes[q].run.job \in Job /\ jobs[panes[q].run.job].at # "idle"
BY PaneIsOk DEF GoodPane, LInv, LinksOk, Links

LEMMA SaveDraftLinks ==
  ASSUME DInv, Types, PInv, LInv, NEW p \in DOMAIN panes, SaveDraft(p)
  PROVE  LInv'
<1> DEFINE x  == panes[p]
           id == IF x.run.draftId = 0 THEN NextDraftId ELSE x.run.draftId
           y  == [x EXCEPT !.run.step = "saved", !.run.draftId = id]
<1>1. x \in GoodPane /\ Knows(x) /\ Links(x, drafts, jobs)
  BY PaneIsOk DEF LInv, LinksOk, PaneOk
<1>2. id \in Nat \ {0} /\ (x.run.draftId = 0 => id \notin DOMAIN drafts)
  <2>1. x.run.draftId \in Nat
    BY <1>1 DEF GoodPane, Pane
  <2> QED BY <2>1, NextDraftIdType DEF DInv
<1>3. x.run.step = "save" /\ x.run.draftId \in {0} \cup DOMAIN drafts /\ Put(p, y)
  BY DEF SaveDraft
<1>4. PICK link \in LinkFor(id, x.run) :
        /\ drafts' = With(id, [sealed |-> x.run.encrypt, link |-> link,
                               content |-> x.run.content])
        /\ RemoveInBackground(IF x.run.encrypt THEN link ELSE NoLink)
  BY DEF SaveDraft
<1>5. link \in Link \cup {NoLink}
  BY LinkForType
<1>6. \A j \in Job : /\ Uploading(jobs'[j]) => Uploading(jobs[j])
                     /\ jobs[j].at # "idle" => jobs'[j] = jobs[j]
  <2> DEFINE m == IF x.run.encrypt THEN link ELSE NoLink
  <2>1. m \in Link \cup {NoLink} /\ RemoveInBackground(m)
    BY <1>4, <1>5
  <2> HIDE DEF m
  <2> QED BY <2>1, BackgroundJobs
<1>7. id \in DOMAIN drafts /\ drafts[id].link # NoLink => link = drafts[id].link
  BY <1>4 DEF LinkFor
<1>8. x.run.draftId # 0 => id = x.run.draftId
  OBVIOUS
<1> HIDE DEF id
<1>9. /\ drafts'[id].sealed = x.run.encrypt /\ drafts'[id].link = link
      /\ \A d \in DOMAIN drafts \ {id} : drafts'[d] = drafts[d]
  BY <1>4 DEF With
<1>10. /\ y.open = x.open /\ y.draftId = x.draftId /\ y.saves = x.saves /\ y.wait = x.wait
       /\ y.link = x.link /\ y.run.step = "saved" /\ y.run.draftId = id
       /\ y.run.link = x.run.link /\ y.run.encrypt = x.run.encrypt
  BY <1>1 DEF GoodPane, Pane
<1> HIDE DEF x, y
<1>11. x.run.draftId = x.draftId /\ Live(x) /\ Live(y)
  BY <1>1, <1>3, <1>10 DEF GoodPane, Knows, Live
<1>12. Links(y, drafts', jobs')
  <2>1. x.link # NoLink => id = x.draftId /\ link = x.link
    BY <1>1, <1>3, <1>7, <1>8, <1>11 DEF Links
  <2>2. x.run.link # NoLink => link = x.run.link
    BY <1>1, <1>3, <1>7, <1>8 DEF Links
  <2> QED BY <1>2, <1>9, <1>10, <2>1, <2>2 DEF Links, Stored
<1>13. /\ panes \in Seq(GoodPane) /\ LinksOk(panes, drafts, jobs)
       /\ \A q \in DOMAIN panes : Knows(panes[q])
       /\ \A q \in DOMAIN panes \ {p} : Holds(x) \cap Holds(panes[q]) = {}
  BY LinksFacts DEF x
<1>14. \A q \in DOMAIN panes \ {p} : \A d \in Holds(panes[q]) : drafts'[d] = drafts[d]
  <2>1. SUFFICES ASSUME NEW q \in DOMAIN panes \ {p}, NEW d \in Holds(panes[q])
                 PROVE  drafts'[d] = drafts[d]
    OBVIOUS
  <2>2. d \in DOMAIN drafts
    BY <2>1, PaneIsOk DEF PaneOk, Stores
  <2>3. d # id
    <3>1. CASE x.run.draftId = 0
      BY <1>2, <2>2, <3>1
    <3>2. CASE x.run.draftId # 0
      <4>1. id \in Holds(x)
        BY <1>8, <1>11, <3>2 DEF Holds
      <4> QED BY <1>13, <2>1, <4>1
    <3> QED BY <3>1, <3>2
  <2> QED BY <1>9, <2>2, <2>3
<1>15. \A q \in DOMAIN panes \ {p} : panes[q].run.step = "session" =>
         jobs'[panes[q].run.job] = jobs[panes[q].run.job] /\ ~InSession(y, panes[q].run.job)
  BY <1>6, <1>10, JobsOfPanes DEF InSession
<1>16. \A j \in Job : Uploading(jobs'[j]) =>
         InSession(y, j) \/ (Uploading(jobs[j]) /\ ~InSession(panes[p], j))
  BY <1>3, <1>6 DEF InSession, x
<1>17. LinksOk([panes EXCEPT ![p] = y], drafts', jobs')
  <2>1. panes \in Seq(GoodPane) /\ LinksOk(panes, drafts, jobs) /\ \A q \in DOMAIN panes : Knows(panes[q])
    BY <1>13
  <2> QED BY <1>12, <1>14, <1>15, <1>16, <2>1, PutLinks
<1> QED BY <1>3, <1>17 DEF LInv, Put

LEMMA AwaitLinks ==
  ASSUME DInv, Types, PInv, LInv, NEW p \in DOMAIN panes, panes[p].run.step \in {"upload", "remove"},
         NEW op \in {"replace", "remove"}, NEW link \in Link, Await(p, op, link),
         link = drafts[panes[p].run.draftId].link, op = "replace" => ~panes[p].run.encrypt
  PROVE  LInv'
<1> DEFINE x == panes[p]
           y == [x EXCEPT !.run.step = "session", !.run.job = Slot]
<1>1. x \in GoodPane /\ Links(x, drafts, jobs)
  BY PaneIsOk DEF LInv, LinksOk
<1>2. Put(p, y) /\ UNCHANGED drafts /\ FreeSlots # {} /\ Begin(Slot, op, link)
  BY DEF Await
<1>3. /\ Slot \in Job /\ jobs[Slot].at = "idle"
      /\ jobs'[Slot].at = "find" /\ jobs'[Slot].op = op /\ jobs'[Slot].link = link
      /\ \A j \in Job \ {Slot} : jobs'[j] = jobs[j]
  BY <1>2, SlotJobs
<1>4. /\ y.open = x.open /\ y.draftId = x.draftId /\ y.saves = x.saves /\ y.wait = x.wait
      /\ y.link = x.link /\ y.run.step = "session" /\ y.run.job = Slot
      /\ y.run.draftId = x.run.draftId /\ y.run.link = x.run.link /\ y.run.encrypt = x.run.encrypt
  BY <1>1 DEF GoodPane, Pane
<1> HIDE DEF y
<1>5. Live(y) = Live(x)
  BY <1>4 DEF Live
<1>6. Links(y, drafts, jobs')
  BY <1>1, <1>3, <1>4, <1>5 DEF Links, Stored
<1>7. /\ panes \in Seq(GoodPane) /\ LinksOk(panes, drafts, jobs)
      /\ \A q \in DOMAIN panes : Knows(panes[q])
  BY LinksFacts
<1>8. \A q \in DOMAIN panes \ {p} : panes[q].run.step = "session" =>
        jobs'[panes[q].run.job] = jobs[panes[q].run.job] /\ ~InSession(y, panes[q].run.job)
  BY <1>3, <1>4, JobsOfPanes DEF InSession
<1>9. \A j \in Job : Uploading(jobs'[j]) =>
        InSession(y, j) \/ (Uploading(jobs[j]) /\ ~InSession(panes[p], j))
  BY <1>3, <1>4 DEF InSession, Uploading
<1>10. \A q \in DOMAIN panes \ {p} : \A d \in Holds(panes[q]) : drafts[d] = drafts[d]
  OBVIOUS
<1>11. LinksOk([panes EXCEPT ![p] = y], drafts, jobs')
  BY <1>6, <1>7, <1>8, <1>9, <1>10, PutLinks
<1> QED BY <1>2, <1>11 DEF LInv, Put

LEMMA UploadDraftLinks ==
  ASSUME DInv, Types, PInv, LInv, NEW p \in DOMAIN panes, UploadDraft(p) \/ RemoveServerDraft(p)
  PROVE  LInv'
<1> DEFINE x == panes[p]
<1>1. x \in GoodPane /\ Links(x, drafts, jobs)
  BY PaneIsOk DEF LInv, LinksOk
<1>2. CASE UploadDraft(p)
  <2>1. x.run.step = "upload" /\ Await(p, "replace", drafts[x.run.draftId].link)
    BY <1>2 DEF UploadDraft
  <2>2. drafts[x.run.draftId].link \in Link
    BY <1>2 DEF UploadDraft, Uploadable, DInv, GoodDrafts, GoodDraft, Draft
  <2>3. ~x.run.encrypt
    BY <1>1, <2>1 DEF Links
  <2> QED BY <2>1, <2>2, <2>3, AwaitLinks
<1>3. CASE RemoveServerDraft(p)
  <2>1. x.run.step = "remove" /\ Await(p, "remove", x.run.link)
    BY <1>3 DEF RemoveServerDraft
  <2>2. x.run.link \in Link /\ x.run.link # NoLink
    BY <1>1, <2>1, FolderAssumption DEF GoodPane
  <2>3. x.run.link = drafts[x.run.draftId].link
    BY <1>1, <2>1, <2>2 DEF Links
  <2> QED BY <2>1, <2>2, <2>3, AwaitLinks
<1> QED BY <1>2, <1>3

LEMMA DeleteDraftLinks ==
  ASSUME DInv, Types, PInv, LInv, NEW p \in DOMAIN panes, DeleteDraft(p)
  PROVE  LInv'
<1> DEFINE x  == panes[p]
           id == x.wait.draftId
           y  == [x EXCEPT !.wait.step = "close"]
           link == IF id \in DOMAIN drafts THEN drafts[id].link ELSE NoLink
<1>1. x \in GoodPane /\ PaneOk(x, made[p], drafts, edits) /\ Links(x, drafts, jobs)
  BY PaneIsOk DEF LInv, LinksOk
<1>2. x.wait.step = "delete" /\ Put(p, y) /\ RemoveInBackground(link)
  BY DEF DeleteDraft
<1>3. \A d \in DOMAIN drafts \ {id} : drafts'[d] = drafts[d]
  BY DEF DeleteDraft, Restrict
<1>4. x.saves = <<>> /\ x.open /\ x.run.step = "none" /\ id = x.draftId /\ id # 0
  BY <1>1, <1>2, NoneFields, Waiting DEF PaneOk, Ordered
<1>5. link \in Link \cup {NoLink}
  BY DEF DInv, GoodDrafts, GoodDraft, Draft
<1>6. y.saves = x.saves /\ y.run = x.run /\ y.wait.step = "close"
  BY <1>1 DEF GoodPane, Pane
<1> HIDE DEF x, id, y, link
<1>7. \A j \in Job : /\ Uploading(jobs'[j]) => Uploading(jobs[j])
                     /\ jobs[j].at # "idle" => jobs'[j] = jobs[j]
  BY <1>2, <1>5, BackgroundJobs
<1>8. id \in Holds(x)
  BY <1>2, <1>4 DEF Holds, Live
<1>9. ~Live(y) /\ y.run.step = "none"
  BY <1>4, <1>6 DEF Live
<1>10. Links(y, drafts', jobs')
  BY <1>9 DEF Links, Stored
<1>11. /\ panes \in Seq(GoodPane) /\ LinksOk(panes, drafts, jobs)
       /\ \A q \in DOMAIN panes : Knows(panes[q])
       /\ \A q \in DOMAIN panes \ {p} : Holds(x) \cap Holds(panes[q]) = {}
  BY LinksFacts DEF x
<1>12. \A q \in DOMAIN panes \ {p} : \A d \in Holds(panes[q]) : drafts'[d] = drafts[d]
  <2>1. SUFFICES ASSUME NEW q \in DOMAIN panes \ {p}, NEW d \in Holds(panes[q])
                 PROVE  drafts'[d] = drafts[d]
    OBVIOUS
  <2>2. d \in DOMAIN drafts
    BY <2>1, PaneIsOk DEF PaneOk, Stores
  <2>3. d # id
    BY <1>8, <1>11, <2>1
  <2> QED BY <1>3, <2>2, <2>3
<1>13. \A q \in DOMAIN panes \ {p} : panes[q].run.step = "session" =>
         jobs'[panes[q].run.job] = jobs[panes[q].run.job] /\ ~InSession(y, panes[q].run.job)
  BY <1>7, <1>9, JobsOfPanes DEF InSession
<1>14. \A j \in Job : Uploading(jobs'[j]) =>
         InSession(y, j) \/ (Uploading(jobs[j]) /\ ~InSession(panes[p], j))
  BY <1>4, <1>7 DEF InSession, x
<1>15. LinksOk([panes EXCEPT ![p] = y], drafts', jobs')
  <2>1. panes \in Seq(GoodPane) /\ LinksOk(panes, drafts, jobs) /\ \A q \in DOMAIN panes : Knows(panes[q])
    BY <1>11
  <2> QED BY <1>10, <1>12, <1>13, <1>14, <2>1, PutLinks
<1> QED BY <1>2, <1>15 DEF LInv, Put

LEMMA PaneLinks ==
  ASSUME DInv, Types, PInv, LInv, NEW p \in DOMAIN panes, Saving(p) \/ Sending(p)
  PROVE  LInv'
<1>1. FolderTypeOK
  BY DEF Types
<1>2. CASE NothingToUpload(p)
  <2>1. /\ panes[p].run.step = "upload" /\ UploadFailed(p)
        /\ UNCHANGED drafts /\ UNCHANGED jobs
    BY <1>2 DEF NothingToUpload, folderVars
  <2> QED BY <1>1, <2>1, UploadFailedLinks
<1> QED BY <1>1, <1>2, StartSaveLinks, SaveFailsLinks, SaveDraftLinks, SavedLinks, UploadDraftLinks,
           UploadedLinks, SendingLinks, DeleteDraftLinks DEF Saving, Sending

\* Pelton quits.
LEMMA ExitLinks ==
  ASSUME DInv, PInv, LInv, Exit
  PROVE  LInv'
<1> DEFINE y(p) == [panes[p] EXCEPT !.open = FALSE, !.saves = <<>>, !.run = NoRun, !.wait = None]
<1>1. panes' = [p \in DOMAIN panes |-> y(p)] /\ jobs' = [j \in Job |-> Idle]
  BY DEF Exit, Quit
<1>2. Idle.at = "idle" /\ NoRun.step = "none"
  BY IdleSession DEF NoRun
<1>3. ASSUME NEW p \in DOMAIN panes
      PROVE  ~Live(y(p)) /\ y(p).run.step = "none"
  <2> DEFINE z == y(p)
  <2>1. panes[p] \in GoodPane
    BY PaneIsOk
  <2>2. z.open = FALSE /\ z.saves = <<>> /\ z.run = NoRun
    BY <2>1 DEF GoodPane, Pane
  <2> HIDE DEF z
  <2>3. ~Live(z) /\ z.run.step = "none"
    BY <1>2, <2>2 DEF Live
  <2> QED BY <2>3 DEF z
<1> HIDE DEF y
<1>4. DOMAIN panes' = DOMAIN panes /\ \A p \in DOMAIN panes : panes'[p] = y(p)
  BY <1>1
<1>5. \A p \in DOMAIN panes' : Links(panes'[p], drafts', jobs')
  BY <1>3, <1>4 DEF Links, Stored
<1>6. \A p \in DOMAIN panes' : panes'[p].run.step # "session"
  BY <1>3, <1>4
<1>7. \A j \in Job : ~Uploading(jobs'[j])
  BY <1>1, <1>2 DEF Uploading
<1>8. LinksOk(panes', drafts', jobs')
  BY <1>5, <1>6, <1>7 DEF LinksOk
<1> QED BY <1>8 DEF LInv

\* The sessions go on, and those of no pane end.
LEMMA SessionsLinks ==
  ASSUME DInv, PInv, LInv, UNCHANGED <<panes, drafts>>,
         \A j \in Job : jobs[j].at # "idle" =>
           \/ /\ jobs'[j].at # "idle" /\ jobs'[j].link = jobs[j].link /\ jobs'[j].op = jobs[j].op
           \/ ~Owned(j) /\ jobs'[j].at = "idle",
         \A j \in Job : jobs[j].at = "idle" => jobs'[j].at = "idle"
  PROVE  LInv'
<1>1. ASSUME NEW p \in DOMAIN panes PROVE Links(panes[p], drafts, jobs')
  <2> DEFINE x == panes[p]
  <2>1. x \in GoodPane /\ Knows(x) /\ Links(x, drafts, jobs)
    BY <1>1, PaneIsOk DEF LInv, LinksOk, PaneOk
  <2>2. x.run.step = "session" =>
          /\ jobs'[x.run.job].at # "idle" /\ jobs'[x.run.job].link = jobs[x.run.job].link
          /\ jobs'[x.run.job].op = jobs[x.run.job].op
    BY <1>1, JobsOfPanes DEF Owned
  <2> HIDE DEF x
  <2>3. \A d \in Holds(x) : drafts[d] = drafts[d]
    OBVIOUS
  <2>4. Links(x, drafts, jobs')
    BY <2>1, <2>2, <2>3, LinksKept
  <2> QED BY <2>4 DEF x
<1>2. \A j \in Job : Uploading(jobs'[j]) => Uploading(jobs[j])
  BY DEF Uploading
<1>3. LinksOk(panes, drafts, jobs')
  BY <1>1, <1>2 DEF LInv, LinksOk
<1> QED BY <1>3 DEF LInv

LEMMA MailboxLinks ==
  ASSUME DInv, Types, PInv, LInv, Mailbox
  PROVE  LInv'
<1>1. UNCHANGED <<panes, drafts>>
  BY DEF Mailbox, local
<1>2. ASSUME NEW k \in Job, Command(k) \/ Break(k) PROVE LInv'
  <2>1. Onward(k) /\ jobs[k].at # "idle" /\ jobs'[k].at # "idle"
    <3>1. CASE Break(k)
      BY <3>1, BreakEffect
    <3>2. CASE Command(k)
      <4>1. Onward(k) /\ jobs'[k].at # "idle"
        BY <3>2, FindEffect, AppendEffect, LookEffect, SearchEffect, DeletionEffect DEF Command
      <4>2. jobs[k].at # "idle"
        BY <3>2 DEF Command, Find, AppendCopy, Look, Search, Lift, Mark, Expunge, Restore
      <4> QED BY <4>1, <4>2
    <3> QED BY <1>2, <3>1, <3>2
  <2>2. \A j \in Job : jobs[j].at # "idle" =>
          jobs'[j].at # "idle" /\ jobs'[j].link = jobs[j].link /\ jobs'[j].op = jobs[j].op
    BY <2>1 DEF Onward
  <2>3. \A j \in Job : jobs[j].at = "idle" => jobs'[j].at = "idle"
    BY <2>1 DEF Onward
  <2> QED BY <1>1, <2>2, <2>3, SessionsLinks
<1>3. ASSUME NEW k \in Job, ~Owned(k), Free(k) PROVE LInv'
  <2>1. (\A j \in Job \ {k} : jobs'[j] = jobs[j]) /\ jobs'[k].at = "idle"
    BY <1>3, RestEffect, IdleSession
  <2>2. \A j \in Job : jobs[j].at # "idle" =>
          \/ /\ jobs'[j].at # "idle" /\ jobs'[j].link = jobs[j].link /\ jobs'[j].op = jobs[j].op
          \/ ~Owned(j) /\ jobs'[j].at = "idle"
    BY <1>3, <2>1
  <2>3. \A j \in Job : jobs[j].at = "idle" => jobs'[j].at = "idle"
    BY <2>1
  <2> QED BY <1>1, <2>2, <2>3, SessionsLinks
<1>4. ASSUME NEW u \in Other, MarkElsewhere(u) PROVE LInv'
  BY <1>1, <1>4 DEF MarkElsewhere, LInv
<1> QED BY <1>2, <1>3, <1>4 DEF Mailbox

LEMMA StepLinks ==
  ASSUME DInv, Types, PInv, LInv, Patient, [Next]_vars
  PROVE  LInv'
<1>1. CASE UNCHANGED vars
  BY <1>1 DEF vars, folderVars, local, LInv
<1> QED BY <1>1, UserLinks, MailboxLinks, ExitLinks, PaneLinks DEF Next

LEMMA InitLinks == Init => LInv
<1> SUFFICES ASSUME Init PROVE LInv
  OBVIOUS
<1>1. DOMAIN panes = {}
  BY DEF Init
<1>2. \A j \in Job : jobs[j].at = "idle"
  BY IdleSession DEF Init, FolderInit
<1> QED BY <1>1, <1>2 DEF LInv, LinksOk, Uploading

LEMMA LinksInvariant ==
  ASSUME Patient
  PROVE  Spec => []LInv
<1>1. Init => LInv
  BY InitLinks
<1>2. DInv /\ Types /\ PInv /\ LInv /\ [Next]_vars => LInv'
  BY StepLinks
<1> QED BY <1>1, <1>2, DraftsInvariant, PanesInvariant, PTL DEF Spec

-----------------------------------------------------------------------------
(* Stray copies: each copy is one of a draft, or is being removed *)

\* A draft that is not sealed has the Message-ID.
Plain(l, D) == \E d \in DOMAIN D : D[d].link = l /\ ~D[d].sealed

\* Nothing but an upload appends.
AppendsUpload == \A j \in Job : jobs[j].at = "append" => jobs[j].op = "replace"

\* Every copy is one of such a draft, or a removal under way takes it.
NoneStray == ~crowded => \A l \in Link \ kept : Covered(l) \/ Plain(l, drafts)

\* An upload is one of a draft that is not sealed.
LEMMA UploadIsPlain ==
  ASSUME DInv, PInv, LInv, NEW j \in Job, Uploading(jobs[j])
  PROVE  Plain(jobs[j].link, drafts)
<1>1. PICK p \in DOMAIN panes : InSession(panes[p], j)
  BY DEF LInv, LinksOk
<1> DEFINE x == panes[p]
<1>2. x \in GoodPane /\ PaneOk(x, made[p], drafts, edits) /\ Links(x, drafts, jobs)
  BY PaneIsOk DEF LInv, LinksOk
<1>3. x.run.step = "session" /\ x.run.job = j
  BY <1>1 DEF InSession
<1> HIDE DEF x
<1>4. /\ jobs[j].link = drafts[x.run.draftId].link
      /\ ~x.run.encrypt /\ drafts[x.run.draftId].sealed = x.run.encrypt
  BY <1>2, <1>3 DEF Links, Stored, Uploading
<1>5. x.run.draftId # 0 /\ Live(x)
  BY <1>2, <1>3 DEF PaneOk, Knows, Stored, GoodPane, Live
<1>6. x.run.draftId \in DOMAIN drafts
  BY <1>2, <1>5 DEF PaneOk, Stores, Holds
<1> QED BY <1>4, <1>6 DEF Plain

LEMMA AppendsKept ==
  ASSUME Types, AppendsUpload, [FolderNext]_folderVars
  PROVE  AppendsUpload'
<1>1. CASE UNCHANGED folderVars
  BY <1>1 DEF folderVars, AppendsUpload
<1>2. ASSUME NEW k \in Job, NEW op \in {"replace", "remove"}, NEW l \in Link, Begin(k, op, l)
      PROVE  AppendsUpload'
  BY <1>2, BeginEffect DEF AppendsUpload
<1>3. ASSUME NEW k \in Job, Command(k) \/ Break(k) PROVE AppendsUpload'
  <2>1. Onward(k)
    BY <1>3, FindEffect, AppendEffect, LookEffect, SearchEffect, DeletionEffect, BreakEffect
       DEF Command
  <2>2. jobs'[k].at = "append" => jobs'[k].op = "replace"
    <3>1. CASE Find(k)
      BY <2>1, <3>1, FindEffect DEF Onward
    <3>2. CASE ~Find(k)
      <4>1. jobs'[k].at # "append"
        BY <1>3, <3>2, AppendEffect, LookEffect, SearchEffect, DeletionEffect, BreakEffect
           DEF Command
      <4> QED BY <4>1
    <3> QED BY <3>1, <3>2
  <2> QED BY <2>1, <2>2 DEF Onward, AppendsUpload
<1>4. ASSUME NEW k \in Job, Free(k) PROVE AppendsUpload'
  <2>1. (\A j \in Job \ {k} : jobs'[j] = jobs[j]) /\ jobs'[k].at = "idle"
    BY <1>4, RestEffect, IdleSession
  <2> QED BY <2>1 DEF AppendsUpload
<1>5. ASSUME NEW u \in Other, MarkElsewhere(u) PROVE AppendsUpload'
  BY <1>5 DEF MarkElsewhere, AppendsUpload
<1>6. CASE Quit
  BY <1>6, IdleSession DEF Quit, AppendsUpload
<1> QED BY <1>1, <1>2, <1>3, <1>4, <1>5, <1>6 DEF FolderNext

\* A folder step that begins no session, and leaves the drafts alone.
LEMMA FolderCovers ==
  ASSUME DInv, Types, MInv, PInv, LInv, AppendsUpload, NoneStray, UNCHANGED drafts,
         \/ \E k \in Job : Command(k) \/ Break(k) \/ Free(k)
         \/ \E u \in Other : MarkElsewhere(u)
         \/ Quit
  PROVE  NoneStray'
<1>1. SUFFICES ASSUME ~crowded', NEW l \in Link, l \notin kept'
               PROVE  Covered(l)' \/ Plain(l, drafts)
  BY DEF NoneStray
<1>2. kept \subseteq kept' /\ ~crowded
  <2>1. CASE \E k \in Job : Search(k)
    BY <1>1, <2>1 DEF Search
  <2>2. CASE ~\E k \in Job : Search(k)
    <3>1. crowded' = crowded /\ kept \subseteq kept'
      BY <2>2 DEF Command, Find, AppendCopy, Look, Lift, Mark, Expunge, Restore, Break, Free,
                  MarkElsewhere, Quit, history
    <3> QED BY <1>1, <3>1
  <2> QED BY <2>1, <2>2
<1>3. SUFFICES ASSUME Covered(l), ~Plain(l, drafts) PROVE Covered(l)'
  BY <1>1, <1>2 DEF NoneStray
<1>4. ASSUME NEW k \in Job, Command(k) PROVE Covered(l)'
  <2>1. ~(AppendCopy(k) /\ jobs[k].link = l)
    <3>1. SUFFICES ASSUME AppendCopy(k), jobs[k].link = l PROVE FALSE
      OBVIOUS
    <3>2. Uploading(jobs[k])
      BY <3>1 DEF AppendCopy, AppendsUpload, Uploading
    <3> QED BY <1>3, <3>1, <3>2, UploadIsPlain
  <2> QED BY <1>1, <1>3, <1>4, <2>1, CommandCovers
<1>5. CASE \/ \E k \in Job : Break(k) \/ Free(k)
           \/ \E u \in Other : MarkElsewhere(u)
           \/ Quit
  BY <1>1, <1>3, <1>5, OtherCovers
<1> QED BY <1>4, <1>5

\* A removal begins: of what may have lost its draft, if of anything.
LEMMA BackgroundCovers ==
  ASSUME Types, NoneStray, NEW m \in Link \cup {NoLink}, RemoveInBackground(m),
         \A l \in Link : Plain(l, drafts) => Plain(l, drafts') \/ l = m
  PROVE  NoneStray'
<1>1. CASE m = NoLink
  <2>1. UNCHANGED folderVars
    BY <1>1 DEF RemoveInBackground
  <2>2. m \notin Link
    BY <1>1, FolderAssumption
  <2>3. crowded' = crowded /\ kept' = kept /\ \A l : Covered(l)' = Covered(l)
    BY <2>1 DEF folderVars, history, Covered, Covers
  <2> QED BY <2>2, <2>3 DEF NoneStray
<1>2. CASE m # NoLink
  <2>1. m \in Link /\ FreeSlots # {} /\ Begin(Slot, "remove", m) /\ Slot \in Job
    BY <1>2, SlotIsJob DEF RemoveInBackground
  <2>2. crowded' = crowded /\ kept' = kept
    BY <2>1 DEF Begin, history
  <2>3. \A l \in Link : Covered(l) \/ l = m => Covered(l)'
    <3> DEFINE s == Slot
    <3> HIDE DEF s
    <3>1. s \in Job /\ Begin(s, "remove", m)
      BY <2>1 DEF s
    <3> QED BY <2>1, <3>1, BeginCovers
  <2> QED BY <2>2, <2>3 DEF NoneStray
<1> QED BY <1>1, <1>2

LEMMA SaveDraftCovers ==
  ASSUME DInv, Types, PInv, NoneStray, NEW p \in DOMAIN panes, SaveDraft(p)
  PROVE  NoneStray'
<1> DEFINE run == panes[p].run
           id  == IF run.draftId = 0 THEN NextDraftId ELSE run.draftId
<1>1. PICK link \in LinkFor(id, run) :
        /\ drafts' = With(id, [sealed |-> run.encrypt, link |-> link, content |-> run.content])
        /\ RemoveInBackground(IF run.encrypt THEN link ELSE NoLink)
  BY DEF SaveDraft
<1> DEFINE m == IF run.encrypt THEN link ELSE NoLink
<1>2. link \in Link \cup {NoLink}
  BY LinkForType
<1>3. id \in DOMAIN drafts /\ drafts[id].link # NoLink => link = drafts[id].link
  BY <1>1 DEF LinkFor
<1> HIDE DEF id, run
<1>4. /\ DOMAIN drafts' = {id} \cup DOMAIN drafts
      /\ drafts'[id].sealed = run.encrypt /\ drafts'[id].link = link
      /\ \A d \in DOMAIN drafts \ {id} : drafts'[d] = drafts[d]
  BY <1>1 DEF With
<1>5. RemoveInBackground(m) /\ m \in Link \cup {NoLink}
  BY <1>1, <1>2
<1>6. \A l \in Link : Plain(l, drafts) => Plain(l, drafts') \/ l = m
  <2>1. SUFFICES ASSUME NEW l \in Link, NEW d \in DOMAIN drafts, drafts[d].link = l,
                        ~drafts[d].sealed
                 PROVE  Plain(l, drafts') \/ l = m
    BY DEF Plain
  <2>2. CASE d # id
    BY <1>4, <2>1, <2>2 DEF Plain
  <2>3. CASE d = id
    <3>1. link = l
      BY <1>3, <2>1, <2>3, FolderAssumption
    <3>2. CASE run.encrypt
      BY <3>1, <3>2
    <3>3. CASE ~run.encrypt
      BY <1>4, <3>1, <3>3 DEF Plain
    <3> QED BY <3>2, <3>3
  <2> QED BY <2>2, <2>3
<1> HIDE DEF m
<1> QED BY <1>5, <1>6, BackgroundCovers

LEMMA DeleteDraftCovers ==
  ASSUME DInv, Types, NoneStray, NEW p \in DOMAIN panes, DeleteDraft(p)
  PROVE  NoneStray'
<1> DEFINE id == panes[p].wait.draftId
           m == IF id \in DOMAIN drafts THEN drafts[id].link ELSE NoLink
<1>1. m \in Link \cup {NoLink}
  BY DEF DInv, GoodDrafts, GoodDraft, Draft
<1>2. RemoveInBackground(m)
  BY DEF DeleteDraft
<1>3. DOMAIN drafts' = DOMAIN drafts \ {id} /\ \A d \in DOMAIN drafts \ {id} : drafts'[d] = drafts[d]
  BY DEF DeleteDraft, Restrict
<1> HIDE DEF id
<1>4. \A l \in Link : Plain(l, drafts) => Plain(l, drafts') \/ l = m
  BY <1>3 DEF Plain
<1> HIDE DEF m
<1> QED BY <1>1, <1>2, <1>4, BackgroundCovers

LEMMA AwaitCovers ==
  ASSUME DInv, Types, NoneStray, NEW p \in DOMAIN panes, UploadDraft(p) \/ RemoveServerDraft(p)
  PROVE  NoneStray'
<1>1. PICK op \in {"replace", "remove"}, m \in Link : Await(p, op, m)
  <2>1. CASE UploadDraft(p)
    <3> DEFINE m == drafts[panes[p].run.draftId].link
    <3>1. Await(p, "replace", m)
      BY <2>1 DEF UploadDraft
    <3>2. m \in Link
      BY <2>1 DEF UploadDraft, Uploadable, DInv, GoodDrafts, GoodDraft
    <3> HIDE DEF m
    <3> QED BY <3>1, <3>2
  <2>2. CASE RemoveServerDraft(p)
    <3> DEFINE m == panes[p].run.link
    <3>1. Await(p, "remove", m)
      BY <2>2 DEF RemoveServerDraft
    <3>2. m \in Link
      BY <2>2, PaneAt DEF RemoveServerDraft, DInv, GoodPane
    <3> HIDE DEF m
    <3> QED BY <3>1, <3>2
  <2> QED BY <2>1, <2>2
<1>2. FreeSlots # {} /\ Begin(Slot, op, m) /\ UNCHANGED drafts /\ Slot \in Job
  BY <1>1, SlotIsJob DEF Await
<1>3. crowded' = crowded /\ kept' = kept
  BY <1>2 DEF Begin, history
<1>4. \A l \in Link : Covered(l) => Covered(l)'
  <2> DEFINE s == Slot
  <2> HIDE DEF s
  <2>1. s \in Job /\ Begin(s, op, m)
    BY <1>2 DEF s
  <2> QED BY <2>1, BeginCovers
<1> QED BY <1>2, <1>3, <1>4 DEF NoneStray

\* Steps of the panes alone.
LEMMA SameCovers ==
  ASSUME NoneStray, UNCHANGED folderVars, UNCHANGED drafts
  PROVE  NoneStray'
BY DEF folderVars, history, NoneStray, Covered, Covers

LEMMA StepCovers ==
  ASSUME DInv, Types, MInv, PInv, LInv, AppendsUpload, NoneStray, [Next]_vars
  PROVE  NoneStray'
<1>1. CASE UNCHANGED vars
  BY <1>1, SameCovers DEF vars, local
<1>2. CASE User
  <2>1. UNCHANGED folderVars
    BY <1>2, UserSteps
  <2>2. UNCHANGED drafts
    BY <1>2 DEF User, Compose, UndoSend, OpenDraft, Edit, ClickSave, ClickSendOrDiscard, Close
  <2> QED BY <2>1, <2>2, SameCovers
<1>3. CASE Mailbox \/ Exit
  <2>1. UNCHANGED drafts
    BY <1>3 DEF Mailbox, Exit, local
  <2>2. \/ \E k \in Job : Command(k) \/ Break(k) \/ Free(k)
        \/ \E u \in Other : MarkElsewhere(u)
        \/ Quit
    BY <1>3 DEF Mailbox, Exit
  <2> QED BY <2>1, <2>2, FolderCovers
<1>4. ASSUME NEW p \in DOMAIN panes, Saving(p) \/ Sending(p) PROVE NoneStray'
  <2>1. CASE StartSave(p) \/ SaveFails(p) \/ Saved(p) \/ NothingToUpload(p)
    BY <2>1, SameCovers DEF StartSave, SaveFails, Saved, NothingToUpload
  <2>2. CASE Settled(p) \/ SendFails(p) \/ SendMessage(p) \/ CloseSent(p)
    BY <2>2, SameCovers DEF Settled, SendFails, SendMessage, CloseSent
  <2>3. CASE Uploaded(p)
    <3>1. UNCHANGED drafts /\ Free(panes[p].run.job)
      BY <2>3 DEF Uploaded
    <3>2. panes[p].run.job \in Job
      BY <2>3, PaneAt DEF Uploaded, DInv, GoodPane
    <3> QED BY <3>1, <3>2, FolderCovers
  <2> QED BY <1>4, <2>1, <2>2, <2>3, SaveDraftCovers, DeleteDraftCovers, AwaitCovers
             DEF Saving, Sending
<1> QED BY <1>1, <1>2, <1>3, <1>4 DEF Next

LEMMA InitCovers == Init => AppendsUpload /\ NoneStray
<1> SUFFICES ASSUME Init PROVE AppendsUpload /\ NoneStray
  OBVIOUS
<1>1. \A j \in Job : jobs[j].at = "idle"
  BY IdleSession DEF Init, FolderInit
<1>2. \A l \in Link : copies[l] = {}
  BY DEF Init, FolderInit
<1> QED BY <1>1, <1>2 DEF AppendsUpload, NoneStray, Covered

-----------------------------------------------------------------------------
(* The theorems *)

(* However many panes save, encrypt, send and discard at once, all they do  *)
(* to the server's folder is start sessions of DraftsFolder and hear how    *)
(* they ended: the composition implements it.                               *)
THEOREM DraftsImplementFolder == Spec => FolderSpec
<1>1. Init => FolderInit
  BY DEF Init
<1>2. DInv /\ Types /\ [Next]_vars => [FolderNext]_folderVars
  BY Steps DEF Types
<1> QED BY <1>1, <1>2, DraftsInvariant, PTL DEF Spec, FolderSpec

(* Whatever the panes do, a draft that was put on the server and that       *)
(* nobody asked to remove since has a copy there.                           *)
THEOREM PanesKeepDrafts == Spec => []NeverNoDraft
BY DraftsImplementFolder, DraftKept, PTL

(* Whatever the panes do, the mail that another client has merely marked    *)
(* stays.                                                                   *)
THEOREM PanesKeepOthers == Spec => []OnlyThose
BY DraftsImplementFolder, OthersKept, PTL

(* The ids, Message-IDs, saves and sessions of the panes keep their types;  *)
(* a draft's id is never 0, which a pane takes for none.                    *)
THEOREM DraftsTypes == Spec => []TypeOK
<1>1. DInv /\ Types => TypeOK
  <2> SUFFICES ASSUME DInv, Types PROVE TypeOK
    OBVIOUS
  <2>1. panes \in Seq(Pane)
    <3>1. GoodPane \subseteq Pane
      BY DEF GoodPane
    <3> QED BY <3>1, SeqMonotonic DEF DInv, GoodPanes
  <2>2. \A d \in DOMAIN drafts : drafts[d] \in Draft
    BY DEF DInv, GoodDrafts, GoodDraft
  <2> QED BY <2>1, <2>2 DEF TypeOK, DInv, GoodDrafts, GoodPanes, GoodRest, Types
<1> QED BY <1>1, DraftsInvariant, PTL

(* However often a patient user saves a message, and however the saves and  *)
(* what they start fail, its pane makes one draft of it.                    *)
THEOREM OneDraftEach == Patient => (Spec => []NoSecondCopy)
<1> SUFFICES ASSUME Patient PROVE Spec => []NoSecondCopy
  OBVIOUS
<1>1. DInv /\ PInv => NoSecondCopy
  <2> SUFFICES ASSUME DInv, PInv, NEW p \in DOMAIN made PROVE Cardinality(made[p]) <= 1
    BY DEF NoSecondCopy
  <2>1. p \in DOMAIN panes
    BY LenProperties DEF DInv, GoodPanes
  <2>2. made[p] = {} \/ \E d \in made[p] : made[p] = {d}
    BY <2>1 DEF PInv, PanesOk, PaneOk, Makes
  <2>3. CASE made[p] = {}
    BY <2>3, FS_EmptySet
  <2>4. ASSUME NEW d \in made[p], made[p] = {d}
        PROVE  Cardinality(made[p]) <= 1
    <3>1. Cardinality({d}) = 1
      BY FS_Singleton
    <3> QED BY <2>4, <3>1
  <2> QED BY <2>2, <2>3, <2>4
<1> QED BY <1>1, DraftsInvariant, PanesInvariant, PTL

(* A pane of a patient user that shows no unsaved changes, and so closes    *)
(* without asking, shows what its draft holds.                              *)
THEOREM NothingUnsaved == Patient => (Spec => []UnchangedIsStored)
<1> SUFFICES ASSUME Patient PROVE Spec => []UnchangedIsStored
  OBVIOUS
<1>1. DInv /\ PInv => UnchangedIsStored
  <2> SUFFICES ASSUME DInv, PInv, NEW p \in DOMAIN panes,
                      panes[p].open, ~Busy(p), panes[p].saved = panes[p].content
               PROVE  /\ panes[p].draftId \in DOMAIN drafts
                      /\ drafts[panes[p].draftId].content = panes[p].content
    BY DEF UnchangedIsStored
  <2> DEFINE x == panes[p]
  <2>1. x \in GoodPane /\ PaneOk(x, made[p], drafts, edits) /\ edits \in Nat
    BY PaneIsOk DEF DInv, GoodRest
  <2>2. x.saves = <<>> /\ x.wait.step = "wait" /\ x.run.step = "none" /\ x.open
        /\ x.saved = x.content
    BY <2>1, NoneFields DEF Busy, GoodPane
  <2> HIDE DEF x
  <2>3. x.draftId # 0
    BY <2>1, <2>2 DEF PaneOk, Knows, Within
  <2>4. Live(x) /\ x.draftId \in Holds(x)
    BY <2>2, <2>3 DEF Live, Holds
  <2>5. x.draftId \in DOMAIN drafts /\ drafts[x.draftId].content = x.content
    BY <2>1, <2>2, <2>3, <2>4 DEF PaneOk, Stores
  <2> QED BY <2>5 DEF x
<1> QED BY <1>1, DraftsInvariant, PanesInvariant, PTL

(* As long as no call and no session fails and Pelton is not quit, a        *)
(* message that a patient user queued leaves no draft of itself behind,     *)
(* whichever panes it went through and however often its sending was undone.*)
THEOREM SentIsGone == Patient => (Spec => []SentLeavesNoDraft)
<1> SUFFICES ASSUME Patient PROVE Spec => []SentLeavesNoDraft
  OBVIOUS
<1>1. DInv /\ PInv => SentLeavesNoDraft
  <2> SUFFICES ASSUME DInv, PInv, Quiet, Undisturbed, NEW d \in DOMAIN drafts
               PROVE  drafts[d].content \notin outbox
    BY DEF SentLeavesNoDraft
  <2>1. Apart(panes, drafts, outbox)
    BY DEF PInv
  <2>2. CASE d \in Loose(panes, drafts)
    BY <2>1, <2>2 DEF Apart
  <2>3. CASE d \notin Loose(panes, drafts)
    <3>1. PICK p \in DOMAIN panes : d \in Holds(panes[p])
      BY <2>3 DEF Loose
    <3> DEFINE x == panes[p]
    <3>2. x \in GoodPane /\ PaneOk(x, made[p], drafts, edits) /\ edits \in Nat
      BY PaneIsOk DEF DInv, GoodRest
    <3>3. x.wait.step # "delete"
      BY NoneFields DEF Quiet, Busy
    <3>4. Numbered(drafts, outbox, edits)
      BY DEF PInv
    <3>5. drafts[d].content \in Texts(x)
      <4> HIDE DEF x
      <4>1. d \in Holds(x)
        BY <3>1 DEF x
      <4> QED BY <3>2, <3>3, <3>4, <4>1, OwnText DEF PaneOk
    <3> QED BY <2>1, <3>5 DEF Apart
  <2> QED BY <2>2, <2>3
<1> QED BY <1>1, DraftsInvariant, PanesInvariant, PTL

(* When nothing is under way any more, every copy that a patient user's     *)
(* drafts have on the server is one of a draft that is not sealed; but for  *)
(* removals that failed and deletions that lifted each other's marks.       *)
THEOREM NoCopyStrays == Patient => (Spec => []NoStrayCopy)
<1> SUFFICES ASSUME Patient PROVE Spec => []NoStrayCopy
  OBVIOUS
<1>1. NoneStray => NoStrayCopy
  <2> SUFFICES ASSUME NoneStray, Quiet, ~crowded, NEW l \in Link \ kept, copies[l] # {}
               PROVE  \E d \in DOMAIN drafts : drafts[d].link = l /\ ~drafts[d].sealed
    BY DEF NoStrayCopy
  <2>1. \A j \in Job : ~Covers(j, l)
    BY DEF Quiet, Covers
  <2> QED BY <2>1 DEF NoneStray, Covered, Plain
<1>2. Spec => []MInv
  BY DraftsImplementFolder, MarksInvariant, PTL
<1>3. Spec => []AppendsUpload
  <2>1. Init => AppendsUpload
    BY InitCovers
  <2>2. DInv /\ Types /\ AppendsUpload /\ [Next]_vars => AppendsUpload'
    BY Steps, AppendsKept DEF Types
  <2> QED BY <2>1, <2>2, DraftsInvariant, PTL DEF Spec
<1>4. Init => NoneStray
  BY InitCovers
<1>5. DInv /\ Types /\ MInv /\ PInv /\ LInv /\ AppendsUpload /\ NoneStray /\ [Next]_vars => NoneStray'
  BY StepCovers
<1> QED BY <1>1, <1>2, <1>3, <1>4, <1>5, DraftsInvariant, PanesInvariant, LinksInvariant, PTL DEF Spec
=============================================================================
