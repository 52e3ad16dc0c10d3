----------------------------- MODULE DraftsFolder -----------------------------
(***************************************************************************)
(* What Pelton does to the Drafts folder on the server: replacing the copy *)
(* of a draft (imap/append.go, ReplaceDraft), removing it (RemoveDraft),   *)
(* and the deletion both end in (imap/expunge.go, DeleteMessages).  Each   *)
(* runs in a short session of its own, without syncMu, so several run at   *)
(* once, beside another client of the same account.                        *)
(***************************************************************************)
EXTENDS Integers, FiniteSets

CONSTANTS
  Link,     \* the Message-IDs of drafts
  NoLink,   \* ''
  Other,    \* the uids of the mail that is no draft of Pelton's
  FirstUid, \* the uid of the first message appended
  Job,      \* the sessions that can be open at once
  Servers,  \* the kinds of server
  Marks,    \* bound: how many messages another client marks
  Faults    \* bound: how many sessions break

\* uidplus: UIDPLUS, and with it APPENDUID.  oneCopy: like Gmail, it keeps one
\* message for a Message-ID.
ASSUME FolderAssumption ==
  /\ NoLink \notin Link
  /\ FirstUid \in Nat \ {0} /\ Other \subseteq 1..(FirstUid - 1)
  /\ Servers \subseteq [uidplus : BOOLEAN, oneCopy : BOOLEAN]
  /\ Marks \in Nat /\ Faults \in Nat

VARIABLES
  server,
  copies,  \* the uids that carry the Message-ID of each draft
  others,  \* the uids of the other mail
  marked,  \* those with \Deleted
  nextUid,
  jobs,    \* the sessions
  faults,  \* what is left of the bound
  (* history, read by no action but for the bound Marks *)
  theirs,  \* what the other client has marked
  stored,  \* drafts put here that no one has asked to remove since
  kept,    \* drafts whose removal failed
  crowded, \* two deletions overlapped that search and lift marks
  late     \* a message was marked between such a search and its expunge

history == <<kept, crowded, late>>

folderVars ==
  <<server, copies, others, marked, nextUid, jobs, faults, theirs, stored, history>>

\* targets: what is to be deleted; new: the uid APPENDUID tells; foreign: the
\* marks of others that are lifted meanwhile.
Session ==
  [at : {"idle", "find", "append", "look", "search", "lift", "mark", "expunge",
         "restore", "done"},
   op : {"replace", "remove"}, link : Link \cup {NoLink},
   targets : SUBSET Nat, new : Nat, foreign : SUBSET Nat, failed : BOOLEAN]

Open(op, link) ==
  [at |-> "find", op |-> op, link |-> link,
   targets |-> {}, new |-> 0, foreign |-> {}, failed |-> FALSE]

Idle == [Open("remove", NoLink) EXCEPT !.at = "idle"]

FolderTypeOK ==
  /\ server \in Servers
  /\ copies \in [Link -> SUBSET Nat]
  /\ others \subseteq Other /\ theirs \subseteq Other
  /\ marked \subseteq Nat
  /\ nextUid \in Nat
  /\ jobs \in [Job -> Session]
  /\ faults \in 0..Faults
  /\ stored \subseteq Link /\ kept \subseteq Link
  /\ crowded \in BOOLEAN /\ late \in BOOLEAN

FolderInit ==
  /\ server \in Servers
  /\ copies = [l \in Link |-> {}]
  /\ others = Other /\ marked = {} /\ theirs = {}
  /\ nextUid = FirstUid
  /\ jobs = [j \in Job |-> Idle]
  /\ faults = Faults
  /\ stored = {} /\ kept = {} /\ crowded = FALSE /\ late = FALSE

\* Between the search for the marks of others and the return of them.
Marking(j) == ~server.uidplus /\ jobs[j].at \in {"lift", "mark", "expunge", "restore"}

Mail == others \cup UNION {copies[l] : l \in Link}

Fault == faults > 0 /\ faults' = faults - 1

-----------------------------------------------------------------------------
Begin(j, op, l) ==
  /\ jobs[j].at = "idle"
  /\ jobs' = [jobs EXCEPT ![j] = Open(op, l)]
  /\ stored' = IF op = "remove" THEN stored \ {l} ELSE stored
  /\ UNCHANGED <<server, copies, others, marked, nextUid, faults, theirs, history>>

\* How DeleteMessages starts.
Deletion(uids) ==
  IF uids = {} THEN "done" ELSE IF server.uidplus THEN "mark" ELSE "search"

\* findDraft
Find(j) ==
  LET found == copies[jobs[j].link]
  IN  /\ jobs[j].at = "find"
      /\ jobs' = [jobs EXCEPT ![j].targets = found,
           ![j].at = IF jobs[j].op = "replace" THEN "append" ELSE Deletion(found)]
      /\ UNCHANGED <<server, copies, others, marked, nextUid, faults, theirs, stored, history>>

Told(uid) == IF server.uidplus THEN uid ELSE 0

Removing(l) == \E k \in Job : jobs[k].op = "remove" /\ jobs[k].link = l /\ jobs[k].at # "idle"

AppendCopy(j) ==
  LET l == jobs[j].link
  IN  /\ jobs[j].at = "append"
      /\ IF server.oneCopy /\ copies[l] # {}
           THEN /\ \E uid \in copies[l] :
                     jobs' = [jobs EXCEPT ![j].at = "look", ![j].new = Told(uid)]
                /\ UNCHANGED <<copies, nextUid, stored>>
           ELSE /\ jobs' = [jobs EXCEPT ![j].at = "look", ![j].new = Told(nextUid)]
                /\ copies' = [copies EXCEPT ![l] = @ \cup {nextUid}]
                /\ nextUid' = nextUid + 1
                /\ stored' = IF Removing(l) THEN stored ELSE stored \cup {l}
      /\ UNCHANGED <<server, others, marked, faults, theirs, history>>

\* The earlier ones go in any case.
AnyCopy(j) == TRUE

\* ReplaceDraft once the new copy is in: the earlier ones go when the new one
\* is known not to be one of them.
DistinctCopy(j) ==
  IF jobs[j].new # 0 THEN jobs[j].new \notin jobs[j].targets
                     ELSE ~(copies[jobs[j].link] \subseteq jobs[j].targets)

Look(j) ==
  /\ jobs[j].at = "look"
  /\ jobs' = [jobs EXCEPT ![j].at = IF DistinctCopy(j) THEN Deletion(jobs[j].targets) ELSE "done"]
  /\ UNCHANGED <<server, copies, others, marked, nextUid, faults, theirs, stored, history>>

-----------------------------------------------------------------------------
(* DeleteMessages *)

\* A plain EXPUNGE after a search that looks at the drafts only.
SearchNothing(j) ==
  /\ jobs[j].at = "search"
  /\ jobs' = [jobs EXCEPT ![j].at = "mark"]
  /\ crowded' = (crowded \/ \E k \in Job \ {j} : Marking(k))
  /\ UNCHANGED <<server, copies, others, marked, nextUid, faults, theirs, stored, kept, late>>

\* searchDeleted and foreignDeleted
Search(j) ==
  LET foreign == (marked \cap Mail) \ jobs[j].targets
  IN  /\ jobs[j].at = "search"
      /\ jobs' = [jobs EXCEPT ![j].foreign = foreign,
                              ![j].at = IF foreign = {} THEN "mark" ELSE "lift"]
      /\ crowded' = (crowded \/ \E k \in Job \ {j} : Marking(k))
      /\ UNCHANGED <<server, copies, others, marked, nextUid, faults, theirs, stored, kept, late>>

Lift(j) ==
  /\ jobs[j].at = "lift"
  /\ marked' = marked \ jobs[j].foreign
  /\ jobs' = [jobs EXCEPT ![j].at = "mark"]
  /\ UNCHANGED <<server, copies, others, nextUid, faults, theirs, stored, history>>

\* markDeleted
Mark(j) ==
  /\ jobs[j].at = "mark"
  /\ marked' = marked \cup (jobs[j].targets \cap Mail)
  /\ jobs' = [jobs EXCEPT ![j].at = "expunge"]
  /\ UNCHANGED <<server, copies, others, nextUid, faults, theirs, stored, history>>

\* UID EXPUNGE, or expungeAll.
Expunge(j) ==
  LET gone == IF server.uidplus THEN marked \cap jobs[j].targets ELSE marked
  IN  /\ jobs[j].at = "expunge"
      /\ copies' = [l \in Link |-> copies[l] \ gone]
      /\ others' = others \ gone
      /\ marked' = marked \ gone
      /\ jobs' = [jobs EXCEPT ![j].at = IF jobs[j].foreign = {} THEN "done" ELSE "restore"]
      /\ UNCHANGED <<server, nextUid, faults, theirs, stored, history>>

Restore(j) ==
  /\ jobs[j].at = "restore"
  /\ marked' = marked \cup (jobs[j].foreign \cap Mail)
  /\ jobs' = [jobs EXCEPT ![j].at = "done"]
  /\ UNCHANGED <<server, copies, others, nextUid, faults, theirs, stored, history>>

Removals(js) ==
  {jobs[j].link : j \in {k \in js : jobs[k].op = "remove" /\ jobs[k].at \notin {"idle", "done"}}}

\* The connection breaks, or the server refuses; the marks go back on when it
\* only refused.
Break(j) ==
  /\ jobs[j].at \notin {"idle", "done"}
  /\ Fault
  /\ \/ jobs' = [jobs EXCEPT ![j].at = "done", ![j].failed = TRUE]
     \/ /\ jobs[j].at \in {"mark", "expunge"} /\ jobs[j].foreign # {}
        /\ jobs' = [jobs EXCEPT ![j].at = "restore", ![j].failed = TRUE]
  /\ kept' = kept \cup Removals({j})
  /\ UNCHANGED <<server, copies, others, marked, nextUid, theirs, stored, crowded, late>>

\* The caller has what it wanted to know.
Free(j) ==
  /\ jobs[j].at = "done"
  /\ jobs' = [jobs EXCEPT ![j] = Idle]
  /\ UNCHANGED <<server, copies, others, marked, nextUid, faults, theirs, stored, history>>

Command(j) == Find(j) \/ AppendCopy(j) \/ Look(j) \/ Search(j) \/ Lift(j) \/ Mark(j)
                \/ Expunge(j) \/ Restore(j)

\* Another client marks a message, to expunge it some other time.
MarkElsewhere(u) ==
  /\ Cardinality(theirs) < Marks
  /\ u \in others \ theirs
  /\ marked' = marked \cup {u} /\ theirs' = theirs \cup {u}
  /\ late' = (late \/ \E j \in Job : Marking(j))
  /\ UNCHANGED <<server, copies, others, nextUid, jobs, faults, stored, kept, crowded>>

\* Pelton quits, and its sessions with it.
Quit ==
  /\ Fault
  /\ jobs' = [j \in Job |-> Idle]
  /\ kept' = kept \cup Removals(Job)
  /\ UNCHANGED <<server, copies, others, marked, nextUid, theirs, stored, crowded, late>>

FolderNext ==
  \/ \E j \in Job :
       \/ \E op \in {"replace", "remove"}, l \in Link : Begin(j, op, l)
       \/ Command(j) \/ Break(j) \/ Free(j)
  \/ \E u \in Other : MarkElsewhere(u)
  \/ Quit

FolderSpec == FolderInit /\ [][FolderNext]_folderVars

-----------------------------------------------------------------------------
(* "A failure part way through leaves a duplicate, never no draft at all"   *)
(* (ReplaceDraft): however many saves of one draft overlap and wherever     *)
(* they break, a draft that was put on the server and that no one asked to  *)
(* remove since has a copy there.                                           *)
NeverNoDraft == \A l \in stored : copies[l] # {}

(* DeleteMessages deletes "only those" it was asked to: what another client *)
(* has merely marked stays, and is still marked when nothing failed; but    *)
(* for a mark set between the search and a plain EXPUNGE, and for two       *)
(* deletions that overlap.                                                  *)
OnlyThose ==
  ~crowded /\ ~late =>
    /\ others = Other
    /\ faults = Faults /\ ~(\E j \in Job : Marking(j)) => theirs \subseteq marked

(* "Deleting one message in Pelton must never take a mail somebody's other  *)
(* client had merely flagged" (DeleteMessages): none that was marked when   *)
(* the deletion looked.                                                     *)
NeverTakesOthers == ~late => others = Other

=============================================================================
