-------------------------------- MODULE Drafts --------------------------------
(***************************************************************************)
(* Drafts from the compose pane to the server: the panes                   *)
(* (frontend/src/stores/compose.ts) and what they save, send and discard   *)
(* (Compose.svelte), the local drafts (desktop/bind_compose.go), and the   *)
(* server's Drafts folder (DraftsFolder).  A pane's saves run one after    *)
(* another; nothing orders them against those of another pane, or against  *)
(* the removals that a save or a deletion leaves running in the background.*)
(***************************************************************************)
EXTENDS DraftsFolder, SequencesExt

CONSTANTS
  NoDraft,
  Patient,  \* the user waits for what is slow; see Calm and OpenDraft
  MaxPanes, \* bound: panes ever opened
  MaxEdits, \* bound: edits of all of them
  Clicks,   \* bound: clicks on save, send, discard, undo and a draft
  Errors    \* bound: local calls that fail

ASSUME DraftsAssumption ==
  /\ Patient \in BOOLEAN
  /\ {MaxPanes, MaxEdits, Clicks, Errors} \subseteq Nat

VARIABLES
  drafts, \* local_drafts, by id
  panes,  \* composeSessions and what each pane has in flight; ids are not reused
  links,  \* Message-IDs that are taken
  edits,  \* contents that were written: a content is its number
  outbox, \* contents that were queued
  left,   \* what is left of the bounds
  made    \* history: the drafts each pane made

local == <<drafts, panes, links, edits, outbox, left, made>>
vars  == <<folderVars, local>>

None == [for |-> "nothing", after |-> 0, step |-> "wait", draftId |-> 0, content |-> 0]

\* run: the save in flight, of the session as it was when it started.
NoRun == [step |-> "none", draftId |-> 0, link |-> NoLink, encrypt |-> FALSE,
          content |-> 0, job |-> NoDraft]

\* saved: the content savedAs stands for, 0 for none; saves: the queue in
\* pending, TRUE for one that closes the pane; wait: a send or a discard.
Pane ==
  [open : BOOLEAN, draftId : Nat, link : Link \cup {NoLink}, encrypt : BOOLEAN,
   content : Nat, saved : Nat, saves : Seq(BOOLEAN),
   run : [step : {"none", "save", "saved", "upload", "remove", "session"},
          draftId : Nat, link : Link \cup {NoLink}, encrypt : BOOLEAN,
          content : Nat, job : Job \cup {NoDraft}],
   wait : [for : {"nothing", "send", "discard"}, after : Nat,
           step : {"wait", "queue", "delete", "close"}, draftId : Nat, content : Nat]]

Draft == [sealed : BOOLEAN, link : Link \cup {NoLink}, content : Nat]

TypeOK ==
  /\ FolderTypeOK
  /\ IsFiniteSet(DOMAIN drafts) /\ DOMAIN drafts \subseteq Nat \ {0}
  /\ \A d \in DOMAIN drafts : drafts[d] \in Draft
  /\ panes \in Seq(Pane) /\ Len(panes) <= MaxPanes
  /\ links \subseteq Link /\ edits \in 0..MaxEdits /\ outbox \subseteq Nat
  /\ left \in [clicks : 0..Clicks, errors : 0..Errors]
  /\ made \in Seq(SUBSET Nat) /\ Len(made) = Len(panes)

Init ==
  /\ FolderInit
  /\ drafts = <<>> /\ panes = <<>> /\ made = <<>>
  /\ links = {} /\ edits = 0 /\ outbox = {}
  /\ left = [clicks |-> Clicks, errors |-> Errors]

NewPane(content, draftId, link, encrypt, saved) ==
  [open |-> TRUE, draftId |-> draftId, link |-> link, encrypt |-> encrypt,
   content |-> content, saved |-> saved, saves |-> <<>>, run |-> NoRun, wait |-> None]

Put(p, pane) == panes' = [panes EXCEPT ![p] = pane]
Add(ps, pane) == panes' = Append(ps, pane) /\ made' = Append(made, {})

Busy(p) == panes[p].saves # <<>> \/ panes[p].wait # None

\* A pane that closes, sends or has a second save waiting is left alone.
Calm(p) ==
  Patient => panes[p].wait = None /\ Len(panes[p].saves) < 2 /\ panes[p].saves # <<TRUE>>

Click == left.clicks > 0 /\ left' = [left EXCEPT !.clicks = @ - 1]
Error == left.errors > 0 /\ left' = [left EXCEPT !.errors = @ - 1]

-----------------------------------------------------------------------------
(* The user *)

Compose ==
  /\ Len(panes) < MaxPanes /\ edits < MaxEdits
  /\ edits' = edits + 1
  /\ Add(panes, NewPane(edits + 1, 0, NoLink, FALSE, 0))
  /\ UNCHANGED <<folderVars, drafts, links, outbox, left>>

Edit(p) ==
  /\ panes[p].open /\ edits < MaxEdits
  /\ Calm(p)
  /\ edits' = edits + 1
  /\ \E encrypt \in BOOLEAN :
       Put(p, [panes[p] EXCEPT !.content = edits + 1, !.encrypt = encrypt])
  /\ UNCHANGED <<folderVars, drafts, links, outbox, left, made>>

\* The button, and the one of the dialog that asks what to do with changes.
ClickSave(p) ==
  /\ Click
  /\ panes[p].open
  /\ Calm(p)
  /\ \E closing \in BOOLEAN :
       /\ closing => panes[p].saved # panes[p].content
       /\ Put(p, [panes[p] EXCEPT !.saves = Append(@, closing)])
  /\ UNCHANGED <<folderVars, drafts, links, edits, outbox, made>>

\* Both wait for what is in flight.  Bound: a pane does one of them at a time.
ClickSendOrDiscard(p) ==
  /\ Click
  /\ panes[p].open /\ panes[p].wait = None
  /\ Calm(p)
  /\ \E for \in {"send", "discard"} :
       Put(p, [panes[p] EXCEPT !.wait = [None EXCEPT !.for = for, !.after = Len(panes[p].saves)]])
  /\ UNCHANGED <<folderVars, drafts, links, edits, outbox, made>>

\* requestClose, when nothing changed since the last save.
Close(p) ==
  /\ panes[p].open /\ panes[p].saved = panes[p].content
  /\ Calm(p)
  /\ Put(p, [panes[p] EXCEPT !.open = FALSE])
  /\ UNCHANGED <<folderVars, drafts, links, edits, outbox, left, made>>

\* bringBack finds the pane of a draft that is open already.
OpenElsewhere(id) == \E p \in DOMAIN panes : panes[p].open /\ panes[p].draftId = id

\* OpenDraft of a message in the Drafts folder, and openDraftSession.
OpenDraft(id) ==
  /\ Click
  /\ Len(panes) < MaxPanes /\ ~OpenElsewhere(id)
  /\ drafts[id].link # NoLink /\ copies[drafts[id].link] # {}
  /\ Patient => \A p \in DOMAIN panes :
                  Busy(p) => id \notin {panes[p].draftId, panes[p].run.draftId}
  /\ LET d == drafts[id]
     IN  Add(panes, NewPane(d.content, id, d.link, d.sealed, d.content))
  /\ UNCHANGED <<folderVars, drafts, links, edits, outbox>>

\* A send that is undone in time, and reopenSession.
UndoSend ==
  /\ Click
  /\ Len(panes) < MaxPanes
  /\ \E content \in outbox, p \in DOMAIN panes :
       /\ panes[p].content = content /\ ~panes[p].open
       /\ outbox' = outbox \ {content}
       /\ Add(panes, NewPane(content, 0, NoLink, panes[p].encrypt, 0))
  /\ UNCHANGED <<folderVars, drafts, links, edits>>

-----------------------------------------------------------------------------
(* Saving *)

\* The session as the pane was opened: the draft it has made since is not known.
StartSaveOfNew(p) ==
  /\ panes[p].run.step = "none" /\ panes[p].saves # <<>>
  /\ LET now == panes[p]
     IN  Put(p, [now EXCEPT !.run = [step |-> "save", draftId |-> 0,
           link |-> now.link, encrypt |-> now.encrypt, content |-> now.content,
           job |-> NoDraft]])
  /\ UNCHANGED <<folderVars, drafts, links, edits, outbox, left, made>>

\* getSession(id) ?? session
StartSave(p) ==
  /\ panes[p].run.step = "none" /\ panes[p].saves # <<>>
  /\ LET now == panes[p]
     IN  Put(p, [now EXCEPT !.run = [step |-> "save", draftId |-> now.draftId,
           link |-> now.link, encrypt |-> now.encrypt, content |-> now.content,
           job |-> NoDraft]])
  /\ UNCHANGED <<folderVars, drafts, links, edits, outbox, left, made>>

\* Nobody hears of the end.
EndedUnheard(pane) == [pane EXCEPT !.run = NoRun, !.saves = Tail(@)]

Ended(pane) ==
  [pane EXCEPT !.run = NoRun, !.saves = Tail(@),
               !.wait.after = IF @ = 0 THEN 0 ELSE @ - 1]

SaveFails(p) ==
  /\ panes[p].run.step = "save"
  /\ \/ Error
     \/ panes[p].run.draftId \notin {0} \cup DOMAIN drafts /\ UNCHANGED left
  /\ Put(p, Ended(panes[p]))
  /\ UNCHANGED <<folderVars, drafts, links, edits, outbox, made>>

\* Off by one.
HighestDraftId == Max({0} \cup DOMAIN drafts)

NextDraftId == 1 + Max({0} \cup DOMAIN drafts)

\* A new Message-ID.  Bound: there are as many as Link has.
FreshLinks == IF links = Link THEN {} ELSE {CHOOSE l \in Link \ links : TRUE}

\* The link of a sealed draft is the one its pane knows.
LinkOfPane(id, run) ==
  IF run.encrypt THEN {run.link}
  ELSE IF id \in DOMAIN drafts /\ drafts[id].link # NoLink THEN {drafts[id].link}
  ELSE IF run.link # NoLink THEN {run.link}
  ELSE FreshLinks

\* The Message-ID a save is stored under: the one the draft has, or else the one
\* the pane knows, or else a new one unless the draft is sealed.
LinkFor(id, run) ==
  IF id \in DOMAIN drafts /\ drafts[id].link # NoLink THEN {drafts[id].link}
  ELSE IF run.link # NoLink \/ run.encrypt THEN {run.link}
  ELSE FreshLinks

\* Bound: a session that finds no free slot waits for one.
FreeSlots == {j \in Job : jobs[j].at = "idle"}
Slot      == CHOOSE j \in FreeSlots : TRUE

\* A removal that nobody waits for, when there is something to remove.
RemoveInBackground(link) ==
  IF link = NoLink THEN UNCHANGED folderVars
                   ELSE FreeSlots # {} /\ Begin(Slot, "remove", link)

With(id, d) == [x \in {id} \cup DOMAIN drafts |-> IF x = id THEN d ELSE drafts[x]]

\* SaveDraft, with the removal of the copy a sealed draft had on the server.
SaveDraft(p) ==
  LET run == panes[p].run
      id  == IF run.draftId = 0 THEN NextDraftId ELSE run.draftId
  IN  /\ run.step = "save"
      /\ run.draftId \in {0} \cup DOMAIN drafts
      /\ \E link \in LinkFor(id, run) :
           /\ drafts' = With(id, [sealed |-> run.encrypt, link |-> link,
                                  content |-> run.content])
           /\ links' = links \cup ({link} \ {NoLink})
           /\ RemoveInBackground(IF run.encrypt THEN link ELSE NoLink)
      /\ made' = IF run.draftId = 0 THEN [made EXCEPT ![p] = @ \cup {id}] ELSE made
      /\ Put(p, [panes[p] EXCEPT !.run.step = "saved", !.run.draftId = id])
      /\ UNCHANGED <<edits, outbox, left>>

\* The pane is taken to be saved as it is now.
SavedAsItIs(p) ==
  LET now  == panes[p]
      open == now.open /\ ~Head(now.saves)
      told == [now EXCEPT !.open = open, !.saved = now.content,
                          !.draftId = IF open THEN now.run.draftId ELSE @]
  IN  /\ now.run.step = "saved"
      /\ Put(p, IF ~now.run.encrypt THEN [told EXCEPT !.run.step = "upload"]
                ELSE IF now.run.link # NoLink THEN [told EXCEPT !.run.step = "remove"]
                ELSE Ended(told))
      /\ UNCHANGED <<folderVars, drafts, links, edits, outbox, left, made>>

\* The rest of save, up to the first thing upload waits for.  The update of a
\* pane that closes in the same breath, or is closed, reaches nobody.
Saved(p) ==
  LET now  == panes[p]
      open == now.open /\ ~Head(now.saves)
      told == [now EXCEPT !.open = open, !.saved = now.run.content,
                          !.draftId = IF open THEN now.run.draftId ELSE @]
  IN  /\ now.run.step = "saved"
      /\ Put(p, IF ~now.run.encrypt THEN [told EXCEPT !.run.step = "upload"]
                ELSE IF now.run.link # NoLink THEN [told EXCEPT !.run.step = "remove"]
                ELSE Ended(told))
      /\ UNCHANGED <<folderVars, drafts, links, edits, outbox, left, made>>

\* UploadDraft and RemoveServerDraft, up to their session.
Await(p, op, link) ==
  /\ FreeSlots # {} /\ Begin(Slot, op, link)
  /\ Put(p, [panes[p] EXCEPT !.run.step = "session", !.run.job = Slot])
  /\ UNCHANGED <<drafts, links, edits, outbox, left, made>>

Uploadable(id) == id \in DOMAIN drafts /\ ~drafts[id].sealed

UploadDraft(p) ==
  LET id == panes[p].run.draftId
  IN  /\ panes[p].run.step = "upload" /\ Uploadable(id)
      /\ Await(p, "replace", drafts[id].link)

RemoveServerDraft(p) ==
  panes[p].run.step = "remove" /\ Await(p, "remove", panes[p].run.link)

\* restoreSession: a draft whose upload failed comes back when its pane is gone.
UploadFailed(p) ==
  LET run == panes[p].run
      ps  == [panes EXCEPT ![p] = Ended(panes[p])]
  IN  IF panes[p].open \/ OpenElsewhere(run.draftId) \/ Len(panes) = MaxPanes
        THEN panes' = ps /\ UNCHANGED made
        ELSE Add(ps, NewPane(run.content, run.draftId, run.link, run.encrypt, run.content))

NothingToUpload(p) ==
  /\ panes[p].run.step = "upload" /\ ~Uploadable(panes[p].run.draftId)
  /\ UploadFailed(p)
  /\ UNCHANGED <<folderVars, drafts, links, edits, outbox, left>>

\* The end of upload.
Uploaded(p) ==
  LET run == panes[p].run
      job == jobs[run.job]
      link == IF job.op = "replace" THEN job.link ELSE NoLink
  IN  /\ run.step = "session" /\ Free(run.job)
      /\ IF job.failed /\ job.op = "replace" THEN UploadFailed(p)
         ELSE /\ Put(p, Ended(IF job.failed \/ ~panes[p].open THEN panes[p]
                              ELSE [panes[p] EXCEPT !.link = link]))
              /\ UNCHANGED made
      /\ UNCHANGED <<drafts, links, edits, outbox, left>>

-----------------------------------------------------------------------------
(* Sending and discarding *)

\* Without the wait for the saves in flight.
SettledAtOnce(p) ==
  LET now == panes[p]
  IN  /\ now.wait # None /\ now.wait.step = "wait"
      /\ Put(p, IF now.wait.for = "discard" THEN [now EXCEPT !.open = FALSE, !.wait = None]
                ELSE [now EXCEPT !.wait.step = "queue", !.wait.draftId = now.draftId,
                                 !.wait.content = now.content])
      /\ UNCHANGED <<folderVars, drafts, links, edits, outbox, left, made>>

\* settled
Settled(p) ==
  LET now == panes[p]
  IN  /\ now.wait # None /\ now.wait.step = "wait" /\ now.wait.after = 0
      /\ Put(p, IF now.wait.for = "discard" THEN [now EXCEPT !.open = FALSE, !.wait = None]
                ELSE [now EXCEPT !.wait.step = "queue", !.wait.draftId = now.draftId,
                                 !.wait.content = now.content])
      /\ UNCHANGED <<folderVars, drafts, links, edits, outbox, left, made>>

\* An error on the way leaves the pane open.
SendFails(p) ==
  /\ panes[p].wait.step \in {"queue", "delete"}
  /\ Error
  /\ Put(p, [panes[p] EXCEPT !.wait = None])
  /\ UNCHANGED <<folderVars, drafts, links, edits, outbox, made>>

SendMessage(p) ==
  /\ panes[p].wait.step = "queue"
  /\ outbox' = outbox \cup {panes[p].wait.content}
  /\ Put(p, [panes[p] EXCEPT !.wait.step = IF panes[p].wait.draftId = 0 THEN "close" ELSE "delete"])
  /\ UNCHANGED <<folderVars, drafts, links, edits, left, made>>

DeleteDraft(p) ==
  LET id == panes[p].wait.draftId
  IN  /\ panes[p].wait.step = "delete"
      /\ drafts' = Restrict(drafts, DOMAIN drafts \ {id})
      /\ RemoveInBackground(IF id \in DOMAIN drafts THEN drafts[id].link ELSE NoLink)
      /\ Put(p, [panes[p] EXCEPT !.wait.step = "close"])
      /\ UNCHANGED <<links, edits, outbox, left, made>>

CloseSent(p) ==
  /\ panes[p].wait.step = "close"
  /\ Put(p, [panes[p] EXCEPT !.open = FALSE, !.wait = None])
  /\ UNCHANGED <<folderVars, drafts, links, edits, outbox, left, made>>

-----------------------------------------------------------------------------
(* The sessions, the other client, and the end of the program *)

Owned(j) == \E p \in DOMAIN panes : panes[p].run.job = j

Mailbox ==
  /\ \/ \E j \in Job : Command(j) \/ Break(j) \/ (~Owned(j) /\ Free(j))
     \/ \E u \in Other : MarkElsewhere(u)
  /\ UNCHANGED local

Exit ==
  /\ Quit
  /\ panes' = [p \in DOMAIN panes |->
       [panes[p] EXCEPT !.open = FALSE, !.saves = <<>>, !.run = NoRun, !.wait = None]]
  /\ UNCHANGED <<drafts, links, edits, outbox, left, made>>

User ==
  \/ Compose \/ UndoSend
  \/ \E id \in DOMAIN drafts : OpenDraft(id)
  \/ \E p \in DOMAIN panes : Edit(p) \/ ClickSave(p) \/ ClickSendOrDiscard(p) \/ Close(p)

Saving(p) == StartSave(p) \/ SaveFails(p) \/ SaveDraft(p) \/ Saved(p) \/ UploadDraft(p)
               \/ NothingToUpload(p) \/ RemoveServerDraft(p) \/ Uploaded(p)

Sending(p) == Settled(p) \/ SendFails(p) \/ SendMessage(p) \/ DeleteDraft(p) \/ CloseSent(p)

Next == User \/ Mailbox \/ Exit \/ \E p \in DOMAIN panes : Saving(p) \/ Sending(p)

Spec == Init /\ [][Next]_vars

\* Some session or some pane that can go on does.
FairSpec ==
  /\ Spec
  /\ WF_vars((\E j \in Job : Command(j) \/ (~Owned(j) /\ Free(j))) /\ UNCHANGED local)
  /\ WF_vars(\E p \in DOMAIN panes : Saving(p) \/ Sending(p))

-----------------------------------------------------------------------------
Quiet ==
  /\ \A j \in Job : jobs[j].at = "idle"
  /\ \A p \in DOMAIN panes : ~Busy(p)

Undisturbed == faults = Faults /\ left.errors = Errors

(* "A draft now sealed must leave no plaintext copy on the server"          *)
(* (SaveDraft), once everything that was to be done is done and no removal  *)
(* has failed.                                                              *)
SealedLeavesNoPlaintext ==
  Quiet =>
    \A d \in DOMAIN drafts :
      drafts[d].sealed /\ drafts[d].link \in Link \ kept => copies[drafts[d].link] = {}

(* Every copy on the server is one of a local draft that is not sealed:     *)
(* encrypting, sending and deleting leave nothing behind unless the removal *)
(* fails, also when the pane never learned of the copy because the answer   *)
(* to its upload was lost; but for two deletions that overlap and lift each *)
(* other's marks.                                                           *)
NoStrayCopy ==
  Quiet /\ ~crowded =>
    \A l \in Link \ kept : copies[l] # {} =>
      \E d \in DOMAIN drafts : drafts[d].link = l /\ ~drafts[d].sealed

(* A pane that says it has no unsaved changes, and closes without asking,   *)
(* shows what its draft holds.                                              *)
UnchangedIsStored ==
  \A p \in DOMAIN panes :
    panes[p].open /\ ~Busy(p) /\ panes[p].saved = panes[p].content =>
      /\ panes[p].draftId \in DOMAIN drafts
      /\ drafts[panes[p].draftId].content = panes[p].content

(* A save waits for the one before it "so it reads the draft id and         *)
(* Message-ID that save stored rather than making a second copy" (pending): *)
(* a pane makes one draft.                                                  *)
NoSecondCopy == \A p \in DOMAIN made : Cardinality(made[p]) <= 1

(* A message that was queued leaves no draft of itself behind.              *)
SentLeavesNoDraft ==
  Quiet /\ Undisturbed => \A d \in DOMAIN drafts : drafts[d].content \notin outbox

(* The saves of a pane and what waits for them come to an end, however      *)
(* calls and sessions fail.                                                 *)
SavesEnd == []<>(\A p \in DOMAIN panes : ~Busy(p))

=============================================================================
