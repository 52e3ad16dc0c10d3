------------------------------- MODULE MailList -------------------------------
(***************************************************************************)
(* The middle column (frontend/src/stores/messages.ts) over the local      *)
(* cache it reads: the pages of a folder or view, the pages of a search,   *)
(* and older mail fetched from the server when the cached pages run out.   *)
(* Every read is a call to the backend whose answer comes back later, in   *)
(* any order; what is on screen meanwhile is the list before it.           *)
(*                                                                         *)
(* A message is its position in time: a greater one is newer.              *)
(***************************************************************************)
EXTENDS Integers, SequencesExt

CONSTANTS
  Id,          \* the messages
  Place,       \* the folders and unified views
  Query,       \* what the search bar can hold
  Contents,    \* the messages of each place
  Matches,     \* the messages that match each query
  Old,         \* those only the server has when the app starts
  New,         \* those that have yet to arrive
  Start,       \* the place shown at startup
  NoQuery,     \* the empty search bar
  NoData,      \* the list before its first page and after a failed one
  PageSize,    \* PAGE_SIZE
  SearchPage,  \* searchPageSize
  Backfill,    \* how many older messages one round trip caches
  Steps,       \* bound: what the user and the syncs do
  Failures     \* bound: how many calls fail

ASSUME ListAssumption ==
  /\ Id \subseteq Nat /\ IsFiniteSet(Id)
  /\ Start \in Place /\ NoQuery \notin Query
  /\ Contents \in [Place -> SUBSET Id] /\ Matches \in [Query -> SUBSET Id]
  /\ Old \subseteq Id /\ New \subseteq Id \ Old
  /\ {PageSize, SearchPage, Backfill} \subseteq Nat \ {0}
  /\ Steps \in Nat /\ Failures \in Nat

-----------------------------------------------------------------------------
(* Sequences of rows.  SelectSeq and SortSeq have no definition that the    *)
(* proof system can use: here the row at a place is the one with as many    *)
(* before it.                                                               *)

NewestFirst(ms) ==
  [k \in 1..Cardinality(ms) |->
     CHOOSE m \in ms : Cardinality({n \in ms : n > m}) = k - 1]

\* Array.filter
Keep(rows, ms) ==
  LET kept == {i \in DOMAIN rows : rows[i] \in ms}
  IN  [k \in 1..Cardinality(kept) |->
         rows[CHOOSE i \in kept : Cardinality({j \in kept : j < i}) = k - 1]]

\* Array.sort, newest first and stable
Precedes(rows, j, i) == rows[j] > rows[i] \/ (rows[j] = rows[i] /\ j < i)

Sorted(rows) ==
  [k \in DOMAIN rows |->
     rows[CHOOSE i \in DOMAIN rows : Cardinality({j \in DOMAIN rows : Precedes(rows, j, i)}) = k - 1]]

-----------------------------------------------------------------------------
VARIABLES
  cached,    \* rows of the messages table
  pending,   \* those marked for deletion, which the lists leave out
  expunged,  \* those a sync has removed; the search index may still hold them
  list,      \* the messageList store
  at,        \* currentSelection, currentOffset, currentSearch, loadGeneration
  failed,    \* backfillFailed
  bar,       \* what the sidebar and the search bar say: selection, searchQuery
  calls,     \* calls to the backend that have not come back
  left,      \* what is left of the bounds
  derailed   \* history: a late failure has unlocked the list during a load

backend  == <<cached, pending, expunged>>
listVars == <<backend, list, at, failed, bar, calls, left, derailed>>

Status == {"loading", "ready", "error"}

Data == [items : Seq(Id), total : Nat, searching : BOOLEAN, hits : Nat,
         exhausted : BOOLEAN, hasOlder : BOOLEAN, backfilling : BOOLEAN]

ASSUME NoDataAssumption == NoData \notin Data

\* What a call asks: a list, a search, more of either, older mail and the page
\* it opens up, every id that matches, a deletion and its undo.
Kind == {"list", "search", "more", "searchMore", "older", "olderMore",
         "ids", "delete", "undo"}

Waiting == [state |-> "waiting"]
Failed  == [state |-> "failed"]

Answer == {Waiting, Failed}
   \cup [state : {"done"}, rows : Seq(Id), total : Nat, hasOlder : BOOLEAN]

ListTypeOK ==
  /\ cached \in SUBSET Id /\ pending \in SUBSET cached
  /\ expunged \in SUBSET (Id \ cached)
  /\ list \in [status : Status, data : Data \cup {NoData}]
  /\ list.status = "ready" => list.data # NoData
  /\ at \in [place : Place, offset : Nat, search : Query \cup {NoQuery}, generation : Nat]
  /\ bar \in [place : Place, query : Query \cup {NoQuery}]
  /\ failed \in BOOLEAN /\ derailed \in BOOLEAN
  /\ left \in [steps : 0..Steps, failures : 0..Failures]
  /\ \A c \in calls :
       /\ c.kind \in Kind /\ c.generation \in 0..at.generation
       /\ c.offset \in Nat /\ c.hasOlder \in BOOLEAN /\ c.got \in Answer

\* The generation a load was started in is also the identity of its search.
Call(kind, generation, of, offset) ==
  [kind |-> kind, generation |-> generation, of |-> of, offset |-> offset,
   hasOlder |-> FALSE, got |-> Waiting]

ListInit ==
  /\ cached = Id \ (Old \cup New) /\ pending = {} /\ expunged = {}
  /\ list = [status |-> "loading", data |-> NoData]
  /\ at = [place |-> Start, offset |-> 0, search |-> NoQuery, generation |-> 1]
  /\ failed = FALSE /\ derailed = FALSE
  /\ bar = [place |-> Start, query |-> NoQuery]
  /\ calls = {Call("list", 1, Start, 0)}
  /\ left = [steps |-> Steps, failures |-> Failures]

Step == left.steps > 0 /\ left' = [left EXCEPT !.steps = @ - 1]
Fault == left.failures > 0 /\ left' = [left EXCEPT !.failures = @ - 1]

-----------------------------------------------------------------------------
(* The backend *)

Take(rows, offset, size) == SubSeq(rows, offset + 1, Min({offset + size, Len(rows)}))

Done(rows, total, hasOlder) ==
  [state |-> "done", rows |-> rows, total |-> total, hasOlder |-> hasOlder]

\* QueryMessages: what awaits its expunge is not listed.
Listed(place) == Contents[place] \cap (cached \ pending)

\* What is below the sync window of the place's folders.
Uncached(place) == (Contents[place] \cap Old) \ (cached \cup expunged)

ListPage(place, offset) ==
  LET rows == NewestFirst(Listed(place))
  IN  Done(Take(rows, offset, PageSize), Len(rows), Uncached(place) # {})

\* Ranked hits, less those whose row is gone; a row that awaits its expunge is
\* still a hit.
Hits(query) == NewestFirst(Matches[query] \cap (cached \cup expunged))

SearchHits(query, offset) ==
  LET hits == Hits(query)
  IN  Done(Keep(Take(hits, offset, SearchPage), cached),
           Len(hits), FALSE)

Reply(c, got) == calls' = (calls \ {c}) \cup {[c EXCEPT !.got = got]}

Unanswered(kinds) == {c \in calls : c.kind \in kinds /\ c.got = Waiting}

Read ==
  /\ \/ \E c \in Unanswered({"list", "more", "olderMore"}) :
          Reply(c, ListPage(c.of, c.offset))
     \/ \E c \in Unanswered({"search", "searchMore"}) :
          Reply(c, SearchHits(c.of, c.offset))
  /\ UNCHANGED <<backend, list, at, failed, bar, left, derailed>>

\* FetchOlderMessages: BackfillFolder caches the next older messages.
FetchOlder ==
  \E c \in Unanswered({"older"}) :
    LET batch == ToSet(Take(NewestFirst(Uncached(c.of)), 0, Backfill))
    IN  /\ cached' = cached \cup batch
        /\ Reply(c, Done(<<>>, Cardinality(batch), Uncached(c.of) # batch))
        /\ UNCHANGED <<pending, expunged, list, at, failed, bar, left, derailed>>

\* An account it cannot reach is logged and left out: nothing fetched, nothing
\* older.
FetchOlderUnreachable ==
  \E c \in Unanswered({"older"}) :
    /\ Fault
    /\ Reply(c, Done(<<>>, 0, FALSE))
    /\ UNCHANGED <<backend, list, at, failed, bar, derailed>>

CallFails ==
  \E c \in Unanswered(Kind) :
    /\ Fault
    /\ Reply(c, Failed)
    /\ UNCHANGED <<backend, list, at, failed, bar, derailed>>

\* A sync stores a new message; the frontend is told when it is done.
Arrive(m) ==
  /\ Step
  /\ m \in New \ (cached \cup expunged)
  /\ cached' = cached \cup {m}
  /\ UNCHANGED <<pending, expunged, list, at, failed, bar, calls, derailed>>

\* A sync drops a message: one awaiting its expunge, or gone from the server.
Drop(m) ==
  /\ Step
  /\ m \in cached
  /\ cached' = cached \ {m} /\ pending' = pending \ {m}
  /\ expunged' = expunged \cup {m}
  /\ UNCHANGED <<list, at, failed, bar, calls, derailed>>

-----------------------------------------------------------------------------
(* Loading *)

LoadList(place) ==
  LET generation == at.generation + 1
  IN  /\ at' = [place |-> place, offset |-> 0, search |-> NoQuery, generation |-> generation]
      /\ failed' = FALSE /\ derailed' = FALSE
      /\ list' = [list EXCEPT !.status = "loading"]
      /\ calls' = calls \cup {Call("list", generation, place, 0)}

RunSearch(query) ==
  LET generation == at.generation + 1
  IN  /\ at' = [at EXCEPT !.search = query, !.generation = generation]
      /\ list' = [list EXCEPT !.status = "loading"]
      /\ calls' = calls \cup {Call("search", generation, query, 0)}
      /\ derailed' = FALSE
      /\ UNCHANGED failed

\* A click in the sidebar clears the search bar; it reloads the list only when
\* it goes somewhere else.
Choose(place) ==
  /\ Step
  /\ bar' = [place |-> place, query |-> NoQuery]
  /\ IF place # bar.place THEN LoadList(place)
                          ELSE UNCHANGED <<list, at, failed, calls, derailed>>
  /\ UNCHANGED backend

\* applySearch: the search bar or its chips change, or the sort does.
Type(query) ==
  /\ Step
  /\ bar' = [bar EXCEPT !.query = query]
  /\ IF query = NoQuery THEN LoadList(bar.place) ELSE RunSearch(query)
  /\ UNCHANGED backend

\* mail:new, mail:repaired, the end of a manual sync, and the retry button.
Refresh ==
  /\ Step
  /\ LoadList(bar.place)
  /\ UNCHANGED <<backend, bar>>

HasMore ==
  LET data == list.data
  IN  IF data.searching THEN ~data.exhausted /\ data.hits < data.total
                        ELSE Len(data.items) < data.total

Showing == list.status = "ready" /\ ~list.data.backfilling

\* onScroll and loadMore near the bottom, with more of the list cached.
Scroll ==
  /\ Step
  /\ Showing /\ HasMore
  /\ IF list.data.searching
       THEN /\ at.search # NoQuery
            /\ calls' = calls \cup
                 {Call("searchMore", at.generation, at.search, list.data.hits)}
       ELSE calls' = calls \cup
                 {Call("more", at.generation, at.place, at.offset + PageSize)}
  /\ list' = [list EXCEPT !.status = "loading"]
  /\ UNCHANGED <<backend, at, failed, bar, derailed>>

\* loadOlder, reached by scrolling to the end or by its button.
LoadOlder ==
  /\ Step
  /\ Showing /\ ~HasMore /\ ~list.data.searching /\ list.data.hasOlder
  /\ failed' = FALSE
  /\ list' = [list EXCEPT !.data.backfilling = TRUE]
  /\ calls' = calls \cup {Call("older", at.generation, at.place, 0)}
  /\ UNCHANGED <<backend, at, bar, derailed>>

-----------------------------------------------------------------------------
(* Answers *)

Answered(kinds) == {c \in calls : c.kind \in kinds /\ c.got # Waiting}

Current(c) == c.generation = at.generation

Ready(data) == [status |-> "ready", data |-> data]

\* A page that repeats what is on screen, because mail arrived in between.
AppendAll(loaded, page) == loaded \o page

AppendPage(loaded, page) ==
  loaded \o Keep(page, Id \ ToSet(loaded))

FirstPage(c) ==
  [items |-> c.got.rows, total |-> c.got.total, searching |-> c.kind = "search",
   hits |-> IF c.kind = "search" THEN SearchPage ELSE 0, exhausted |-> FALSE,
   hasOlder |-> c.got.hasOlder, backfilling |-> FALSE]

\* Without the generation guard.
ShowFirstPage(c) ==
  /\ list' = IF c.got = Failed THEN [status |-> "error", data |-> NoData]
                               ELSE Ready(FirstPage(c))
  /\ UNCHANGED <<at, failed, derailed>>

\* The end of loadList and runSearch.
FirstPageArrives(c) ==
  /\ list' = IF ~Current(c) THEN list
             ELSE IF c.got = Failed THEN [status |-> "error", data |-> NoData]
             ELSE Ready(FirstPage(c))
  /\ UNCHANGED <<at, failed, derailed>>

\* What is loaded, if anything still is, with a page added.
Extend(c, data) ==
  list' = IF list.data = NoData THEN list
          ELSE Ready([data EXCEPT !.items = AppendPage(@, c.got.rows), !.total = c.got.total])

\* A failed page that leaves the list waiting for it.
MoreArrivesOrHangs(c) ==
  /\ IF Current(c) /\ c.got # Failed
       THEN /\ at' = [at EXCEPT !.offset = c.offset]
            /\ Extend(c, [list.data EXCEPT !.searching = FALSE, !.hasOlder = c.got.hasOlder])
       ELSE UNCHANGED <<at, list>>
  /\ UNCHANGED <<failed, derailed>>

\* The end of loadMore.
MoreArrives(c) ==
  /\ IF ~Current(c) THEN UNCHANGED <<at, list>>
     ELSE IF c.got = Failed
       THEN /\ list' = IF list.data = NoData THEN [list EXCEPT !.status = "error"]
                                             ELSE Ready(list.data)
            /\ UNCHANGED at
       ELSE /\ at' = [at EXCEPT !.offset = c.offset]
            /\ Extend(c, [list.data EXCEPT !.searching = FALSE, !.hasOlder = c.got.hasOlder])
  /\ UNCHANGED <<failed, derailed>>

\* loadMoreSearch: only the success looks whether the search is still shown.
MoreSearchArrives(c) ==
  LET data  == list.data
      shown == data # NoData /\ data.searching /\ at.search # NoQuery /\ Current(c)
  IN  /\ list' =
           IF c.got = Failed THEN IF data = NoData THEN list ELSE Ready(data)
           ELSE IF ~shown THEN list
           ELSE Ready([data EXCEPT !.items = AppendPage(@, c.got.rows),
                                   !.total = c.got.total,
                                   !.hits = c.offset + SearchPage,
                                   !.exhausted = c.got.rows = <<>>])
      /\ derailed' = (derailed \/ (c.got = Failed /\ ~Current(c) /\ list.status = "loading"))
      /\ UNCHANGED <<at, failed>>

Backfilled(data, hasOlder) == [data EXCEPT !.backfilling = FALSE, !.hasOlder = hasOlder]

NotBackfilled ==
  /\ failed' = TRUE
  /\ list' = IF list.data = NoData THEN list
                                   ELSE Ready([list.data EXCEPT !.backfilling = FALSE])
  /\ UNCHANGED at

\* The two halves of loadOlder: what was fetched, and the page it is on.
OlderArrives(c) ==
  LET page == [Call("olderMore", c.generation, c.of, at.offset + PageSize)
                 EXCEPT !.hasOlder = c.got.hasOlder]
  IN  /\ IF ~Current(c) THEN calls' = calls \ {c} /\ UNCHANGED <<list, at, failed>>
         ELSE IF c.got = Failed THEN calls' = calls \ {c} /\ NotBackfilled
         ELSE IF c.got.total = 0
           THEN /\ calls' = calls \ {c}
                /\ list' = IF list.data = NoData THEN list
                           ELSE Ready(Backfilled(list.data, c.got.hasOlder))
                /\ UNCHANGED <<at, failed>>
           ELSE calls' = (calls \ {c}) \cup {page} /\ UNCHANGED <<list, at, failed>>
      /\ UNCHANGED derailed

OlderPageArrives(c) ==
  /\ IF ~Current(c) THEN UNCHANGED <<list, at, failed>>
     ELSE IF c.got = Failed THEN NotBackfilled
     ELSE /\ at' = [at EXCEPT !.offset = c.offset]
          /\ Extend(c, Backfilled(list.data, c.hasOlder))
          /\ UNCHANGED failed
  /\ UNCHANGED derailed

Deliver ==
  /\ \/ \E c \in Answered({"list", "search"}) : calls' = calls \ {c} /\ FirstPageArrives(c)
     \/ \E c \in Answered({"more"}) : calls' = calls \ {c} /\ MoreArrives(c)
     \/ \E c \in Answered({"searchMore"}) : calls' = calls \ {c} /\ MoreSearchArrives(c)
     \/ \E c \in Answered({"older"}) : OlderArrives(c)
     \/ \E c \in Answered({"olderMore"}) : calls' = calls \ {c} /\ OlderPageArrives(c)
  /\ UNCHANGED <<backend, bar, left>>

-----------------------------------------------------------------------------
Navigate == (\E place \in Place : Choose(place)) \/ (\E query \in Query \cup {NoQuery} : Type(query))

World == Read \/ FetchOlder \/ FetchOlderUnreachable \/ CallFails
           \/ (\E m \in Id : Arrive(m) \/ Drop(m))

ListNext == Navigate \/ Refresh \/ Scroll \/ LoadOlder \/ World \/ Deliver

ListSpec == ListInit /\ [][ListNext]_listVars

Settled == calls = {} /\ list.status = "ready"

(* The newly cached mail "lands at the end of the list; re-read from the    *)
(* current offset" (loadOlder): once a backfill is done, no cached message  *)
(* between two rows on screen is missing.                                   *)
NothingSkipped ==
  Settled /\ ~list.data.searching =>
    \A m \in Listed(at.place) :
      (\E n, o \in ToSet(list.data.items) : n < m /\ m < o) => m \in ToSet(list.data.items)

=============================================================================
