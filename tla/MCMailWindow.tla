----------------------------- MODULE MCMailWindow -----------------------------
(***************************************************************************)
(* A folder of two pages and a unified view that shares a message with it, *)
(* one message to arrive and one only the server has.                      *)
(***************************************************************************)
EXTENDS MailWindow

CONSTANTS inbox, flagged

InboxAndFlagged == [place \in Place |-> IF place = inbox THEN 1..5 ELSE {3}]
MatchesOlder    == [query \in Query |-> {2, 3, 4}]

\* The sequences of MailList against those of the standard modules, on every
\* list of up to four rows, with and without repetitions.
ASSUME
  /\ \A ms \in SUBSET (1..5) : NewestFirst(ms) = SetToSortSeq(ms, >)
  /\ \A rows \in BoundedSeq(1..4, 4) :
       /\ Sorted(rows) = SortSeq(rows, >)
       /\ \A ms \in SUBSET (1..4) : Keep(rows, ms) = SelectSeq(rows, LAMBDA m : m \in ms)

=============================================================================
