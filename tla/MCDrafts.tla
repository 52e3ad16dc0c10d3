------------------------------- MODULE MCDrafts -------------------------------
(***************************************************************************)
(* The kinds of server: with UIDPLUS, without it, and one like Gmail.      *)
(***************************************************************************)
EXTENDS Drafts

AllServers == {[uidplus |-> TRUE, oneCopy |-> FALSE], [uidplus |-> FALSE, oneCopy |-> FALSE],
               [uidplus |-> TRUE, oneCopy |-> TRUE]}
Uidplus    == {[uidplus |-> TRUE, oneCopy |-> FALSE]}

=============================================================================
