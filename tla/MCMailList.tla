------------------------------ MODULE MCMailList ------------------------------
(***************************************************************************)
(* One folder with one message cached, less than a page, and two older ones *)
(* on the server.                                                          *)
(***************************************************************************)
EXTENDS MailList

InOneFolder == [place \in Place |-> Id]
NoMatches   == [query \in Query |-> {}]

=============================================================================
