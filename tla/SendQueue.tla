------------------------------- MODULE SendQueue -------------------------------
(***************************************************************************)
(* What the outbox promises of the messages the user pressed send on       *)
(* ("nothing is sent inline, nothing is lost", outbox/outbox.go): each is  *)
(* waiting, or with its recipients, or refused with the user told, or the  *)
(* user took it back, and one taken back is not sent afterwards.           *)
(***************************************************************************)
CONSTANT Msg

VARIABLE status

Status == {"unsent", "waiting", "delivered", "refused", "withdrawn"}

Init == status = [m \in Msg |-> "unsent"]

Move(m, from, to) ==
  /\ status[m] \in from
  /\ status' = [status EXCEPT ![m] = to]

Submit(m)   == Move(m, {"unsent"}, "waiting")
Deliver(m)  == Move(m, {"waiting"}, "delivered")
Refuse(m)   == Move(m, {"waiting"}, "refused")
Resubmit(m) == Move(m, {"refused"}, "waiting")
Withdraw(m) == Move(m, {"waiting", "refused"}, "withdrawn")

Next == \E m \in Msg :
  Submit(m) \/ Deliver(m) \/ Refuse(m) \/ Resubmit(m) \/ Withdraw(m)

Spec == Init /\ [][Next]_status
=============================================================================
