------------------------------ MODULE MemPort ------------------------------
(***************************************************************************)
(* What the memory path promises to a core or an IP: it counts requests.   *)
(* A requester adds one, the memory answers one that is pending, and it    *)
(* never leaves a requester that waits without an answer forever.          *)
(* GemDroidSoC is shown to implement this; GemDroidDevice and              *)
(* GemDroidAccelerator are checked against it in place of the real memory. *)
(***************************************************************************)
EXTENDS Naturals

CONSTANT Requesters
VARIABLE pending

Init == pending = [r \in Requesters |-> 0]

Request(r) == pending' = [pending EXCEPT ![r] = @ + 1]

Respond(r) ==
  /\ pending[r] > 0
  /\ pending' = [pending EXCEPT ![r] = @ - 1]

Next == \E r \in Requesters : Request(r) \/ Respond(r)

Spec == Init /\ [][Next]_pending

Fairness == \A r \in Requesters : WF_pending(Respond(r))

FairSpec == Spec /\ Fairness
=============================================================================
