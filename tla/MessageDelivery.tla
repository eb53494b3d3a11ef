-------------------------- MODULE MessageDelivery ---------------------------
(***************************************************************************)
(* What a session promises for the messages sent to it, whatever requests, *)
(* goroutines and crashes are behind it:                                   *)
(*                                                                         *)
(*   new       not accepted yet                                            *)
(*   waiting   in the queue; it can still be withdrawn                     *)
(*   taken     part of the conversation, about to be given to the agent    *)
(*   answered  given to the agent                                          *)
(*   dropped   refused or withdrawn                                        *)
(*                                                                         *)
(* A message is given to the agent once, after it was taken; only a message*)
(* that still waits can be withdrawn; answered and dropped are final.      *)
(***************************************************************************)
CONSTANTS Msgs

VARIABLE status

Stages == {"new", "waiting", "taken", "answered", "dropped"}

\* A group of messages moves on together: merged messages share their fate.
Move(from, to) ==
  \E group \in (SUBSET Msgs) \ {{}} :
    /\ \A m \in group : status[m] = from
    /\ status' = [m \in Msgs |-> IF m \in group THEN to ELSE status[m]]

Queue == Move("new", "waiting")
Start == Move("new", "taken")
Refuse == Move("new", "dropped")
Take == Move("waiting", "taken")
Return == Move("taken", "waiting")
Answer == Move("taken", "answered")
Withdraw == Move("waiting", "dropped")

DeliveryInit == status = [m \in Msgs |-> "new"]

DeliveryNext == Queue \/ Start \/ Refuse \/ Take \/ Return \/ Answer \/ Withdraw

DeliverySpec == DeliveryInit /\ [][DeliveryNext]_status
=============================================================================
