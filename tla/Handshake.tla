----------------------------- MODULE Handshake ------------------------------
(***************************************************************************)
(* What the three-way handshake of a call promises, whatever the network   *)
(* does: the callee talks only with a caller that took its answer, and the *)
(* caller takes only an answer that was given.  Either side may be slow,   *)
(* and the callee's talk may end at any time.                              *)
(***************************************************************************)
VARIABLES
    offered,  \* the callee has answered
    taken,    \* the caller has taken the answer
    talking   \* the callee knows that, and the call is up

vars == <<offered, taken, talking>>

Init == offered = FALSE /\ taken = FALSE /\ talking = FALSE

Offer == ~offered /\ offered' = TRUE /\ UNCHANGED <<taken, talking>>
Take == offered /\ ~taken /\ taken' = TRUE /\ UNCHANGED <<offered, talking>>
Begin == taken /\ ~talking /\ talking' = TRUE /\ UNCHANGED <<offered, taken>>
Finish == talking /\ talking' = FALSE /\ UNCHANGED <<offered, taken>>

Next == Offer \/ Take \/ Begin \/ Finish

Spec == Init /\ [][Next]_vars
=============================================================================
