----------------------------- MODULE MCDelivery -----------------------------
(***************************************************************************)
(* DeliveryService for TLC.  The group log and the two services per user   *)
(* share no state, so that their product shows nothing that they do not    *)
(* show apart: a behaviour serves either the readers of the log or the     *)
(* users of the directory and of the inbox.                                *)
(***************************************************************************)
EXTENDS DeliveryService

VARIABLE part    \* what the behaviour serves

MCInit == Init /\ part \in {"log", "users"}

Served ==
    IF part = "log" THEN UNCHANGED <<directory, welcomes>> ELSE UNCHANGED groupLog

MCNext == Next /\ Served /\ UNCHANGED part

(* The readers of a behaviour that serves the users do not ask. *)
MCSpec == MCInit /\ [][MCNext]_<<vars, part>> /\ (part = "log" => Fairness)
=============================================================================
