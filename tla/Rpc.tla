-------------------------------- MODULE Rpc --------------------------------
(***************************************************************************)
(* What the bridge of the React Native package promises: a call is executed*)
(* at most once, and its promise settles at most once, with the outcome of *)
(* its own execution.                                                      *)
(***************************************************************************)
EXTENDS Naturals

CONSTANTS Calls, Outcomes

VARIABLES
    issued,     \* calls made
    outcome,    \* [c |-> outcome] of the calls executed
    settled     \* [c |-> outcome] of the promises settled

rpcVars == <<issued, outcome, settled>>

Extend(f, c, v) == [x \in DOMAIN f \cup {c} |-> IF x = c THEN v ELSE f[x]]

RpcInit == issued = {} /\ outcome = <<>> /\ settled = <<>>

Issue(c) ==
    /\ c \notin issued
    /\ issued' = issued \cup {c}
    /\ UNCHANGED <<outcome, settled>>

Execute(c) ==
    /\ c \in issued \ DOMAIN outcome
    /\ DOMAIN outcome' = DOMAIN outcome \cup {c} /\ outcome'[c] \in Outcomes
    /\ \A x \in DOMAIN outcome : outcome'[x] = outcome[x]
    /\ UNCHANGED <<issued, settled>>

Settle(c) ==
    /\ c \in DOMAIN outcome \ DOMAIN settled
    /\ settled' = Extend(settled, c, outcome[c])
    /\ UNCHANGED <<issued, outcome>>

RpcNext == \E c \in Calls : Issue(c) \/ Execute(c) \/ Settle(c)

RpcSpec == RpcInit /\ [][RpcNext]_rpcVars
=============================================================================
