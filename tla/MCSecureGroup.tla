---------------------------- MODULE MCSecureGroup ----------------------------
(* A group of two, and a third client that is added or joins by itself.     *)
EXTENDS SecureGroup

ExternalPsk(n) == [type |-> "external", usage |-> "none", ref |-> n, nonce |-> TRUE]
ResumedPsk(e)  == [type |-> "resumption", usage |-> "application", ref |-> e, nonce |-> TRUE]

AddC      == Proposal("add", "c", 0, NoPsk, 0)
RemoveB   == Proposal("remove", "nobody", 2, NoPsk, 0)
UsePsk(p) == Proposal("psk", "nobody", 0, p, 0)

MCClients      == {"a", "b", "c"}
MCFounders     == <<"a", "b">>
MCStored       == [c \in MCClients |-> {1, 2}]

Nothing == [own |-> {}, standalone |-> {}, force |-> {FALSE}, signer |-> {FALSE}, external |-> {},
            commits |-> 0, sent |-> 0, damage |-> 0]

(* Messages around a commit; proposals and PSKs; members that come, go and  *)
(* come back; one damaged copy of anything.                                 *)
MCScenarios ==
    {[Nothing EXCEPT !.own = {<<>>, <<RemoveB>>}, !.commits = 1, !.sent = 2, !.damage = 1],
     [Nothing EXCEPT !.own = {<<>>}, !.commits = 2, !.sent = 1],
     [Nothing EXCEPT !.own = {<<UsePsk(ExternalPsk(1))>>}, !.standalone = {UsePsk(ExternalPsk(2))},
                     !.force = BOOLEAN, !.commits = 1, !.sent = 1],
     [Nothing EXCEPT !.own = {<<UsePsk(ResumedPsk(0))>>, <<UsePsk(ResumedPsk(1))>>}, !.commits = 2],
     [Nothing EXCEPT !.own = {<<AddC>>, <<AddC, UsePsk(ExternalPsk(1))>>, <<AddC, UsePsk(ResumedPsk(0))>>},
                     !.force = BOOLEAN, !.commits = 1, !.sent = 1, !.damage = 1],
     [Nothing EXCEPT !.own = {<<AddC>>}, !.signer = BOOLEAN, !.commits = 2],
     [Nothing EXCEPT !.own = {<<>>}, !.external = {<<>>, <<ExternalPsk(1)>>}, !.commits = 2],
     [Nothing EXCEPT !.own = {<<RemoveB>>}, !.external = {<<>>}, !.commits = 3]}
=============================================================================
