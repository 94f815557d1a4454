-------------------------------- MODULE Pprf --------------------------------
(***************************************************************************)
(* The puncturable pseudorandom function behind safe exported secrets      *)
(* (schedule/pprf, schedule/application_export_tree.rs): a component asks  *)
(* once for the secret of its component id.  A secret is modelled by the   *)
(* bits that lead to it from the application export secret; a prefix is    *)
(* the sequence of its bits.                                               *)
(***************************************************************************)
EXTENDS Integers, Sequences

CONSTANT MaxDepth   \* Prefix::MAX_DEPTH, the bits of a component id

VARIABLES
    pprf,      \* Pprf.nodes: the secrets present, by prefix
    exported   \* history: the secret handed out, by component id

pprfVars == <<pprf, exported>>

Ids == [1..MaxDepth -> {0, 1}]

(* ApplicationExportTree::new *)
PprfInit ==
    /\ pprf = [p \in {<<>>} |-> <<>>]
    /\ exported = [id \in {} |-> <<>>]

(* Prefix::new and push_bit, as the bits of an id down to a depth. *)
Prefix(id, depth) == SubSeq(id, 1, depth)
Copath(id, depth) == Append(Prefix(id, depth - 1), 1 - id[depth])

(* Step 1 of evaluate: the first prefix, from the root, that has a node. *)
FoundDepths(id) == {d \in 0..MaxDepth : Prefix(id, d) \in DOMAIN pprf}
Punctured(id) == FoundDepths(id) = {}
FirstFound(id) == CHOOSE d \in FoundDepths(id) : \A e \in FoundDepths(id) : d <= e

(* Mutant of Evaluate: the node found is read and not removed. *)
EvaluateKeeping(id) ==
    LET d   == FirstFound(id)
        new == {Copath(id, e) : e \in d + 1..MaxDepth}
        top == pprf[Prefix(id, d)]
    IN  [p \in DOMAIN pprf \cup new |->
            IF p \in new THEN top \o SubSeq(p, d + 1, Len(p)) ELSE pprf[p]]

(* Step 2: the node is removed and the siblings of the path below it are    *)
(* derived; what is left of pprf.nodes.                                     *)
Evaluate(id) ==
    LET d   == FirstFound(id)
        new == {Copath(id, e) : e \in d + 1..MaxDepth}
        top == pprf[Prefix(id, d)]
    IN  [p \in (DOMAIN pprf \ {Prefix(id, d)}) \cup new |->
            IF p \in new THEN top \o SubSeq(p, d + 1, Len(p)) ELSE pprf[p]]

(* The secret that evaluate returns. *)
Secret(id) ==
    LET d == FirstFound(id) IN pprf[Prefix(id, d)] \o SubSeq(id, d + 1, MaxDepth)

(* safe_export_secret; PuncturedInput, an error that changes nothing, when  *)
(* no node is left on the path.                                             *)
SafeExportSecret(id) ==
    /\ ~Punctured(id)
    /\ pprf' = Evaluate(id)
    /\ exported' = [i \in DOMAIN exported \cup {id} |->
                      IF i = id THEN Secret(id) ELSE exported[i]]

PprfNext == \E id \in Ids : SafeExportSecret(id)

PprfSpec == PprfInit /\ [][PprfNext]_pprfVars
-----------------------------------------------------------------------------
(* A component gets the secret of its own id, whichever were asked for      *)
(* before; once it has it, no node is left from which it can be derived     *)
(* again, and the secrets of all others still can be.                       *)
ExportedOnce ==
    \A id \in Ids :
      IF id \in DOMAIN exported
      THEN exported[id] = id /\ Punctured(id)
      ELSE \E d \in 0..MaxDepth : FoundDepths(id) = {d}
=============================================================================
