--------------------------- MODULE DualUseRatchet ---------------------------
(***************************************************************************)
(* The own ratchet of a virtual client (tree/dual_use_ratchet.rs): several *)
(* emulating clients send from the same leaf, so each must decrypt what a  *)
(* sibling encrypted with the ratchet that it encrypts with itself.  A     *)
(* secret is modelled by its generation.                                   *)
(***************************************************************************)
EXTENDS Integers, FiniteSets

CONSTANTS
    Limit,       \* u32::MAX, which no sender reaches
    Tolerance,   \* out_of_order_tolerance
    Distance     \* maximum_forward_distance

ASSUME DualConstants == Limit \in Nat /\ Tolerance \in Nat /\ Distance \in Nat

VARIABLES
    generation,  \* of ratchet_head
    past,        \* past_secrets: generation to Awaiting, Available or Consumed
    unconfirmed, \* history: generations encrypted here, not confirmed, not received
    opened       \* history: how often a generation was handed out for decryption

dualVars == <<generation, past, unconfirmed, opened>>

DualInit ==
    /\ generation = 0
    /\ past = [g \in {} |-> "Consumed"]
    /\ unconfirmed = {}
    /\ opened = [g \in 0..Limit |-> 0]

With(map, keys, value) ==
    [g \in DOMAIN map \cup keys |-> IF g \in keys THEN value ELSE map[g]]
Without(map, keys) == [g \in DOMAIN map \ keys |-> map[g]]

(* secret_for_encryption: the secret is kept until it is confirmed. *)
SecretForEncryption ==
    /\ generation < Limit
    /\ past' = With(past, {generation}, "Awaiting")
    /\ unconfirmed' = unconfirmed \cup {generation}
    /\ generation' = generation + 1
    /\ UNCHANGED opened

(* delete_secret_for_generation *)
DeleteSecretForGeneration(g) ==
    /\ g < generation
    /\ g \in DOMAIN past /\ past[g] = "Awaiting"
    /\ past' = Without(past, {g})
    /\ unconfirmed' = unconfirmed \ {g}
    /\ UNCHANGED <<generation, opened>>

Retained(map) == {g \in DOMAIN map : map[g] # "Awaiting"}

(* Mutant of Prune: unconfirmed secrets are counted and dropped as well. *)
PruneAll(map) ==
    Without(map, {g \in DOMAIN map : Cardinality({h \in DOMAIN map : h >= g}) > Tolerance})

(* prune_past_secrets: the oldest of those kept for decryption go. *)
Prune(map) ==
    Without(map, {g \in Retained(map) :
                    Cardinality({h \in Retained(map) : h >= g}) > Tolerance})

TooDistant(g) == generation < Limit - Distance /\ g > generation + Distance

HandOutOwn(g) ==
    /\ opened' = [opened EXCEPT ![g] = @ + 1]
    /\ unconfirmed' = unconfirmed \ {g}

(* secret_for_decryption of a generation ahead: the skipped ones are kept. *)
DecryptAheadOwn(g) ==
    /\ ~TooDistant(g)
    /\ g >= generation /\ g < Limit
    /\ past' = Prune(With(With(past, generation..g - 1, "Available"), {g}, "Consumed"))
    /\ generation' = g + 1
    /\ HandOutOwn(g)

(* ... and of one behind: take_for_decryption leaves Consumed.  A missing   *)
(* entry and a consumed one are errors that change nothing.                 *)
DecryptPast(g) ==
    /\ ~TooDistant(g)
    /\ g < generation
    /\ g \in DOMAIN past /\ past[g] # "Consumed"
    /\ past' = Prune(With(past, {g}, "Consumed"))
    /\ HandOutOwn(g)
    /\ UNCHANGED generation

DualNext ==
    \/ SecretForEncryption
    \/ \E g \in 0..Limit : DeleteSecretForGeneration(g) \/ DecryptAheadOwn(g) \/ DecryptPast(g)

DualSpec == DualInit /\ [][DualNext]_dualVars
-----------------------------------------------------------------------------
(* A secret is handed out for decryption once; a secret used to encrypt     *)
(* stays until it is confirmed or its message has come back, however far    *)
(* the window of received messages has moved meanwhile.                     *)
OwnSecretsKept ==
    /\ \A g \in 0..Limit : opened[g] <= 1
    /\ \A g \in unconfirmed : g \in DOMAIN past /\ past[g] = "Awaiting"
    /\ Cardinality(Retained(past)) <= Tolerance
=============================================================================
