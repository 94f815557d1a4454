----------------------------- MODULE KeySchedule -----------------------------
(***************************************************************************)
(* The key schedule of openmls (schedule/mod.rs, schedule/psk.rs) over     *)
(* symbolic secrets.  A secret is a term: the operation that produced it,  *)
(* a number where one is part of the input, and the terms it was applied   *)
(* to.  Two secrets are equal exactly when they were derived the same way, *)
(* which is what the hash functions of the code provide.                   *)
(***************************************************************************)
EXTENDS Integers, Sequences, SequencesExt

Term(op, n, args) == [op |-> op, n |-> n, args |-> args]

NoTerm  == Term("none", 0, <<>>)
Zero    == Term("zero", 0, <<>>)
Rand(n) == Term("random", n, <<>>)

(* Secret::hkdf_extract: a missing input is the zero secret.               *)
Extract(salt, ikm) == Term("extract", 0, <<salt, IF ikm = NoTerm THEN Zero ELSE ikm>>)

(* Secret::kdf_expand_label and derive_secret (an empty context).          *)
Expand(secret, label, context) == Term(label, 0, <<secret, context>>)
Derive(secret, label)          == Expand(secret, label, NoTerm)

Mac(key, data)  == Term("mac", 0, <<key, data>>)
Public(private) == Term("public", 0, <<private>>)

-----------------------------------------------------------------------------
(* The inputs of an epoch                                                   *)

(* The commit secret is the last path secret; a commit without a path has   *)
(* the zero secret.                                                         *)
CommitSecret(path) == IF path = NoTerm THEN Zero ELSE path

(* The KEM of an external commit: the committer draws a fresh encapsulation *)
(* against the external public key, members recompute it with the private   *)
(* key of their external secret.                                            *)
Encapsulated(pub, kem_output) == Term("kem", kem_output, <<pub>>)
FromGroupContext(external_pub, fresh)      == Encapsulated(external_pub, fresh)
FromKemOutput(external_priv, kem_output)   == Encapsulated(Public(external_priv), kem_output)
ExternalKeyPair(external_secret)           == Derive(external_secret, "keypair")

JoinerSecret(init_secret, commit_secret, context) ==
    Expand(Extract(init_secret, commit_secret), "joiner", context)

-----------------------------------------------------------------------------
(* Pre-shared keys                                                          *)

PskLabel(id, index, count) == [id |-> id, index |-> index, count |-> count]

(* Every PSK is extracted and expanded under its id and its place, and the  *)
(* results are chained.                                                     *)
PskSecret(psks) ==
    FoldLeftDomain(
        LAMBDA acc, i :
            Extract(Expand(Extract(Zero, psks[i].secret), "derived psk",
                           PskLabel(psks[i].id, i - 1, Len(psks))),
                    acc),
        Zero, psks)

(* validate_in_proposal: a resumption PSK is for application use, and the   *)
(* nonce has the length of the hash.                                        *)
ValidPskInProposal(id) ==
    /\ id.type = "resumption" => id.usage = "application"
    /\ id.nonce

(* validate_in_welcome: no resumption PSK of application usage, and at most *)
(* one of the usages reinit and branch.                                     *)
ValidPsksInWelcome(ids) ==
    LET resumed == {i \in DOMAIN ids : ids[i].type = "resumption"} IN
    /\ \A i \in resumed : ids[i].usage \in {"reinit", "branch"}
    /\ \A i, j \in resumed : i = j
    /\ \A i \in DOMAIN ids : ids[i].nonce

(* The rollover list of resumption PSKs.                                    *)
EmptyRing(max) == [max |-> max, keys |-> <<>>, cursor |-> 0]

(* While there is room the item is appended; then the item at the cursor is *)
(* replaced.                                                                *)
RingAdd(ring, epoch, secret) ==
    LET item == [epoch |-> epoch, secret |-> secret]
        next == (ring.cursor + 1) % Len(ring.keys)
    IN  CASE ring.max = 0 -> ring
          [] ring.max > 0 /\ Len(ring.keys) < ring.max ->
                [ring EXCEPT !.keys = Append(@, item), !.cursor = @ + 1]
          [] OTHER -> [ring EXCEPT !.keys[next + 1] = item, !.cursor = next]

RingHas(ring, epoch) == \E i \in DOMAIN ring.keys : ring.keys[i].epoch = epoch
RingGet(ring, epoch) ==
    ring.keys[CHOOSE i \in DOMAIN ring.keys :
                 /\ ring.keys[i].epoch = epoch
                 /\ \A j \in 1..(i - 1) : ring.keys[j].epoch # epoch].secret

(* load_psks: resumption PSKs come from the group's list by epoch, the      *)
(* others from the storage; one that is missing is an error.                *)
CanLoadPsks(ring, stored, ids) ==
    \A i \in DOMAIN ids :
        IF ids[i].type = "resumption" THEN RingHas(ring, ids[i].ref) ELSE ids[i].ref \in stored
LoadPsks(ring, ids) ==
    [i \in DOMAIN ids |->
        [id |-> ids[i],
         secret |-> IF ids[i].type = "resumption" THEN RingGet(ring, ids[i].ref)
                    ELSE Term("psk", ids[i].ref, <<>>)]]

-----------------------------------------------------------------------------
(* The schedule: Initial, then Context, then Done.  Each step hands over    *)
(* the secret it consumed; a step in the wrong state is an error.           *)

KsInit(joiner, psk_secret) == [state |-> "Initial", secret |-> Extract(joiner, psk_secret)]

KsWelcome(ks) == IF ks.state = "Initial" THEN Derive(ks.secret, "welcome") ELSE NoTerm

KsAddContext(ks, context) ==
    IF ks.state = "Initial"
    THEN [state |-> "Context", secret |-> Expand(ks.secret, "epoch", context)]
    ELSE ks

(* The secrets of an epoch, all derived from its epoch secret.              *)
InitSecret(epoch)              == Derive(epoch, "init")
SenderDataSecret(epoch)        == Derive(epoch, "sender data")
EncryptionSecret(epoch)        == Derive(epoch, "encryption")
ExporterSecret(epoch)          == Derive(epoch, "exporter")
ApplicationExportSecret(epoch) == Derive(epoch, "application_export")
EpochAuthenticator(epoch)      == Derive(epoch, "authentication")
ExternalSecret(epoch)          == Derive(epoch, "external")
ConfirmationKey(epoch)         == Derive(epoch, "confirm")
MembershipKey(epoch)           == Derive(epoch, "membership")
ResumptionPsk(epoch)           == Derive(epoch, "resumption")

EpochSecrets(epoch) ==
    [init_secret         |-> InitSecret(epoch),
     sender_data_secret  |-> SenderDataSecret(epoch),
     encryption_secret   |-> EncryptionSecret(epoch),
     exporter_secret     |-> ExporterSecret(epoch),
     application_export  |-> ApplicationExportSecret(epoch),
     epoch_authenticator |-> EpochAuthenticator(epoch),
     external_secret     |-> ExternalSecret(epoch),
     confirmation_key    |-> ConfirmationKey(epoch),
     membership_key      |-> MembershipKey(epoch),
     resumption_psk      |-> ResumptionPsk(epoch)]

(* epoch_secrets: only in state Context, and once.                          *)
KsEpochSecrets(ks) == EpochSecrets(IF ks.state = "Context" THEN ks.secret ELSE NoTerm)

(* with_init_secret: what an external committer starts from, the init       *)
(* secret of the KEM and nothing else that is known to the group.           *)
WithInitSecret(init_secret) == [EpochSecrets(Zero) EXCEPT !.init_secret = init_secret]

ConfirmationTag(secrets, confirmed_transcript_hash) ==
    Mac(secrets.confirmation_key, confirmed_transcript_hash)
MembershipTag(secrets, tbm) == Mac(secrets.membership_key, tbm)

(* The AEAD key and nonce of the welcome, and those of the sender data,     *)
(* which depend on a sample of the ciphertext.                              *)
WelcomeKeyNonce(welcome_secret) ==
    <<Derive(welcome_secret, "key"), Derive(welcome_secret, "nonce")>>
SenderDataKeyNonce(secrets, sample) ==
    <<Expand(secrets.sender_data_secret, "key", sample),
      Expand(secrets.sender_data_secret, "nonce", sample)>>
=============================================================================
