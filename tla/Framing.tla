------------------------------- MODULE Framing -------------------------------
(***************************************************************************)
(* Message framing of openmls (framing/): what a signature, a membership   *)
(* tag, a confirmation tag and the two AEAD layers of a PrivateMessage     *)
(* cover, and the transcript hashes.  Hashes, MACs, signatures and         *)
(* ciphertexts are symbolic: they are the record of what they were made    *)
(* from.                                                                   *)
(***************************************************************************)
EXTENDS KeySchedule

Member(leaf)    == [type |-> "member", leaf |-> leaf]
NewMemberCommit == [type |-> "new_member_commit", leaf |-> 0]

(* FramedContent; the group id is left out, there is one group.             *)
FramedContent(epoch, sender, aad, body) ==
    [epoch |-> epoch, sender |-> sender, aad |-> aad, body |-> body]

(* FramedContentTbs: the group context is covered for members and external  *)
(* committers.                                                              *)
Tbs(wire, content, context) ==
    [wire |-> wire, content |-> content,
     context |-> IF content.sender.type \in {"member", "new_member_commit"} THEN context ELSE NoTerm]

Sign(key, tbs) == [key |-> key, over |-> tbs]

(* AuthenticatedContent, with no confirmation tag yet.                      *)
NewAndSign(wire, content, context, key) ==
    [wire |-> wire, content |-> content, tag |-> NoTerm,
     signature |-> Sign(key, Tbs(wire, content, context))]

Verify(auth, context, key) ==
    auth.signature = Sign(key, Tbs(auth.wire, auth.content, context))

(* The transcript hashes: the confirmed one covers the commit and its       *)
(* signature, the interim one adds the confirmation tag.                    *)
ConfirmedTranscriptHash(interim, auth) ==
    Term("confirmed", 0, <<interim, [wire |-> auth.wire, content |-> auth.content,
                                     signature |-> auth.signature]>>)
InterimTranscriptHash(confirmed, tag) == Term("interim", 0, <<confirmed, tag>>)

-----------------------------------------------------------------------------
(* PublicMessage                                                            *)

(* AuthenticatedContentTbm: content, signature and confirmation tag.        *)
Tbm(auth, context) ==
    [tbs |-> Tbs("public", auth.content, context), signature |-> auth.signature, tag |-> auth.tag]

(* Only members set a membership tag.                                       *)
PublicMessage(auth, secrets, context) ==
    [wire |-> "public", auth |-> auth,
     membership |-> IF auth.content.sender.type = "member"
                    THEN MembershipTag(secrets, Tbm(auth, context)) ELSE NoTerm]

(* A PublicMessage that parses has a membership tag iff a member sent it;   *)
(* the tag is checked before anything else is.                              *)
VerifyMembership(frame, secrets, context) ==
    IF frame.auth.content.sender.type = "member"
    THEN frame.membership = MembershipTag(secrets, Tbm(frame.auth, context))
    ELSE frame.membership = NoTerm

-----------------------------------------------------------------------------
(* PrivateMessage                                                           *)

Seal(key, aad, plain) == [key |-> key, aad |-> aad, plain |-> plain, head |-> TRUE, tail |-> TRUE]
Opens(sealed, key, aad) ==
    /\ sealed.key = key /\ sealed.aad = aad
    /\ sealed.head /\ sealed.tail

(* Handshake messages and application messages have ratchets of their own.  *)
SecretType(content_type) == IF content_type = "application" THEN "application" ELSE "handshake"

(* The secrets of a generation in the ratchet of a leaf.                    *)
RatchetKey(secrets, leaf, type, generation) ==
    Term(type, generation, <<secrets.encryption_secret, Term("leaf", leaf, <<>>)>>)

(* ciphertext_sample: the first bytes of a ciphertext, which is longer.     *)
Sample(ciphertext) == [key |-> ciphertext.key, head |-> ciphertext.head]

ContentAad(epoch, content_type, aad) == [epoch |-> epoch, type |-> content_type, data |-> aad]
SenderDataAad(epoch, content_type)   == [epoch |-> epoch, type |-> content_type]

(* encrypt_content: the content, its signature and its confirmation tag     *)
(* under the ratchet key; the sender's leaf and generation under a key that *)
(* depends on the ciphertext.                                               *)
PrivateMessage(auth, secrets, generation) ==
    LET content == auth.content
        type    == content.body.type
        sealed  == Seal(RatchetKey(secrets, content.sender.leaf, SecretType(type), generation),
                        ContentAad(content.epoch, type, content.aad),
                        [body |-> content.body, signature |-> auth.signature, tag |-> auth.tag])
    IN  [wire |-> "private", epoch |-> content.epoch, type |-> type, aad |-> content.aad,
         ciphertext |-> sealed,
         sender_data |-> Seal(SenderDataKeyNonce(secrets, Sample(sealed)),
                              SenderDataAad(content.epoch, type),
                              [leaf |-> content.sender.leaf, generation |-> generation])]

SenderDataOpens(frame, secrets) ==
    Opens(frame.sender_data, SenderDataKeyNonce(secrets, Sample(frame.ciphertext)),
          SenderDataAad(frame.epoch, frame.type))

(* decrypt, and the content it stands for: the header fields come from the  *)
(* frame, the sender from the sender data.                                  *)
ContentOpens(frame, secrets) ==
    LET data == frame.sender_data.plain IN
    Opens(frame.ciphertext, RatchetKey(secrets, data.leaf, SecretType(frame.type), data.generation),
          ContentAad(frame.epoch, frame.type, frame.aad))

Decrypted(frame) ==
    [wire |-> "private",
     content |-> FramedContent(frame.epoch, Member(frame.sender_data.plain.leaf), frame.aad,
                               frame.ciphertext.plain.body),
     signature |-> frame.ciphertext.plain.signature,
     tag |-> frame.ciphertext.plain.tag]

-----------------------------------------------------------------------------
(* GroupInfo: the context, the tag and the tree, signed by a member.        *)
GroupInfoTbs(context, tag, signer, external_pub) ==
    [context |-> context, tag |-> tag, signer |-> signer, external_pub |-> external_pub]
GroupInfo(tbs, key) == [tbs |-> tbs, signature |-> Sign(key, tbs)]
VerifyGroupInfo(info, key) == info.signature = Sign(key, info.tbs)

(* ProtocolMessage: what a receiver can tell before it opens a frame.       *)
FrameEpoch(frame) == IF frame.wire = "public" THEN frame.auth.content.epoch ELSE frame.epoch
FrameType(frame)  == IF frame.wire = "public" THEN frame.auth.content.body.type ELSE frame.type
=============================================================================
