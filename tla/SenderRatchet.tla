--------------------------- MODULE SenderRatchet ---------------------------
(***************************************************************************)
(* One sender ratchet of an OpenMLS secret tree (tree/sender_ratchet.rs):  *)
(* the EncryptionRatchet of a member and the DecryptionRatchet another     *)
(* member keeps for it, in one epoch.  Messages between the two are lost,  *)
(* reordered and delivered repeatedly.                                     *)
(*                                                                         *)
(* Key material is modelled by the generation it is derived in; whoever    *)
(* has a ratchet at generation g can derive the secrets of g and later.    *)
(***************************************************************************)
EXTENDS Integers, Sequences

CONSTANTS
    MaxGeneration,            \* u32::MAX
    OutOfOrderTolerance,      \* SenderRatchetConfiguration.out_of_order_tolerance
    MaximumForwardDistance    \* SenderRatchetConfiguration.maximum_forward_distance

(* A tolerance beyond i32::MAX would overflow the window index in the code. *)
ASSUME ConfigurationAssumption ==
    /\ MaxGeneration \in Nat
    /\ OutOfOrderTolerance \in Nat /\ 2 * OutOfOrderTolerance <= MaxGeneration
    /\ MaximumForwardDistance \in 0..MaxGeneration

VARIABLES
    sender,  \* generation of the sender's RatchetSecret
    head,    \* generation of DecryptionRatchet.ratchet_head
    window,  \* DecryptionRatchet.past_secrets, the latest first
    sent,    \* generations of the messages sent, delivered at any time or never
    uses,    \* history: how often the secret of a generation was handed out
    wrong    \* history: a secret of another generation was handed out

vars == <<sender, head, window, sent, uses, wrong>>

Generations == 0..MaxGeneration
None == -1

TypeOK ==
    /\ sender \in Generations
    /\ head \in Generations
    /\ window \in Seq(Generations \cup {None})
    /\ sent \in SUBSET Generations
    /\ uses \in [Generations -> Nat]
    /\ wrong \in BOOLEAN

Init ==
    /\ sender = 0
    /\ head = 0
    /\ window = <<>>
    /\ sent = {}
    /\ uses = [g \in Generations |-> 0]
    /\ wrong = FALSE

(* SecretTree::secret_for_encryption: ratchet_forward, which refuses to go  *)
(* past the largest generation (RatchetTooLong).                            *)
Encrypt ==
    /\ sender < MaxGeneration
    /\ sent' = sent \cup {sender}
    /\ sender' = sender + 1
    /\ UNCHANGED <<head, window, uses, wrong>>
-----------------------------------------------------------------------------
(* DecryptionRatchet::secret_for_decryption. *)

TooDistantInTheFuture(g) ==
    /\ head < MaxGeneration - MaximumForwardDistance
    /\ g > head + MaximumForwardDistance

TooDistantInThePast(g) ==
    g < head /\ head - g > OutOfOrderTolerance

InRange(g) == ~TooDistantInTheFuture(g) /\ ~TooDistantInThePast(g)

(* Mutant of Truncate: one secret too few is kept. *)
TruncateOneMore(s) ==
    [i \in 1..(IF Len(s) < OutOfOrderTolerance THEN Len(s) ELSE OutOfOrderTolerance - 1) |-> s[i]]

(* VecDeque::truncate to the tolerance. *)
Truncate(s) ==
    [i \in 1..(IF Len(s) < OutOfOrderTolerance THEN Len(s) ELSE OutOfOrderTolerance) |-> s[i]]

(* Mutant of PushFront: no entry for the secret that is handed out. *)
PushSkippedOnly(g) == [i \in 1..g - head |-> g - i] \o window

(* The secrets of the generations skipped are kept, the latest in front,    *)
(* behind an empty entry for the secret that is handed out.                 *)
PushFront(g) == <<None>> \o [i \in 1..g - head |-> g - i] \o window

HandOut(g, secret) ==
    /\ uses' = [uses EXCEPT ![secret] = @ + 1]
    /\ wrong' = (wrong \/ secret # g)

(* The ratchet moves forward to g and past it.  ratchet_forward would fail  *)
(* halfway for the largest generation only, and no sender reaches that.     *)
DecryptAhead(g) ==
    /\ g \in sent /\ InRange(g)
    /\ g >= head
    /\ g < MaxGeneration
    /\ window' = Truncate(PushFront(g))
    /\ head' = g + 1
    /\ HandOut(g, g)
    /\ UNCHANGED <<sender, sent>>

(* The entry of g is in the window (else IndexOutOfBounds) and not empty    *)
(* (else SecretReuseError).                                                 *)
InWindow(g) == head - g \in 1..Len(window) /\ window[head - g] # None

(* Mutant of DecryptLate: the entry is read and not taken. *)
DecryptLateKeeping(g) ==
    /\ g \in sent /\ InRange(g)
    /\ g < head
    /\ InWindow(g)
    /\ HandOut(g, window[head - g])
    /\ UNCHANGED <<sender, head, window, sent>>

(* The secret is taken out of the window. *)
DecryptLate(g) ==
    /\ g \in sent /\ InRange(g)
    /\ g < head
    /\ InWindow(g)
    /\ window' = [window EXCEPT ![head - g] = None]
    /\ HandOut(g, window[head - g])
    /\ UNCHANGED <<sender, head, sent>>

(* Every other request is an error and changes nothing. *)
Next ==
    \/ Encrypt
    \/ \E g \in sent : DecryptAhead(g)
    \/ \E g \in sent : DecryptLate(g)

Spec == Init /\ [][Next]_vars
-----------------------------------------------------------------------------
(* The secret handed out for a message is the one its sender used, however  *)
(* the window was shifted and cut before: one wrong index and the message   *)
(* of a well-behaved sender does not decrypt.                               *)
RightSecret == ~wrong

(* Forward secrecy: a secret that was handed out was handed out once, and   *)
(* the receiver can neither derive it nor find it in the window any more;   *)
(* secrets kept for late messages are at most the tolerance behind.         *)
ForwardSecrecy ==
    /\ \A g \in Generations :
         uses[g] > 0 => /\ uses[g] = 1
                        /\ g < head
                        /\ \A i \in 1..Len(window) : window[i] # g
    /\ \A i \in 1..Len(window) :
         window[i] # None => head - window[i] <= OutOfOrderTolerance

(* What the configuration promises: a message sent and not yet decrypted    *)
(* can be decrypted whenever it arrives within the two distances, whatever  *)
(* was decrypted, skipped or refused before.                                *)
InRangeDecrypts ==
    \A g \in sent : InRange(g) /\ uses[g] = 0 => g >= head \/ InWindow(g)
=============================================================================
