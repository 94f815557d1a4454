---------------------------- MODULE PastSecrets ----------------------------
(***************************************************************************)
(* MessageSecretsStore of OpenMLS (mls_group/past_secrets.rs): the message *)
(* secrets of the current epoch and those of past epochs that the policy   *)
(* of the group allows to keep, so that late application messages can be   *)
(* decrypted.                                                              *)
(*                                                                         *)
(* Secrets are modelled by their epoch and by the clock reading when they  *)
(* were added.  The clock is SystemTime, which need not be monotonic:      *)
(* every reading is possible at every step.  Secrets stored by an older    *)
(* version of the library have no reading.                                 *)
(***************************************************************************)
EXTENDS Integers, Sequences, FiniteSets

CONSTANTS
    Capacity,   \* VECDEQUE_MAX_CAPACITY
    Times,      \* readings of the clock
    MaxEpoch    \* bound: epochs of the group

ASSUME PastConstants == Capacity \in Nat /\ Times \subseteq Nat /\ MaxEpoch \in Nat

VARIABLES
    max_epochs,        \* capacity set by the policy
    past_epoch_trees,  \* secrets of past epochs, in order of addition
    current,           \* message_secrets
    shrunk             \* history: resize lowered the capacity of a store not full

pastVars == <<max_epochs, past_epoch_trees, current, shrunk>>

(* None, of a reading or of a number. *)
Absent == -1
Secrets == [epoch : Nat, added_at : Times \cup {Absent}]
MessageSecrets(epoch, added_at) == [epoch |-> epoch, added_at |-> added_at]

PastTypeOK ==
    /\ max_epochs \in 0..Capacity
    /\ past_epoch_trees \in Seq(Secrets)
    /\ current \in Secrets
    /\ shrunk \in BOOLEAN

(* A policy MaxEpochs(n) is n; KeepAll is more than any deque can hold. *)
KeepAll == Capacity + 1
Policies == 0..Capacity \cup {KeepAll}

(* max_epochs: the capacity that a policy asks for. *)
MaxEpochs(policy) == IF policy < Capacity THEN policy ELSE Capacity

(* A new group (new_with_secret), or one stored by an older version with    *)
(* the secrets of its last epochs.                                          *)
PastInit ==
    /\ \E policy \in Policies : max_epochs = MaxEpochs(policy)
    /\ \/ /\ past_epoch_trees = <<>>
          /\ \E now \in Times : current = MessageSecrets(0, now)
       \/ \E k \in 0..max_epochs :
            /\ k <= MaxEpoch
            /\ past_epoch_trees = [i \in 1..k |-> MessageSecrets(i - 1, Absent)]
            /\ current = MessageSecrets(k, Absent)
    /\ shrunk = FALSE

(* VecDeque: rotate_left, truncate and drain of a prefix. *)
RotateLeft(s, n) == SubSeq(s, n + 1, Len(s)) \o SubSeq(s, 1, n)
TruncateTo(s, n) == IF Len(s) <= n THEN s ELSE SubSeq(s, 1, n)
DropFirst(s, n) == SubSeq(s, n + 1, Len(s))

(* Mutant: the newest is dropped. *)
AddDroppingNewest(s, max, tree) ==
    IF max = 0 THEN s
    ELSE IF Len(s) >= max THEN Append(TruncateTo(s, max - 1), tree)
    ELSE Append(s, tree)

(* add_past_epoch_tree: the oldest makes room. *)
AddPastEpochTree(s, max, tree) ==
    IF max = 0 THEN s
    ELSE IF Len(s) >= max THEN Append(TruncateTo(RotateLeft(s, 1), max - 1), tree)
    ELSE Append(s, tree)

(* merge_commit: replace_current_message_secrets, then add_past_epoch_tree. *)
MergeCommit(now) ==
    /\ current.epoch < MaxEpoch
    /\ past_epoch_trees' = AddPastEpochTree(past_epoch_trees, max_epochs, current)
    /\ current' = MessageSecrets(current.epoch + 1, now)
    /\ UNCHANGED <<max_epochs, shrunk>>

(* set_past_epoch_deletion_policy: resize, which rotates by the difference  *)
(* of the capacities.                                                       *)
Resize(policy) ==
    LET new == MaxEpochs(policy)
        out == max_epochs - new
        len == Len(past_epoch_trees)
    IN  /\ max_epochs' = new
        /\ past_epoch_trees' =
              IF out > 0
              THEN TruncateTo(RotateLeft(past_epoch_trees, IF out < len THEN out ELSE len), new)
              ELSE past_epoch_trees
        /\ shrunk' = (shrunk \/ (out > 0 /\ len < max_epochs))
        /\ UNCHANGED current

Before(secrets, cutoff) == secrets.added_at # Absent /\ secrets.added_at < cutoff

(* delete_past_epoch_secrets_before_timestamp, and _older_than_duration     *)
(* with the cutoff that the duration amounts to (one reading of the clock   *)
(* stands for the whole call): everything up to the last tree added before  *)
(* the cutoff.                                                              *)
DeleteBeforeTimestamp(s, cutoff) ==
    IF Before(current, cutoff) THEN <<>>
    ELSE LET found == {i \in 1..Len(s) : Before(s[i], cutoff)} IN
         IF found = {} THEN s
         ELSE DropFirst(s, CHOOSE i \in found : \A j \in found : j <= i)

(* retain: the trees with a reading, in their order.                        *)
Dated(s) == {i \in 1..Len(s) : s[i].added_at # Absent}
Rank(S, i) == Cardinality({k \in S : k <= i})
Nth(S, n) == CHOOSE i \in S : Rank(S, i) = n
DeleteAllWithoutTimestamp(s) ==
    [n \in 1..Cardinality(Dated(s)) |-> s[Nth(Dated(s), n)]]

(* delete_past_epoch_secrets with a time configuration and, if not Absent,  *)
(* a number of trees to keep at most.                                       *)
KeepAtMost(s, n) == IF n # Absent /\ Len(s) > n THEN DropFirst(s, Len(s) - n) ELSE s

DeleteBefore(cutoff, keep) ==
    /\ past_epoch_trees' = KeepAtMost(DeleteBeforeTimestamp(past_epoch_trees, cutoff), keep)
    /\ UNCHANGED <<max_epochs, current, shrunk>>

DeleteUndated(keep) ==
    /\ past_epoch_trees' = KeepAtMost(DeleteAllWithoutTimestamp(past_epoch_trees), keep)
    /\ UNCHANGED <<max_epochs, current, shrunk>>

(* Without a time configuration everything goes. *)
DeleteAll ==
    /\ past_epoch_trees' = <<>>
    /\ UNCHANGED <<max_epochs, current, shrunk>>

PastNext ==
    \/ \E now \in Times : MergeCommit(now)
    \/ \E policy \in Policies : Resize(policy)
    \/ \E keep \in {Absent} \cup 0..Capacity :
        \/ \E cutoff \in Times : DeleteBefore(cutoff, keep)
        \/ DeleteUndated(keep)
    \/ DeleteAll

PastSpec == PastInit /\ [][PastNext]_pastVars
-----------------------------------------------------------------------------
(* No more epochs are kept than the policy in force allows (the debug       *)
(* assertion of add_past_epoch_tree), and they are the ones just before the *)
(* current one: none is missing between them and the latest is at the end,  *)
(* unless a resize lowered the capacity of a store that was not full.       *)
KeepsTheLatest ==
    /\ Len(past_epoch_trees) <= max_epochs
    /\ ~shrunk => \A i \in 1..Len(past_epoch_trees) :
          past_epoch_trees[i].epoch = current.epoch - 1 - (Len(past_epoch_trees) - i)
=============================================================================
