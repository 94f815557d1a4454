---------------------------- MODULE GroupCommits ----------------------------
(***************************************************************************)
(* Proposals and commits of the OpenMLS group API: which queued proposals  *)
(* a commit covers, which it refuses, and the group it leads to.           *)
(*                                                                         *)
(* A proposal [kind, by, target, at] is known by its index in `props`, the *)
(* sequence of all proposals made, which stands for its ProposalRef.  A    *)
(* client stands for its signature key and, within one epoch, its leaf.    *)
(* PreSharedKey proposals have the PSK as their target.                    *)
(***************************************************************************)
EXTENDS Naturals, Sequences

Elements(s) == {s[i] : i \in 1..Len(s)}

OfKind(props, S, kind) == {r \in S : props[r].kind = kind}
Targets(props, S, kind) == {props[r].target : r \in OfKind(props, S, kind)}

(* ProposalType::is_path_required; an empty commit needs a path too. *)
NeedsPath(props, S) ==
    \/ S = {}
    \/ \E r \in S : props[r].kind \in {"Update", "Remove", "SelfRemove", "Gce", "ExternalInit"}

(* The leaf a member-specific proposal is about, and Proposal::             *)
(* has_lower_priority_than: of two for one leaf the one of higher rank      *)
(* wins, of two of one rank the later.                                      *)
LeafOf(p) == IF p.kind = "Remove" THEN p.target ELSE p.by
Rank(kind) == CASE kind = "Update" -> 1 [] kind = "Remove" -> 2 [] kind = "SelfRemove" -> 3

MemberSpecific(p, own) ==
    \/ p.kind \in {"Remove", "SelfRemove"}
    \/ p.kind = "Update" /\ p.by # own

Wins(props, queue, own, i) ==
    \A j \in DOMAIN queue :
        LET p == props[queue[i]]
            q == props[queue[j]]
        IN  MemberSpecific(q, own) /\ LeafOf(q) = LeafOf(p)
              => \/ Rank(q.kind) < Rank(p.kind)
                 \/ Rank(q.kind) = Rank(p.kind) /\ j <= i

(* ProposalQueue::filter_proposals: what a commit over `queue` covers, a    *)
(* sequence or a part of one.  Own Updates are replaced by the path of the  *)
(* commit.                                                                  *)
FilterProposals(props, queue, own) ==
    {queue[i] : i \in {k \in DOMAIN queue :
        LET p == props[queue[k]]
        IN  \/ p.kind \in {"Add", "Psk", "Gce", "ExternalInit"}
            \/ MemberSpecific(p, own) /\ Wins(props, queue, own, k)}}

OwnUpdates(props, queue, own) ==
    \E r \in Elements(queue) : props[r].kind = "Update" /\ props[r].by = own

(* Leaves that the covered proposals blank, PublicGroupDiff::               *)
(* apply_proposals, and the membership they lead to.                        *)
Leaving(props, S) ==
    Targets(props, S, "Remove") \cup {props[r].by : r \in OfKind(props, S, "SelfRemove")}

ApplyProposals(props, S, roster) ==
    (roster \ Leaving(props, S)) \cup Targets(props, S, "Add")

OnePer(props, S, kind) ==
    \A r, s \in OfKind(props, S, kind) : props[r].target = props[s].target => r = s

(* The validate_* functions of PublicGroup, for the committer and for the   *)
(* receivers alike: signature keys stay unique, removed leaves exist, no    *)
(* PSK is used twice, and there is one GroupContextExtensions at most.      *)
ValidProposals(props, S, roster) ==
    /\ OnePer(props, S, "Add")
    /\ Targets(props, S, "Add") \cap (roster \ Leaving(props, S)) = {}
    /\ Targets(props, S, "Remove") \subseteq roster
    /\ OnePer(props, S, "Psk")
    /\ \A r, s \in OfKind(props, S, "Gce") : r = s

(* PublicGroup::validate_external_commit: one ExternalInit; inline nothing  *)
(* but that, a Remove and PSKs; by reference only SelfRemoves.              *)
ValidExternal(props, inline, refs) ==
    /\ \E r \in inline : OfKind(props, inline, "ExternalInit") = {r}
    /\ \A r \in inline : props[r].kind \in {"ExternalInit", "Remove", "Psk"}
    /\ \A r \in refs : props[r].kind = "SelfRemove"

PskIds(props, queue) ==
    LET psks == SelectSeq(queue, LAMBDA r : props[r].kind = "Psk")
    IN  [i \in 1..Len(psks) |-> props[psks[i]].target]

(* CommitBuilder::load_psks chains the own proposals with the store, and    *)
(* PskSecret::new labels each PSK with its position; the commit lists the   *)
(* stored proposals first, and everybody else takes that order.             *)
CommitterPsks(props, store, own) == PskIds(props, own \o store)
ReceiverPsks(props, store, own) == PskIds(props, store \o own)
=============================================================================
