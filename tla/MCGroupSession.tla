--------------------------- MODULE MCGroupSession ---------------------------
(***************************************************************************)
(* GroupSession for TLC.  The run that reads in order follows two kinds of *)
(* groups.  Either the founders invite at most one client, and make two    *)
(* proposals or two commits, or both if the same founder makes them; or    *)
(* all clients are members from the start, the founders make at most one   *)
(* proposal between them, and the others only read.                        *)
(***************************************************************************)
EXTENDS GroupSession, TLC

(* Init, Next and Bounded name no particular founder and no other client. *)
Symmetry == Permutations(Founders) \cup Permutations(Clients \ Founders)

Everybody == INSTANCE GroupSession WITH Founders <- Clients

Invited == {proposals[r].target : r \in {s \in 1..Len(proposals) : proposals[s].kind = "Add"}}

Bounded ==
    \/ /\ epochs[1].members = Founders
       /\ Cardinality(Invited \ Founders) <= 1
       /\ Len(epochs) + Len(proposals) <= 4 \/ Cardinality(authors \cap Founders) <= 1
    \/ /\ epochs[1].members = Clients
       /\ Len(proposals) <= 1
       /\ authors \subseteq Founders

(* Publishing a message makes no proposal and no epoch. *)
OrderedNext == (\E c \in Clients : Publish(c)) \/ (Next /\ Bounded')

OrderedSpec == (Init \/ Everybody!Init) /\ [][OrderedNext]_vars
=============================================================================
