---------------------------- MODULE DeliveryOps ----------------------------
(***************************************************************************)
(* The pure part of the delivery service (packages/server): what one call  *)
(* of a service method returns and how it changes the map entry it works   *)
(* on.  DeliveryService wraps these operators in the server's state;       *)
(* GroupSession uses them for the one group whose members it follows.      *)
(***************************************************************************)
EXTENDS Integers, Sequences

(* groups.service.ts, StoredMessage: the position the log gave a message and *)
(* its opaque bytes.  `sender` and `ts` are never read by the service.       *)
StoredMessage(seq, message) == [seq |-> seq, message |-> message]

(* Mutant: the log is kept newest first. *)
PublishToFront(log, message) == <<StoredMessage(Len(log) + 1, message)>> \o log

(* GroupsService.publish: the next sequence number is the length plus one. *)
PublishTo(log, message) == Append(log, StoredMessage(Len(log) + 1, message))

(* Several messages posted one after the other, with nothing between them. *)
PublishAll(log, messages) ==
    log \o [k \in 1..Len(messages) |-> StoredMessage(Len(log) + k, messages[k])]

(* Mutant: nothing to a reader without a cursor. *)
SinceNothing(log, since) == {i \in 1..Len(log) : since > 0 /\ log[i].seq > since}

(* GroupsService.since: the entries numbered above `since`, given by their  *)
(* positions: the answer lists them in log order.                           *)
Since(log, since) == {i \in 1..Len(log) : since <= 0 \/ log[i].seq > since}

Last(found) == CHOOSE i \in found : \A j \in found : j <= i

(* GroupsController.since: the cursor the answer carries.  An empty answer *)
(* echoes the cursor of the request, even one the log never reached.       *)
AnswerCursor(log, found, from) ==
    IF found # {} THEN log[Last(found)].seq ELSE from

(* Mutant of TakeAll: the inbox is not cleared. *)
TakeAllKeeping(inbox) == [taken |-> inbox, left |-> inbox]

(* WelcomesService.take: everything pending, and an emptied inbox. *)
TakeAll(inbox) == [taken |-> inbox, left |-> <<>>]
=============================================================================
