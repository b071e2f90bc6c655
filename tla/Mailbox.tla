-------------------------------- MODULE Mailbox --------------------------------
(***************************************************************************)
(* The mailbox contract as the in-memory backend states it                 *)
(* (src/entourage/mailbox.py), as operators on a box: events in append     *)
(* order, and the deduplication keys with the conversation each belongs    *)
(* to.  Time is in the events: the lease of a leased event is held or has  *)
(* expired.                                                                *)
(***************************************************************************)
EXTENDS Naturals, FiniteSets, Sequences, SequencesExt, FiniteSetsExt

EmptyBox == [events |-> <<>>, ids |-> <<>>]

Letter(id, conversation, correlation, source) ==
  [id |-> id, conversation |-> conversation, correlation |-> correlation, source |-> source]

\* The same letter is accepted once; its id may not name another conversation.
Known(box, letter) == letter.id \in DOMAIN box.ids
Appendable(box, letter) ==
  Known(box, letter) => box.ids[letter.id] = letter.conversation

\* append
Deliver(box, letter) ==
  IF Known(box, letter) THEN box
  ELSE [events |-> Append(box.events, [letter |-> letter, status |-> "pending",
                                       consumer |-> <<>>, lease |-> "none"]),
        ids |-> [i \in DOMAIN box.ids \cup {letter.id} |->
                   IF i = letter.id THEN letter.conversation ELSE box.ids[i]]]

Claimable(event) ==
  event.status = "pending" \/ (event.status = "leased" /\ event.lease = "expired")

In(box, conversation) ==
  {i \in DOMAIN box.events : box.events[i].letter.conversation = conversation}
ClaimableIn(box, conversation) == {i \in In(box, conversation) : Claimable(box.events[i])}

\* The first limit of a set of positions.
First(positions, limit) ==
  {i \in positions : Cardinality({j \in positions : j < i}) < limit}

\* claim: what it leases.
ToClaim(box, conversation, limit) == First(ClaimableIn(box, conversation), limit)
Lease(box, positions, consumer) ==
  [box EXCEPT !.events = [i \in DOMAIN @ |->
     IF i \in positions THEN [@[i] EXCEPT !.status = "leased", !.consumer = consumer,
                                          !.lease = "held"]
     ELSE @[i]]]
LetterIds(box, positions) == {box.events[i].letter.id : i \in positions}

\* Positions of some ids in a conversation.
Selected(box, conversation, ids) ==
  {i \in In(box, conversation) : box.events[i].letter.id \in ids}

\* acknowledge and release without force need a live lease on every event.
MaySettle(box, conversation, ids, consumer) ==
  LET found == Selected(box, conversation, ids)
  IN  /\ LetterIds(box, found) = ids
      /\ \A i \in found : box.events[i].status = "leased" /\ box.events[i].lease = "held"
                           /\ box.events[i].consumer = consumer

\* acknowledge: with force, whatever the lease.
Acknowledge(box, conversation, ids) ==
  LET done == {i \in Selected(box, conversation, ids) : box.events[i].status # "acknowledged"}
  IN  [box EXCEPT !.events = [i \in DOMAIN @ |->
         IF i \in done THEN [@[i] EXCEPT !.status = "acknowledged", !.consumer = <<>>,
                                         !.lease = "none"]
         ELSE @[i]]]

\* release
Release(box, conversation, ids) ==
  LET found == Selected(box, conversation, ids)
  IN  [box EXCEPT !.events = [i \in DOMAIN @ |->
         IF i \in found THEN [@[i] EXCEPT !.status = "pending", !.consumer = <<>>,
                                          !.lease = "none"]
         ELSE @[i]]]

\* purge_acknowledged: of the acknowledged events.
Purgeable(box, conversations) ==
  {i \in DOMAIN box.events : /\ box.events[i].letter.conversation \in conversations
                             /\ box.events[i].status = "acknowledged"}
Nth(positions, k) == CHOOSE i \in positions : Cardinality({j \in positions : j < i}) = k - 1
PurgeAcknowledged(box, gone) ==
  LET kept == DOMAIN box.events \ gone
  IN  [box EXCEPT !.events = [k \in 1..Cardinality(kept) |-> @[Nth(kept, k)]]]

\* purge_deduplication_keys: keys whose event is gone.
Tombstones(box) ==
  {i \in DOMAIN box.ids : \A k \in DOMAIN box.events : box.events[k].letter.id # i}
Forget(box, gone) == [box EXCEPT !.ids = [i \in DOMAIN @ \ gone |-> @[i]]]

\* claimable_conversations
ClaimableConversations(box) ==
  {box.events[i].letter.conversation : i \in {k \in DOMAIN box.events : Claimable(box.events[k])}}
=============================================================================
