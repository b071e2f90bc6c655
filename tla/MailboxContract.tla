----------------------------- MODULE MailboxContract -----------------------------
(***************************************************************************)
(* What a mailbox backend promises (src/entourage/mailbox.py), as steps    *)
(* from one box to the next.  A call on several events may show as several *)
(* steps of one event each, which is how a caller that died in the middle  *)
(* leaves them.                                                            *)
(***************************************************************************)
EXTENDS Mailbox

CONSTANTS Letters, Consumers

VARIABLE box

\* append
AppendLetter ==
  \E l \in Letters : Appendable(box, l) /\ box' = Deliver(box, l)

\* claim: a claimable event goes to one consumer.
LeaseOne ==
  \E i \in DOMAIN box.events, c \in Consumers :
    Claimable(box.events[i]) /\ box' = Lease(box, {i}, c)

\* acknowledge: by its live lease, or with force.
AcknowledgeOne ==
  \E l \in Letters : box' = Acknowledge(box, l.conversation, {l.id})

\* release: only by its live lease.
ReleaseOne ==
  \E l \in Letters, c \in Consumers :
    MaySettle(box, l.conversation, {l.id}, c) /\ box' = Release(box, l.conversation, {l.id})

\* purge_acknowledged: events of one conversation or of all that were
\* acknowledged by some time.
PurgeLetters ==
  \E gone \in SUBSET Purgeable(box, {l.conversation : l \in Letters}) :
    box' = PurgeAcknowledged(box, gone)

\* purge_deduplication_keys
PurgeKeys == \E gone \in SUBSET Tombstones(box) : box' = Forget(box, gone)

\* Time.
Clock ==
  \E i \in DOMAIN box.events : /\ box.events[i].lease = "held"
                               /\ box' = [box EXCEPT !.events[i].lease = "expired"]

Init == box = EmptyBox

Next ==
  \/ AppendLetter \/ LeaseOne \/ AcknowledgeOne \/ ReleaseOne \/ PurgeLetters \/ PurgeKeys \/ Clock

Spec == Init /\ [][Next]_box
=============================================================================
