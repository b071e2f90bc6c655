---------------------------- MODULE ChatAgentsProofs ----------------------------
(***************************************************************************)
(* What an agent has cancelled is never told to its model, and the agents  *)
(* use the store as its contract allows, for any depth of delegation, any  *)
(* tools, budgets and batches, and any mail.                               *)
(***************************************************************************)
EXTENDS ChatAgents, SequenceTheorems, FiniteSetTheorems, TLAPS

Fields == {"panel", "deferred", "buffered", "tail", "work", "calls", "results", "heard", "closed"}
EntryFields == {"mode", "status", "until", "interruptible", "grants", "fenced"}

\* A mind of s: its panel holds entries of calls it has made.
MindOK(s, m) ==
  /\ DOMAIN m = Fields /\ m.calls \in Nat
  /\ \A c \in DOMAIN m.panel : /\ DOMAIN m.panel[c] = EntryFields
                               /\ \E k \in 1..m.calls : c = Append(s, k)

Cancelled(m) == {c \in DOMAIN m.panel : m.panel[c].status = "cancelled"}

\* What the mind old has cancelled is still cancelled in m, and m has heard no
\* more of it; some of it is fenced.
Quiet(s, old, fenced, m) ==
  /\ MindOK(s, m) /\ Cancelled(old) \subseteq Cancelled(m)
  /\ fenced \subseteq Cancelled(old) /\ \A c \in fenced : m.panel[c].fenced = TRUE
  /\ \A c \in Cancelled(old) : \A what : <<c, what>> \in m.heard => <<c, what>> \in old.heard
-----------------------------------------------------------------------------
(* Induction over the natural numbers.                                    *)

\* A set of natural numbers that has members has a least one.
LEMMA LeastNat ==
  ASSUME NEW T \in SUBSET Nat, T # {}
  PROVE  \E n \in T : \A m \in T : n <= m
<1> DEFINE R == StrictSubsetOrdering(Nat)
           U == {0..n : n \in T}
<1>1. IsWellFoundedOn(R, FiniteSubsetsOf(Nat))  BY FS_StrictSubsetOrderingWellFounded
<1>2. U \subseteq FiniteSubsetsOf(Nat)
  <2>1. \A n \in Nat : IsFiniteSet(0..n)  BY FS_Interval
  <2> QED  BY <2>1 DEF FiniteSubsetsOf
<1>3. U # {}  OBVIOUS
<1> HIDE DEF U, R
<1>4. PICK u \in U : \A v \in U : ~(<<v, u>> \in R)
  BY <1>1, <1>2, <1>3, WFMin
<1>5. PICK n \in T : u = 0..n  BY DEF U
<1>6. ASSUME NEW m \in T  PROVE n <= m
  <2>1. ~(<<0..m, 0..n>> \in R)  BY <1>4, <1>5 DEF U
  <2>2. SUFFICES ASSUME m < n PROVE FALSE  OBVIOUS
  <2>3. 0..m \subseteq 0..n /\ 0..m # 0..n
    <3>1. n \in 0..n /\ n \notin 0..m  BY <2>2
    <3> QED  BY <2>2, <3>1
  <2>4. 0..m \in SUBSET Nat /\ 0..n \in SUBSET Nat  OBVIOUS
  <2> QED  BY <2>1, <2>3, <2>4 DEF R, StrictSubsetOrdering
<1> QED  BY <1>6

\* What holds of 0, and of n + 1 whenever of n, holds of every natural number.
LEMMA NatIsAll ==
  \A G : 0 \in G /\ (\A n \in Nat : n \in G => n + 1 \in G) => Nat \subseteq G
<1> SUFFICES ASSUME NEW G, 0 \in G, \A n \in Nat : n \in G => n + 1 \in G, Nat \ G # {}
             PROVE  FALSE
  OBVIOUS
<1>1. PICK n \in Nat \ G : \A m \in Nat \ G : n <= m  BY LeastNat
<1>2. n # 0  OBVIOUS
<1>3. n - 1 \in Nat  BY <1>2
<1>4. n - 1 \in G  BY <1>1, <1>3
<1>5. (n - 1) + 1 = n  OBVIOUS
<1> QED  BY <1>3, <1>4, <1>5

-----------------------------------------------------------------------------
(* Changes of a mind.                                                      *)

\* Nothing but lists and marks is changed.
LEMMA SamePanel ==
  ASSUME NEW s, NEW old, NEW fenced, NEW m, Quiet(s, old, fenced, m),
         NEW n, DOMAIN n = Fields, n.panel = m.panel, n.heard = m.heard, n.calls = m.calls
  PROVE  Quiet(s, old, fenced, n)
BY DEF Quiet, MindOK, Cancelled

LEMMA DeferQuiet ==
  ASSUME NEW s, NEW old, NEW fenced, NEW m, Quiet(s, old, fenced, m), NEW c
  PROVE  Quiet(s, old, fenced, Defer(m, c)) /\ Quiet(s, old, fenced, Write(m, c))
<1>1. DOMAIN m = Fields  BY DEF Quiet, MindOK
<1>2. Quiet(s, old, fenced, Defer(m, c))  BY <1>1, SamePanel DEF Defer, Fields
<1>3. Quiet(s, old, fenced, Write(m, c))  BY <1>1, SamePanel DEF Write, Fields
<1> QED  BY <1>2, <1>3

\* A promoted wait keeps its status.
LEMMA PromoteQuiet ==
  ASSUME NEW s, NEW old, NEW fenced, NEW m, Quiet(s, old, fenced, m), NEW cs
  PROVE  Quiet(s, old, fenced, Promote(m, cs))
<1>1. PICK n : n = Promote(m, cs)  OBVIOUS
<1>2. DOMAIN m = Fields  BY DEF Quiet, MindOK
<1>3. /\ DOMAIN n = Fields /\ n.heard = m.heard /\ n.calls = m.calls
      /\ n.panel = [c \in DOMAIN m.panel |->
           IF c \in cs THEN [m.panel[c] EXCEPT !.mode = "connected"] ELSE m.panel[c]]
  BY <1>1, <1>2 DEF Promote, Fields
<1>4. \A c \in DOMAIN m.panel :
        /\ DOMAIN n.panel[c] = EntryFields /\ n.panel[c].status = m.panel[c].status
        /\ n.panel[c].fenced = m.panel[c].fenced
  BY <1>3 DEF Quiet, MindOK, EntryFields
<1>5. DOMAIN n.panel = DOMAIN m.panel  BY <1>3
<1> QED  BY <1>1, <1>3, <1>4, <1>5 DEF Quiet, MindOK, Cancelled

\* The model hears of what was not cancelled.
LEMMA HearQuiet ==
  ASSUME NEW s, NEW old, NEW fenced, NEW m, Quiet(s, old, fenced, m), NEW c, c \notin Cancelled(old), NEW what
  PROVE  Quiet(s, old, fenced, Hear(m, c, what))
<1>1. PICK n : n = Hear(m, c, what)  OBVIOUS
<1>2. DOMAIN m = Fields  BY DEF Quiet, MindOK
<1>3. /\ DOMAIN n = Fields /\ n.panel = m.panel /\ n.calls = m.calls
      /\ n.heard = m.heard \cup {<<c, what>>}
  BY <1>1, <1>2 DEF Hear, Fields
<1>4. \A d \in Cancelled(old) : \A w : <<d, w>> \in n.heard => <<d, w>> \in old.heard
  <2>1. \A d, w : <<d, w>> = <<c, what>> => d = c  OBVIOUS
  <2> QED  BY <1>3, <2>1 DEF Quiet
<1> QED  BY <1>1, <1>3, <1>4 DEF Quiet, MindOK, Cancelled

\* The status of an entry that was not cancelled changes.
Restated(m, c, status) == [m EXCEPT !.panel[c].status = status]

LEMMA StatusQuiet ==
  ASSUME NEW s, NEW old, NEW fenced, NEW m, Quiet(s, old, fenced, m), NEW c, c \notin Cancelled(old), NEW status
  PROVE  Quiet(s, old, fenced, Restated(m, c, status))
<1>1. PICK n : n = Restated(m, c, status)  OBVIOUS
<1>2. DOMAIN m = Fields  BY DEF Quiet, MindOK
<1>3. /\ DOMAIN n = Fields /\ n.heard = m.heard /\ n.calls = m.calls
      /\ n.panel = [m.panel EXCEPT ![c].status = status]
  BY <1>1, <1>2 DEF Restated, Fields
<1>4. /\ DOMAIN n.panel = DOMAIN m.panel
      /\ \A d \in DOMAIN m.panel : d # c => n.panel[d] = m.panel[d]
      /\ \A d \in DOMAIN m.panel : DOMAIN n.panel[d] = DOMAIN m.panel[d]
  BY <1>3
<1> QED  BY <1>1, <1>3, <1>4 DEF Quiet, MindOK, Cancelled

LEMMA CloseQuiet ==
  ASSUME NEW s, NEW old, NEW fenced, NEW m, Quiet(s, old, fenced, m), NEW closed
  PROVE  Quiet(s, old, fenced, [m EXCEPT !.closed = closed])
<1>1. DOMAIN m = Fields  BY DEF Quiet, MindOK
<1> QED  BY <1>1, SamePanel DEF Fields

LEMMA DeliverQuiet ==
  ASSUME NEW s, NEW old, NEW fenced, NEW m, Quiet(s, old, fenced, m)
  PROVE  Quiet(s, old, fenced, Deliver(m))
<1>1. PICK n, cs : n = Promote(m, cs) /\ cs = {c \in Waiting(m) : m.panel[c].interruptible}
  OBVIOUS
<1>2. Quiet(s, old, fenced, n)  BY <1>1, PromoteQuiet
<1>3. DOMAIN n = Fields  BY <1>2 DEF Quiet, MindOK
<1>4. PICK d : d = Deliver(m)
                /\ d = [n EXCEPT !.deferred = @ \o SetToSeq(cs), !.buffered = TRUE]
  BY <1>1 DEF Deliver
<1>5. DOMAIN d = Fields /\ d.panel = n.panel /\ d.heard = n.heard /\ d.calls = n.calls
  BY <1>3, <1>4 DEF Fields
<1> QED  BY <1>2, <1>4, <1>5, SamePanel

LEMMA SettleQuiet ==
  ASSUME NEW s, NEW old, NEW fenced, NEW m, Quiet(s, old, fenced, m), NEW c, c \notin Cancelled(old), NEW what
  PROVE  Quiet(s, old, fenced, Settle(m, c, what))
BY HearQuiet, PromoteQuiet, DeferQuiet, DeliverQuiet DEF Settle

\* A failure of cancelled work only closes it.
LEMMA FailQuiet ==
  ASSUME NEW s, NEW old, NEW fenced, NEW m, Quiet(s, old, fenced, m), NEW c
  PROVE  Quiet(s, old, fenced, FailWork(m, c))
<1>1. PICK n : n = [m EXCEPT !.closed = @ \cup {c}]  OBVIOUS
<1>2. Quiet(s, old, fenced, n)  BY <1>1, CloseQuiet
<1>3. CASE ~OnTable(m, c)  BY <1>3 DEF FailWork
<1>4. CASE OnTable(m, c) /\ m.panel[c].status = "cancelled"
  BY <1>1, <1>2, <1>4 DEF FailWork
<1>5. CASE OnTable(m, c) /\ m.panel[c].status # "cancelled"
  <2>1. c \notin Cancelled(old)  BY <1>5 DEF Quiet, Cancelled
  <2>2. Quiet(s, old, fenced, Restated(n, c, "failed"))  BY <1>2, <2>1, StatusQuiet
  <2>3. FailWork(m, c) = Settle(Restated(n, c, "failed"), c, "failed")
    BY <1>1, <1>5 DEF FailWork, Restated
  <2> QED  BY <2>1, <2>2, <2>3, SettleQuiet
<1> QED  BY <1>3, <1>4, <1>5

LEMMA FlushQuiet ==
  ASSUME NEW s, NEW old, NEW fenced, NEW m, Quiet(s, old, fenced, m)
  PROVE  Quiet(s, old, fenced, Flush(m))
<1>1. PICK n : n = Flush(m)  OBVIOUS
<1>2. DOMAIN m = Fields  BY DEF Quiet, MindOK
<1>3. DOMAIN n = Fields /\ n.panel = m.panel /\ n.heard = m.heard /\ n.calls = m.calls
  BY <1>1, <1>2 DEF Flush, Fields
<1> QED  BY <1>1, <1>3, SamePanel
-----------------------------------------------------------------------------
(* Mail.                                                                   *)

\* A reply about cancelled work fences it.
LEMMA ReplyQuiet ==
  ASSUME NEW s, NEW old, NEW fenced, NEW m, Quiet(s, old, fenced, m),
         NEW e, OnTable(m, e.about)
  PROVE  Quiet(s, old, fenced \cup ({e.about} \cap Cancelled(old)), IngestReply(m, e))
<1>1. PICK c, n : /\ c = e.about /\ n = [m EXCEPT !.closed = IF e.kind = "result" THEN @ \cup {c} ELSE @]
  OBVIOUS
<1>2. Quiet(s, old, fenced, n)  BY <1>1, CloseQuiet
<1>3. n.panel = m.panel /\ DOMAIN n = Fields /\ n.heard = m.heard /\ n.calls = m.calls
  BY <1>1 DEF Quiet, MindOK, Fields
<1>4. CASE m.panel[c].status = "cancelled"
  <2>1. PICK f : f = [n EXCEPT !.panel[c].fenced = TRUE]  OBVIOUS
  <2>2. IngestReply(m, e) = f  BY <1>1, <1>4, <2>1 DEF IngestReply
  <2>3. /\ DOMAIN f = Fields /\ f.heard = n.heard /\ f.calls = n.calls
        /\ f.panel = [n.panel EXCEPT ![c].fenced = TRUE]
    BY <1>3, <2>1 DEF Fields
  <2>4. /\ DOMAIN f.panel = DOMAIN n.panel
        /\ \A d \in DOMAIN n.panel : /\ DOMAIN f.panel[d] = DOMAIN n.panel[d]
                                     /\ d # c => f.panel[d] = n.panel[d]
    BY <2>3
  <2>5. c \in DOMAIN n.panel /\ DOMAIN n.panel[c] = EntryFields
    BY <1>1, <1>2, <1>3 DEF OnTable, Quiet, MindOK
  <2>6. f.panel[c].status = n.panel[c].status /\ f.panel[c].fenced = TRUE
    BY <2>3, <2>5 DEF EntryFields
  <2> QED  BY <1>1, <1>2, <2>2, <2>3, <2>4, <2>5, <2>6 DEF Quiet, MindOK, Cancelled
<1>5. CASE m.panel[c].status # "cancelled"
  <2>1. c \notin Cancelled(old)  BY <1>5 DEF Quiet, Cancelled
  <2>2. PICK status : status = IF e.kind = "ask" THEN "input_required" ELSE e.status  OBVIOUS
  <2>3. IngestReply(m, e) = Restated(n, c, status)
    BY <1>1, <1>5, <2>2 DEF IngestReply, Restated
  <2>4. Quiet(s, old, fenced, Restated(n, c, status))  BY <1>2, <2>1, StatusQuiet
  <2>5. fenced \cup ({e.about} \cap Cancelled(old)) = fenced  BY <1>1, <2>1
  <2> QED  BY <2>3, <2>4, <2>5
<1> QED  BY <1>4, <1>5

\* The loop of ingest: of the cancelled, what had a reply so far is fenced.
SplitOK(x, i, split) ==
  /\ DOMAIN split = {"mind", "replies", "others"}
  /\ split.replies \in Seq(x.mail) /\ split.others \in Seq(x.mail)
  /\ Quiet(x.s, x.old, {split.replies[j].about : j \in 1..Len(split.replies)} \cap Cancelled(x.old),
           split.mind)
IngestDo(x, split, e) == IngestOne(split, e)
Ingesting == INSTANCE Loops WITH Do <- IngestDo, Inv <- SplitOK

LEMMA IngestQuiet ==
  ASSUME NEW s, NEW old, NEW m, Quiet(s, old, {}, m), NEW T, NEW mail \in Seq(T)
  PROVE  SplitOK([s |-> s, old |-> old, mail |-> T], Len(mail), Ingest(m, mail))
<1>1. PICK x, first : /\ x = [s |-> s, old |-> old, mail |-> T]
                      /\ first = [mind |-> m, replies |-> <<>>, others |-> <<>>]
  OBVIOUS
<1>2. SplitOK(x, 0, first)
  <2>1. Len(<<>>) = 0 /\ <<>> \in Seq(T)  OBVIOUS
  <2>2. {first.replies[j].about : j \in 1..Len(first.replies)} \cap Cancelled(x.old) = {}
    BY <1>1, <2>1
  <2> QED  BY <1>1, <2>1, <2>2 DEF SplitOK
<1>3. ASSUME NEW i \in 1..Len(mail), NEW split, SplitOK(x, i - 1, split)
      PROVE  SplitOK(x, i, IngestDo(x, split, mail[i]))
  <2>1. PICK e : e = mail[i] /\ e \in T  OBVIOUS
  <2>2. PICK n, r, o, F : /\ n = split.mind /\ r = split.replies /\ o = split.others
                         /\ F = {r[j].about : j \in 1..Len(r)} \cap Cancelled(old)
                         /\ r \in Seq(T) /\ o \in Seq(T) /\ Quiet(s, old, F, n)
    BY <1>1, <1>3 DEF SplitOK
  <2>3. DOMAIN split = {"mind", "replies", "others"}  BY <1>3 DEF SplitOK
  <2>4. CASE IsReply(n, e)
    <3>1. PICK h : h = [split EXCEPT !.mind = IngestReply(n, e), !.replies = Append(r, e)]  OBVIOUS
    <3>2. /\ DOMAIN h = {"mind", "replies", "others"} /\ h.mind = IngestReply(n, e)
          /\ h.replies = Append(r, e) /\ h.others = o
      BY <2>2, <2>3, <3>1
    <3>3. IngestDo(x, split, e) = h  BY <2>2, <2>4, <3>1 DEF IngestDo, IngestOne
    <3>4. Quiet(s, old, F \cup ({e.about} \cap Cancelled(old)), h.mind)
      BY <2>2, <2>4, <3>2, ReplyQuiet DEF IsReply
    <3>5. /\ Append(r, e) \in Seq(T) /\ Len(Append(r, e)) = Len(r) + 1 /\ Len(r) \in Nat
          /\ \A j \in 1..Len(r) : Append(r, e)[j] = r[j]
          /\ Append(r, e)[Len(r) + 1] = e
      BY <2>1, <2>2
    <3>6. {Append(r, e)[j].about : j \in 1..(Len(r) + 1)} = {r[j].about : j \in 1..Len(r)} \cup {e.about}
      <4>1. \A j \in 1..(Len(r) + 1) : j \in 1..Len(r) \/ j = Len(r) + 1  BY <3>5
      <4>2. \A j \in 1..Len(r) : j \in 1..(Len(r) + 1)  BY <3>5
      <4>3. Len(r) + 1 \in 1..(Len(r) + 1)  BY <3>5
      <4> QED  BY <3>5, <4>1, <4>2, <4>3
    <3>7. {h.replies[j].about : j \in 1..Len(h.replies)} \cap Cancelled(old)
            = F \cup ({e.about} \cap Cancelled(old))
      BY <2>2, <3>2, <3>5, <3>6
    <3>8. SplitOK(x, i, h)
      BY <1>1, <2>2, <3>2, <3>4, <3>5, <3>7 DEF SplitOK
    <3> QED  BY <2>1, <3>3, <3>8
  <2>5. CASE ~IsReply(n, e)
    <3>1. PICK h : h = [split EXCEPT !.others = Append(o, e)]  OBVIOUS
    <3>2. /\ DOMAIN h = {"mind", "replies", "others"} /\ h.mind = n
          /\ h.replies = r /\ h.others = Append(o, e)
      BY <2>2, <2>3, <3>1
    <3>3. IngestDo(x, split, e) = h  BY <2>2, <2>5, <3>1 DEF IngestDo, IngestOne
    <3>4. Append(o, e) \in Seq(T)  BY <2>1, <2>2
    <3>5. SplitOK(x, i, h)  BY <1>1, <2>2, <3>2, <3>4 DEF SplitOK
    <3> QED  BY <2>1, <3>3, <3>5
  <2> QED  BY <2>4, <2>5
<1>4. Len(mail) \in Nat  OBVIOUS
<1>0. Ingesting!Induction  BY NatIsAll DEF Ingesting!Induction
<1>5. SplitOK(x, Len(mail), Ingesting!Looped(x, first, mail))
  BY <1>0, <1>2, <1>3, <1>4, Ingesting!LoopKeeps
<1>6. Ingest(m, mail) = Ingesting!Looped(x, first, mail)
  BY <1>1 DEF Ingest, ForEach, Ingesting!Looped, IngestDo
<1> QED  BY <1>1, <1>5, <1>6

LEMMA AnyFence ==
  ASSUME NEW s, NEW old, NEW fenced, NEW m, Quiet(s, old, fenced, m)
  PROVE  Quiet(s, old, {}, m)
BY DEF Quiet

\* The loop of _fold.
FoldOK(x, i, m) == Quiet(x.s, x.old, x.fenced, m)
FoldDo(x, m, e) == Fold(m, e)
Folding == INSTANCE Loops WITH Do <- FoldDo, Inv <- FoldOK

LEMMA FoldsQuiet ==
  ASSUME NEW s, NEW old, NEW fenced, NEW m, Quiet(s, old, fenced, m),
         NEW replies, Len(replies) \in Nat,
         {replies[j].about : j \in 1..Len(replies)} \cap Cancelled(old) \subseteq fenced
  PROVE  Quiet(s, old, {}, ForEach(Fold, m, replies))
<1>1. PICK x : x = [s |-> s, old |-> old, fenced |-> fenced]  OBVIOUS
<1>2. FoldOK(x, 0, m)  BY <1>1 DEF FoldOK
<1>3. ASSUME NEW i \in 1..Len(replies), NEW n, FoldOK(x, i - 1, n)
      PROVE  FoldOK(x, i, FoldDo(x, n, replies[i]))
  <2>1. PICK e : e = replies[i]  OBVIOUS
  <2>2. Quiet(s, old, fenced, n)  BY <1>1, <1>3 DEF FoldOK
  <2>3. CASE e.about \in Cancelled(old)
    <3>1. n.panel[e.about].fenced = TRUE  BY <2>1, <2>2, <2>3 DEF Quiet
    <3>2. Fold(n, e) = n  BY <3>1 DEF Fold
    <3> QED  BY <1>1, <2>1, <2>2, <3>2 DEF FoldOK, FoldDo
  <2>4. CASE e.about \notin Cancelled(old)
    <3>1. Quiet(s, old, fenced, Fold(n, e))  BY <2>2, <2>4, SettleQuiet DEF Fold
    <3> QED  BY <1>1, <2>1, <3>1 DEF FoldOK, FoldDo
  <2> QED  BY <2>3, <2>4
<1>0. Folding!Induction  BY NatIsAll DEF Folding!Induction
<1>4. FoldOK(x, Len(replies), Folding!Looped(x, m, replies))
  BY <1>0, <1>2, <1>3, Folding!LoopKeeps
<1>5. ForEach(Fold, m, replies) = Folding!Looped(x, m, replies)
  BY DEF ForEach, Folding!Looped, FoldDo
<1> QED  BY <1>1, <1>4, <1>5, AnyFence DEF FoldOK

Parts == {"mind", "send", "spawn", "wake", "asked", "complete", "raised"}

IsList(q) == \E T : q \in Seq(T)

LEMMA ListAppend ==
  ASSUME NEW q, IsList(q), NEW e
  PROVE  IsList(Append(q, e)) /\ Len(Append(q, e)) = Len(q) + 1 /\ Len(q) \in Nat
<1>1. PICK T : q \in Seq(T)  BY DEF IsList
<1>2. q \in Seq(T \cup {e})  BY <1>1
<1>3. Append(q, e) \in Seq(T \cup {e}) /\ Len(Append(q, e)) = Len(q) + 1 /\ Len(q) \in Nat
  BY <1>2
<1> QED  BY <1>3 DEF IsList

\* A proposal that stays silent about what old has cancelled.
Silent(s, old, p) ==
  DOMAIN p = Parts /\ IsList(p.send) /\ Quiet(s, old, {}, p.mind)

LEMMA ProposalSilent ==
  ASSUME NEW s, NEW old, NEW m, Quiet(s, old, {}, m)
  PROVE  Silent(s, old, Proposal(m))
<1>1. <<>> \in Seq({})  OBVIOUS
<1>2. IsList(<<>>)  BY <1>1 DEF IsList
<1> QED  BY <1>2 DEF Silent, Proposal, Parts

\* Another mind in a proposal.
LEMMA MindSilent ==
  ASSUME NEW s, NEW old, NEW p, Silent(s, old, p), NEW m, Quiet(s, old, {}, m)
  PROVE  Silent(s, old, [p EXCEPT !.mind = m])
BY DEF Silent, Parts

LEMMA SendSilent ==
  ASSUME NEW s, NEW old, NEW p, Silent(s, old, p), NEW to, NEW e
  PROVE  Silent(s, old, Send(p, to, e))
<1>1. PICK q : q = Send(p, to, e)  OBVIOUS
<1>2. DOMAIN q = Parts /\ q.mind = p.mind /\ q.send = Append(p.send, <<to, e>>)
  BY <1>1 DEF Silent, Send, Parts
<1>3. IsList(q.send)  BY <1>2, ListAppend DEF Silent
<1> QED  BY <1>1, <1>2, <1>3 DEF Silent

LEMMA FinishSilent ==
  ASSUME NEW s, NEW old, NEW m, Quiet(s, old, {}, m), NEW status
  PROVE  Silent(s, old, FinishJob(s, m, status))
<1>1. PICK n : n = [m EXCEPT !.work = status]  OBVIOUS
<1>2. Quiet(s, old, {}, n)
  <2>1. DOMAIN m = Fields  BY DEF Quiet, MindOK
  <2> QED  BY <1>1, <2>1, SamePanel DEF Fields
<1>3. PICK p : p = Proposal(n)  OBVIOUS
<1>4. Silent(s, old, p)  BY <1>2, <1>3, ProposalSilent
<1>5. PICK q : q = Send(p, Parent(s), Event("result", s, s, status))  OBVIOUS
<1>6. Silent(s, old, q)  BY <1>4, <1>5, SendSilent
<1>7. FinishJob(s, m, status) = [q EXCEPT !.complete = TRUE]
  BY <1>1, <1>3, <1>5 DEF FinishJob
<1> QED  BY <1>6, <1>7 DEF Silent, Parts

\* One event that is no reply.
LEMMA TakeSilent ==
  ASSUME NEW s, NEW old, NEW p, Silent(s, old, p), NEW e
  PROVE  Silent(s, old, Take(s, p, e))
<1>1. PICK m : m = p.mind /\ Quiet(s, old, {}, m)  BY DEF Silent
<1>2. Silent(s, old, [p EXCEPT !.mind = Deliver(m)])  BY <1>1, DeliverQuiet, MindSilent
<1>3. Silent(s, old, [p EXCEPT !.mind = Deliver([m EXCEPT !.work = "working"])])
  <2>1. PICK n : n = [m EXCEPT !.work = "working"]  OBVIOUS
  <2>2. DOMAIN m = Fields  BY <1>1 DEF Quiet, MindOK
  <2>3. Quiet(s, old, {}, n)  BY <1>1, <2>1, <2>2, SamePanel DEF Fields
  <2> QED  BY <2>1, <2>3, DeliverQuiet, MindSilent
<1>4. Silent(s, old, FinishJob(s, m, "cancelled"))  BY <1>1, FinishSilent
<1>5. Silent(s, old, [p EXCEPT !.mind = FailWork(m, e.about)])  BY <1>1, FailQuiet, MindSilent
<1>6. Silent(s, old, [p EXCEPT !.raised = TRUE])  BY DEF Silent, Parts
<1>7. \/ Take(s, p, e) = p
      \/ Take(s, p, e) = [p EXCEPT !.mind = Deliver(m)]
      \/ Take(s, p, e) = [p EXCEPT !.mind = Deliver([m EXCEPT !.work = "working"])]
      \/ Take(s, p, e) = FinishJob(s, m, "cancelled")
      \/ Take(s, p, e) = [p EXCEPT !.mind = FailWork(m, e.about)]
      \/ Take(s, p, e) = [p EXCEPT !.raised = TRUE]
  BY <1>1 DEF Take
<1> QED  BY <1>2, <1>3, <1>4, <1>5, <1>6, <1>7

TakeOK(x, i, p) == Silent(x.s, x.old, p)
TakeDo(x, p, e) == Take(x.s, p, e)
Taking == INSTANCE Loops WITH Do <- TakeDo, Inv <- TakeOK

LEMMA TakesSilent ==
  ASSUME NEW s, NEW old, NEW p, Silent(s, old, p), NEW mail, Len(mail) \in Nat
  PROVE  Silent(s, old, TakeAll(s, p, mail))
<1>1. PICK x : x = [s |-> s, old |-> old]  OBVIOUS
<1>2. TakeOK(x, 0, p)  BY <1>1 DEF TakeOK
<1>3. ASSUME NEW i \in 1..Len(mail), NEW q, TakeOK(x, i - 1, q)
      PROVE  TakeOK(x, i, TakeDo(x, q, mail[i]))
  BY <1>1, <1>3, TakeSilent DEF TakeOK, TakeDo
<1>0. Taking!Induction  BY NatIsAll DEF Taking!Induction
<1>4. TakeOK(x, Len(mail), Taking!Looped(x, p, mail))
  BY <1>0, <1>2, <1>3, Taking!LoopKeeps
<1>5. TakeAll(s, p, mail) = Taking!Looped(x, p, mail)
  BY <1>1 DEF TakeAll, ForEach, Taking!Looped, TakeDo
<1> QED  BY <1>1, <1>4, <1>5 DEF TakeOK

\* The ingestion of a batch.
LEMMA IngestedSilent ==
  ASSUME NEW s, NEW m, MindOK(s, m), NEW T, NEW mail \in Seq(T)
  PROVE  Silent(s, m, Ingested(s, m, mail))
<1>1. Quiet(s, m, {}, m)  BY DEF Quiet
<1>2. PICK split : split = Ingest(m, mail)  OBVIOUS
<1>3. PICK F : /\ F = {split.replies[j].about : j \in 1..Len(split.replies)} \cap Cancelled(m)
               /\ split.replies \in Seq(T) /\ split.others \in Seq(T) /\ Quiet(s, m, F, split.mind)
  <2>1. PICK x : x = [s |-> s, old |-> m, mail |-> T]  OBVIOUS
  <2>2. SplitOK(x, Len(mail), split)  BY <1>1, <1>2, <2>1, IngestQuiet
  <2> QED  BY <2>1, <2>2 DEF SplitOK
<1>4. PICK told : told = ForEach(Fold, split.mind, split.replies)  OBVIOUS
<1>5. Quiet(s, m, {}, told)
  <2>1. PICK r, n : r = split.replies /\ n = split.mind  OBVIOUS
  <2>2. /\ Len(r) \in Nat /\ Quiet(s, m, F, n)
        /\ {r[j].about : j \in 1..Len(r)} \cap Cancelled(m) \subseteq F
    BY <1>3, <2>1
  <2>3. Quiet(s, m, {}, ForEach(Fold, n, r))  BY <2>2, FoldsQuiet
  <2> QED  BY <1>4, <2>1, <2>3
<1>6. PICK p : p = TakeAll(s, Proposal(told), split.others)  OBVIOUS
<1>7. Silent(s, m, p)
  <2>1. PICK q0, o : q0 = Proposal(told) /\ o = split.others  OBVIOUS
  <2>2. Len(o) \in Nat  BY <1>3, <2>1
  <2>3. Silent(s, m, q0)  BY <1>5, <2>1, ProposalSilent
  <2>4. Silent(s, m, TakeAll(s, q0, o))
    BY <2>2, <2>3, TakesSilent
  <2> QED  BY <1>6, <2>1, <2>4
<1>8. PICK due, n, late : /\ due = DueWaits(p.mind) /\ n = Promote(p.mind, due)
                          /\ late = [n EXCEPT !.deferred = @ \o SetToSeq(due)]
  OBVIOUS
<1>9. Quiet(s, m, {}, late)
  <2>1. Quiet(s, m, {}, n)  BY <1>7, <1>8, PromoteQuiet DEF Silent
  <2>2. DOMAIN n = Fields  BY <2>1 DEF Quiet, MindOK
  <2> QED  BY <1>8, <2>1, <2>2, SamePanel DEF Fields
<1>10. Silent(s, m, [p EXCEPT !.mind = Flush(late)])  BY <1>7, <1>9, FlushQuiet, MindSilent
<1>11. Ingested(s, m, mail) = p \/ Ingested(s, m, mail) = [p EXCEPT !.mind = Flush(late)]
  BY <1>2, <1>4, <1>6, <1>8 DEF Ingested
<1> QED  BY <1>7, <1>10, <1>11
-----------------------------------------------------------------------------
(* Calls.                                                                  *)

\* The call a mind has just counted has no entry yet.
JustCalled(s, m, c) ==
  m.calls \in Nat \ {0} /\ c = Append(s, m.calls) /\ c \notin DOMAIN m.panel

\* A session names its calls by their numbers.
LEMMA CallsDiffer ==
  ASSUME NEW s \in Sessions, NEW i \in Nat, NEW j \in Nat, Append(s, i) = Append(s, j)
  PROVE  i = j
<1>1. PICK T : T = (1..MostCalls) \cup Nat  OBVIOUS
<1>2. PICK d \in 0..Depth : s \in [1..d -> 1..MostCalls]  BY DEF Sessions
<1>3. d \in Nat  BY AgentBounds
<1>4. s \in [1..d -> T]  BY <1>1, <1>2
<1>5. s \in Seq(T)  BY <1>3, <1>4
<1>6. i \in T /\ j \in T  BY <1>1
<1>7. Append(s, i)[Len(s) + 1] = i /\ Append(s, j)[Len(s) + 1] = j  BY <1>5, <1>6
<1> QED  BY <1>7

LEMMA CallQuiet ==
  ASSUME NEW s \in Sessions, NEW old, NEW m, Quiet(s, old, {}, m),
         NEW n, n = [m EXCEPT !.calls = @ + 1]
  PROVE  Quiet(s, old, {}, n) /\ JustCalled(s, n, Append(s, m.calls + 1))
<1>1. DOMAIN m = Fields /\ m.calls \in Nat  BY DEF Quiet, MindOK
<1>2. /\ DOMAIN n = Fields /\ n.panel = m.panel /\ n.heard = m.heard
      /\ n.calls = m.calls + 1 /\ n.calls \in Nat
  BY <1>1 DEF Fields
<1>3. MindOK(s, n)
  <2>1. \A k \in 1..m.calls : k \in 1..(m.calls + 1)  BY <1>1
  <2> QED  BY <1>2, <2>1 DEF Quiet, MindOK
<1>4. Append(s, m.calls + 1) \notin DOMAIN m.panel
  <2>1. SUFFICES ASSUME Append(s, m.calls + 1) \in DOMAIN m.panel  PROVE FALSE  OBVIOUS
  <2>2. PICK k \in 1..m.calls : Append(s, m.calls + 1) = Append(s, k)
    BY <2>1 DEF Quiet, MindOK
  <2>3. m.calls + 1 \in Nat /\ k \in Nat  BY <1>1
  <2>4. m.calls + 1 = k  BY <2>2, <2>3, CallsDiffer
  <2> QED  BY <1>1, <2>2, <2>4
<1>5. Quiet(s, old, {}, n)  BY <1>2, <1>3 DEF Quiet, Cancelled
<1>6. JustCalled(s, n, Append(s, m.calls + 1))
  BY <1>1, <1>2, <1>4 DEF JustCalled
<1> QED  BY <1>5, <1>6

LEMMA OpenQuiet ==
  ASSUME NEW s, NEW old, NEW m, Quiet(s, old, {}, m), NEW c, JustCalled(s, m, c),
         NEW mode, NEW until, NEW interruptible, NEW grants
  PROVE  Quiet(s, old, {}, OpenEntry(m, c, mode, until, interruptible, grants))
<1>1. PICK n : n = OpenEntry(m, c, mode, until, interruptible, grants)  OBVIOUS
<1>2. DOMAIN m = Fields  BY DEF Quiet, MindOK
<1>3. PICK e : e = [mode |-> mode, status |-> "working", until |-> until,
                    interruptible |-> interruptible, grants |-> grants, fenced |-> FALSE]
  OBVIOUS
<1>4. /\ DOMAIN n = Fields /\ n.heard = m.heard /\ n.calls = m.calls
      /\ n.panel = [d \in DOMAIN m.panel \cup {c} |-> IF d = c THEN e ELSE m.panel[d]]
  BY <1>1, <1>2, <1>3 DEF OpenEntry, Fields
<1>5. /\ DOMAIN n.panel = DOMAIN m.panel \cup {c} /\ n.panel[c] = e
      /\ \A d \in DOMAIN m.panel : n.panel[d] = m.panel[d]
  BY <1>4 DEF JustCalled
<1>6. DOMAIN e = EntryFields  BY <1>3 DEF EntryFields
<1>7. \E k \in 1..n.calls : c = Append(s, k)
  <2>1. n.calls \in Nat \ {0} /\ c = Append(s, n.calls)  BY <1>4 DEF JustCalled
  <2> QED  BY <2>1
<1>8. MindOK(s, n)  BY <1>4, <1>5, <1>6, <1>7 DEF Quiet, MindOK
<1> QED  BY <1>1, <1>4, <1>5, <1>8 DEF Quiet, Cancelled

\* A child is spawned with another mind in the proposal.
LEMMA SpawnSilent ==
  ASSUME NEW s, NEW old, NEW p, Silent(s, old, p), NEW m, Quiet(s, old, {}, m), NEW child
  PROVE  Silent(s, old, [p EXCEPT !.mind = m, !.spawn = @ \cup {child}])
BY DEF Silent, Parts

LEMMA DelegateSilent ==
  ASSUME NEW s, NEW old, NEW p, Silent(s, old, p), NEW c, JustCalled(s, p.mind, c), NEW mode
  PROVE  Silent(s, old, Delegate(p, c, mode)) /\ Silent(s, old, AwaitTool(p, c))
<1>1. PICK m : m = p.mind /\ Quiet(s, old, {}, m)  BY DEF Silent
<1>2. Silent(s, old, Delegate(p, c, mode))
  <2>1. PICK until, opened :
          /\ until = IF mode = "wait" /\ Budgeted THEN "later" ELSE "none"
          /\ opened = OpenEntry(m, c, mode, until, Interruptible, {"steer", "cancel", "answer"})
    OBVIOUS
  <2>2. Quiet(s, old, {}, opened)  BY <1>1, <2>1, OpenQuiet
  <2>3. Quiet(s, old, {}, Write(opened, c))  BY <2>2, DeferQuiet
  <2>4. PICK n : n = (IF mode = "wait" THEN opened ELSE Write(opened, c)) /\ Quiet(s, old, {}, n)
    BY <2>2, <2>3
  <2>5. PICK q : q = [p EXCEPT !.mind = n, !.spawn = @ \cup {<<c, "agent">>}]  OBVIOUS
  <2>6. Silent(s, old, q)  BY <2>4, <2>5, SpawnSilent
  <2>7. Delegate(p, c, mode) = Send(q, c, Event("request", c, c, ""))
    BY <1>1, <2>1, <2>4, <2>5 DEF Delegate
  <2> QED  BY <2>6, <2>7, SendSilent
<1>3. Silent(s, old, AwaitTool(p, c))
  <2>1. PICK n : n = OpenEntry(m, c, "wait", "none", FALSE, {})  OBVIOUS
  <2>2. Quiet(s, old, {}, n)  BY <1>1, <2>1, OpenQuiet
  <2>3. PICK q : q = [p EXCEPT !.mind = n, !.spawn = @ \cup {<<c, "runner">>}]  OBVIOUS
  <2>4. Silent(s, old, q)  BY <2>2, <2>3, SpawnSilent
  <2>5. AwaitTool(p, c) = Send(q, c, Event("request", c, c, ""))
    BY <1>1, <2>1, <2>3 DEF AwaitTool
  <2> QED  BY <2>4, <2>5, SendSilent
<1> QED  BY <1>2, <1>3

\* Cancelling only adds to what is cancelled.
LEMMA CancelQuiet ==
  ASSUME NEW s, NEW old, NEW m, Quiet(s, old, {}, m), NEW w,
         NEW n, n = [m EXCEPT !.panel[w].status = "cancelled", !.panel[w].mode = "connected"]
  PROVE  Quiet(s, old, {}, n)
<1>1. DOMAIN m = Fields  BY DEF Quiet, MindOK
<1>2. /\ DOMAIN n = Fields /\ n.heard = m.heard /\ n.calls = m.calls
      /\ n.panel = [[m.panel EXCEPT ![w].status = "cancelled"] EXCEPT ![w].mode = "connected"]
  BY <1>1 DEF Fields
<1>3. /\ DOMAIN n.panel = DOMAIN m.panel
      /\ \A d \in DOMAIN m.panel : /\ DOMAIN n.panel[d] = DOMAIN m.panel[d]
                                   /\ d # w => n.panel[d] = m.panel[d]
  BY <1>2
<1>4. w \in DOMAIN m.panel => n.panel[w].status = "cancelled"
  <2>1. SUFFICES ASSUME w \in DOMAIN m.panel PROVE n.panel[w].status = "cancelled"  OBVIOUS
  <2>2. PICK e : e = m.panel[w] /\ DOMAIN e = EntryFields  BY <2>1 DEF Quiet, MindOK
  <2>3. n.panel[w] = [[e EXCEPT !.status = "cancelled"] EXCEPT !.mode = "connected"]
    BY <1>2, <2>1, <2>2
  <2> QED  BY <2>2, <2>3 DEF EntryFields
<1>5. MindOK(s, n)  BY <1>2, <1>3 DEF Quiet, MindOK
<1> QED  BY <1>2, <1>3, <1>4, <1>5 DEF Quiet, Cancelled

LEMMA ControlSilent ==
  ASSUME NEW s, NEW old, NEW p, Silent(s, old, p), NEW c, NEW name, NEW w
  PROVE  Silent(s, old, Control(p, c, name, w))
<1>1. PICK m : m = p.mind /\ Quiet(s, old, {}, m)  BY DEF Silent
<1>2. PICK refused : refused = [p EXCEPT !.mind = Write(m, c)]  OBVIOUS
<1>3. Silent(s, old, refused)  BY <1>1, <1>2, DeferQuiet, MindSilent
<1>4. Silent(s, old, Send(refused, w, Event("steer", c, w, "")))  BY <1>3, SendSilent
<1>5. ASSUME m.panel[w].status = "input_required"
      PROVE  Silent(s, old, Send([p EXCEPT !.mind = Write(Restated(m, w, "working"), c)],
                                 w, Event("answer", c, w, "")))
  <2>1. w \notin Cancelled(old)  BY <1>1, <1>5 DEF Quiet, Cancelled
  <2>2. PICK n : n = Restated(m, w, "working") /\ Quiet(s, old, {}, n)
    BY <1>1, <2>1, StatusQuiet
  <2>3. PICK q : q = [p EXCEPT !.mind = Write(n, c)] /\ Silent(s, old, q)
    BY <2>2, DeferQuiet, MindSilent
  <2> QED  BY <2>2, <2>3, SendSilent
<1>6. Silent(s, old, Cancel(p, c, w))
  <2>1. PICK n : n = [m EXCEPT !.panel[w].status = "cancelled", !.panel[w].mode = "connected"]
    OBVIOUS
  <2>2. Quiet(s, old, {}, n)  BY <1>1, <2>1, CancelQuiet
  <2>3. PICK d : d = (IF m.panel[w].mode = "wait" THEN Defer(n, w) ELSE n) /\ Quiet(s, old, {}, d)
    BY <2>2, DeferQuiet
  <2>4. PICK q : q = [p EXCEPT !.mind = Write(d, c)] /\ Silent(s, old, q)
    BY <2>3, DeferQuiet, MindSilent
  <2>5. Cancel(p, c, w) = Send(q, w, Event("cancel", c, w, ""))
    BY <1>1, <2>1, <2>3, <2>4 DEF Cancel
  <2> QED  BY <2>4, <2>5, SendSilent
<1>7. \/ Control(p, c, name, w) = refused
      \/ Control(p, c, name, w) = Send(refused, w, Event("steer", c, w, ""))
      \/ /\ m.panel[w].status = "input_required"
         /\ Control(p, c, name, w) = Send([p EXCEPT !.mind = Write(Restated(m, w, "working"), c)],
                                          w, Event("answer", c, w, ""))
      \/ Control(p, c, name, w) = Cancel(p, c, w)
  BY <1>1, <1>2 DEF Control, Restated
<1> QED  BY <1>3, <1>4, <1>5, <1>6, <1>7

LEMMA AskSilent ==
  ASSUME NEW s, NEW old, NEW p, Silent(s, old, p), NEW c
  PROVE  Silent(s, old, Ask(s, p, c))
<1>1. PICK m, n : m = p.mind /\ n = [m EXCEPT !.work = "input_required"]  OBVIOUS
<1>2. Quiet(s, old, {}, n)
  <2>1. Quiet(s, old, {}, m) /\ DOMAIN m = Fields  BY <1>1 DEF Silent, Quiet, MindOK
  <2> QED  BY <1>1, <2>1, SamePanel DEF Fields
<1>3. Quiet(s, old, {}, Write(n, c))  BY <1>2, DeferQuiet
<1>4. PICK q : q = [p EXCEPT !.mind = Write(n, c), !.asked = TRUE]  OBVIOUS
<1>5. Silent(s, old, q)  BY <1>3, <1>4 DEF Silent, Parts
<1>6. Ask(s, p, c) = Send(q, Parent(s), Event("ask", c, s, ""))
  BY <1>1, <1>4 DEF Ask
<1> QED  BY <1>5, <1>6, SendSilent

LEMMA RunCallSilent ==
  ASSUME NEW s \in Sessions, NEW old, NEW p, Silent(s, old, p), NEW call
  PROVE  Silent(s, old, RunCall(s, p, call))
<1>1. PICK m : m = p.mind /\ Quiet(s, old, {}, m)  BY DEF Silent
<1>2. PICK n : n = [m EXCEPT !.calls = @ + 1]  OBVIOUS
<1>3. PICK c : c = Append(s, m.calls + 1) /\ JustCalled(s, n, c) /\ Quiet(s, old, {}, n)
  BY <1>1, <1>2, CallQuiet
<1>4. PICK q : q = [p EXCEPT !.mind = n]  OBVIOUS
<1>5. Silent(s, old, q)  BY <1>3, <1>4, MindSilent
<1>6. q.mind = n /\ JustCalled(s, q.mind, c)  BY <1>3, <1>4 DEF Silent, Parts
<1>7. Silent(s, old, Delegate(q, c, call.name)) /\ Silent(s, old, AwaitTool(q, c))
  BY <1>5, <1>6, DelegateSilent
<1>8. Silent(s, old, Control(q, c, call.name, call.work))  BY <1>5, ControlSilent
<1>9. Silent(s, old, Ask(s, q, c))  BY <1>5, AskSilent
<1>10. Silent(s, old, [q EXCEPT !.mind = Write(@, c)])
  BY <1>3, <1>5, <1>6, DeferQuiet, MindSilent
<1>11. q = [p EXCEPT !.mind.calls = @ + 1]  BY <1>1, <1>2, <1>4
<1>12. \/ RunCall(s, p, call) = Delegate(q, c, call.name)
       \/ RunCall(s, p, call) = AwaitTool(q, c)
       \/ RunCall(s, p, call) = Control(q, c, call.name, call.work)
       \/ RunCall(s, p, call) = Ask(s, q, c)
       \/ RunCall(s, p, call) = [q EXCEPT !.mind = Write(@, c)]
  BY <1>1, <1>3, <1>11 DEF RunCall
<1> QED  BY <1>7, <1>8, <1>9, <1>10, <1>12

\* The loop over the calls of a reply.
CallDo(x, p, call) == RunCall(x.s, p, call)
Calling == INSTANCE Loops WITH Do <- CallDo, Inv <- TakeOK

LEMMA RunCallsSilent ==
  ASSUME NEW s \in Sessions, NEW old, NEW p, Silent(s, old, p), NEW calls, Len(calls) \in Nat
  PROVE  Silent(s, old, RunCalls(s, p, calls))
<1>1. PICK x : x = [s |-> s, old |-> old]  OBVIOUS
<1>2. TakeOK(x, 0, p)  BY <1>1 DEF TakeOK
<1>3. ASSUME NEW i \in 1..Len(calls), NEW q, TakeOK(x, i - 1, q)
      PROVE  TakeOK(x, i, CallDo(x, q, calls[i]))
  BY <1>1, <1>3, RunCallSilent DEF TakeOK, CallDo
<1>0. Calling!Induction  BY NatIsAll DEF Calling!Induction
<1>4. TakeOK(x, Len(calls), Calling!Looped(x, p, calls))
  BY <1>0, <1>2, <1>3, Calling!LoopKeeps
<1>5. RunCalls(s, p, calls) = Calling!Looped(x, p, calls)
  BY <1>1 DEF RunCalls, ForEach, Calling!Looped, CallDo
<1> QED  BY <1>1, <1>4, <1>5 DEF TakeOK

LEMMA TurnSilent ==
  ASSUME NEW s \in Sessions, NEW old, NEW p, Silent(s, old, p), NEW calls, Len(calls) \in Nat
  PROVE  Silent(s, old, Turn(s, p, calls))
<1>1. PICK m, n : m = p.mind /\ n = [m EXCEPT !.tail = "assistant"]  OBVIOUS
<1>2. Quiet(s, old, {}, n)
  <2>1. Quiet(s, old, {}, m) /\ DOMAIN m = Fields  BY <1>1 DEF Silent, Quiet, MindOK
  <2> QED  BY <1>1, <2>1, SamePanel DEF Fields
<1>3. PICK said : said = [p EXCEPT !.mind = n]  OBVIOUS
<1>4. Silent(s, old, said) /\ said.mind = n  BY <1>2, <1>3, MindSilent DEF Silent, Parts
<1>5. PICK ran : ran = RunCalls(s, said, calls) /\ Silent(s, old, ran)
  BY <1>4, RunCallsSilent
<1>6. \A wake : Silent(s, old, [ran EXCEPT !.wake = wake])  BY <1>5 DEF Silent, Parts
<1>7. Silent(s, old, FinishJob(s, n, "completed"))  BY <1>2, FinishSilent
<1>8. said = [p EXCEPT !.mind.tail = "assistant"]  BY <1>1, <1>3
<1>9. \/ \E wake : Turn(s, p, calls) = [ran EXCEPT !.wake = wake]
      \/ Turn(s, p, calls) = FinishJob(s, n, "completed")
      \/ Turn(s, p, calls) = said
  <2>1. CASE calls # <<>>  BY <1>5, <1>8, <2>1 DEF Turn
  <2>2. CASE calls = <<>>  BY <1>4, <1>5, <1>8, <2>2 DEF Turn
  <2> QED  BY <2>1, <2>2
<1> QED  BY <1>4, <1>6, <1>7, <1>9

\* What the model may reply with is a list.
LEMMA RepliesAreLists ==
  ASSUME NEW s \in Sessions, NEW m, MindOK(s, m), NEW calls \in Replies(s, m)
  PROVE  Len(calls) \in Nat
<1>1. Len(s) \in 0..Depth
  <2>1. PICK d \in 0..Depth : s \in [1..d -> 1..MostCalls]  BY DEF Sessions
  <2>2. PICK T : T = 1..MostCalls  OBVIOUS
  <2>3. d \in Nat  BY <2>1, AgentBounds
  <2>4. s \in [1..d -> T]  BY <2>1, <2>2
  <2>5. Len(s) = d  BY <2>3, <2>4
  <2> QED  BY <2>5
<1>2. MaxCalls[Len(s)] \in Nat  BY <1>1, AgentBounds
<1>3. PICK left : left = MaxCalls[Len(s)] - m.calls /\ left \in Int
  BY <1>2 DEF MindOK
<1>4. PICK most : most = (IF left < MaxTurnCalls THEN left ELSE MaxTurnCalls) /\ most \in Int
  BY <1>3, AgentBounds
<1>5. PICK O : O = Offered(s, m)  OBVIOUS
<1>6. PICK n \in 0..most : calls \in [1..n -> O]
  BY <1>3, <1>4, <1>5 DEF Replies
<1>7. n \in Nat  BY <1>4
<1>8. Len(calls) = n  BY <1>6, <1>7
<1> QED  BY <1>7, <1>8

\* Whatever a handler proposes is silent about what was cancelled before it.
LEMMA HandlerSilent ==
  ASSUME NEW s \in Sessions, MindOK(s, mind[s]), NEW T, NEW mail \in Seq(T), NEW more,
         NEW p \in Handler(s, mail, more)
  PROVE  Silent(s, mind[s], p)
<1>1. PICK m : m = mind[s] /\ MindOK(s, m)  OBVIOUS
<1>2. Quiet(s, m, {}, m)  BY <1>1 DEF Quiet
<1>3. CASE p \in Resume(s, mail, more)
  <2>1. PICK q : q = Ingested(s, m, mail)  OBVIOUS
  <2>2. Silent(s, m, q)  BY <1>1, <2>1, IngestedSilent
  <2>3. \A wake : Silent(s, m, [q EXCEPT !.wake = wake])  BY <2>2 DEF Silent, Parts
  <2>4. \A calls \in Replies(s, q.mind) : Silent(s, m, Turn(s, q, calls))
    <3>1. TAKE calls \in Replies(s, q.mind)
    <3>2. MindOK(s, q.mind)  BY <2>2 DEF Silent, Quiet
    <3>3. Len(calls) \in Nat  BY <3>2, RepliesAreLists
    <3> QED  BY <2>2, <3>3, TurnSilent
  <2>5. \/ p = q \/ \E wake : p = [q EXCEPT !.wake = wake]
        \/ \E calls \in Replies(s, q.mind) : p = Turn(s, q, calls)
    BY <1>1, <1>3, <2>1 DEF Resume
  <2> QED  BY <1>1, <2>2, <2>3, <2>4, <2>5
<1>4. CASE p = RunTool(s, mail, more)
  <2>1. PICK n : n = [m EXCEPT !.work = IF {i \in DOMAIN mail : mail[i].kind = "request"} # {}
                                        THEN "working" ELSE @]
    OBVIOUS
  <2>2. Quiet(s, m, {}, n)
    <3>1. DOMAIN m = Fields  BY <1>1 DEF MindOK
    <3> QED  BY <1>2, <2>1, <3>1, SamePanel DEF Fields
  <2>3. PICK q : q = Proposal(n) /\ Silent(s, m, q)  BY <2>2, ProposalSilent
  <2>4. Silent(s, m, [q EXCEPT !.raised = TRUE])  BY <2>3 DEF Silent, Parts
  <2>5. Silent(s, m, FinishJob(s, n, "completed"))  BY <2>2, FinishSilent
  <2>6. p = q \/ p = [q EXCEPT !.raised = TRUE] \/ p = FinishJob(s, n, "completed")
    BY <1>1, <1>4, <2>1, <2>3 DEF RunTool
  <2> QED  BY <1>1, <2>3, <2>4, <2>5, <2>6
<1> QED  BY <1>3, <1>4 DEF Handler
-----------------------------------------------------------------------------
(* The store.                                                              *)

LEMMA ListConcat ==
  ASSUME NEW q, IsList(q), NEW r, IsList(r)
  PROVE  IsList(q \o r) /\ Len(q \o r) = Len(q) + Len(r) /\ Len(q) \in Nat /\ Len(r) \in Nat
<1>1. PICK T : q \in Seq(T)  BY DEF IsList
<1>2. PICK U : r \in Seq(U)  BY DEF IsList
<1>3. PICK V : V = T \cup U  OBVIOUS
<1>4. q \in Seq(V) /\ r \in Seq(V)  BY <1>1, <1>2, <1>3
<1>5. q \o r \in Seq(V) /\ Len(q \o r) = Len(q) + Len(r) /\ Len(q) \in Nat /\ Len(r) \in Nat
  BY <1>4
<1> QED  BY <1>5 DEF IsList

LEMMA ListPart ==
  ASSUME NEW T, NEW q \in Seq(T), NEW n \in 0..Len(q)
  PROVE  SubSeq(q, 1, n) \in Seq(T) /\ SubSeq(q, n + 1, Len(q)) \in Seq(T)
<1>1. Len(q) \in Nat  OBVIOUS
<1>2. \A i \in 1..n : q[i] \in T  BY <1>1
<1>3. \A i \in (n + 1)..Len(q) : q[i] \in T  BY <1>1
<1>4. n \in Int /\ 1 \in Int /\ n + 1 \in Int /\ Len(q) \in Int  BY <1>1
<1>5. SubSeq(q, 1, n) \in Seq(T)  BY <1>2, <1>4, SubSeqProperties
<1>6. SubSeq(q, n + 1, Len(q)) \in Seq(T)  BY <1>3, <1>4, SubSeqProperties
<1> QED  BY <1>5, <1>6

\* The mail staged for a session is a list.
MailOK(x, i, q) == IsList(q)
MailDo(x, q, item) == IF item[1] = x THEN Append(q, item[2]) ELSE q
Mailing == INSTANCE Loops WITH Do <- MailDo, Inv <- MailOK

LEMMA MailForIsList ==
  ASSUME NEW t, NEW p, IsList(p.send)
  PROVE  IsList(MailFor(t, p))
<1>1. PICK mail : mail = p.send /\ Len(mail) \in Nat  BY DEF IsList
<1>2. MailOK(t, 0, <<>>)
  <2>1. <<>> \in Seq({})  OBVIOUS
  <2> QED  BY <2>1 DEF MailOK, IsList
<1>3. ASSUME NEW i \in 1..Len(mail), NEW q, MailOK(t, i - 1, q)
      PROVE  MailOK(t, i, MailDo(t, q, mail[i]))
  BY <1>3, ListAppend DEF MailOK, MailDo
<1>0. Mailing!Induction  BY NatIsAll DEF Mailing!Induction
<1>4. MailOK(t, Len(mail), Mailing!Looped(t, <<>>, mail))
  BY <1>0, <1>1, <1>2, <1>3, Mailing!LoopKeeps
<1>5. MailFor(t, p) = Mailing!Looped(t, <<>>, mail)
  BY <1>1 DEF MailFor, ForEach, Mailing!Looped, MailDo
<1> QED  BY <1>4, <1>5 DEF MailOK

RowFields == {"status", "kind", "wake", "revision", "attempts", "held", "batch", "more"}

\* Of each session: its mind, its mail and how much of it was delivered.
SessionOK(s, m, mail, r) ==
  /\ MindOK(s, m) /\ IsList(mail)
  /\ DOMAIN r = RowFields /\ r.batch \in 0..Len(mail)

MindsOK ==
  /\ DOMAIN mind = Sessions /\ DOMAIN inbox = Sessions /\ DOMAIN row = Sessions
  /\ \A s \in Sessions : SessionOK(s, mind[s], inbox[s], row[s])

LEMMA InitMinds == Init => MindsOK
<1> SUFFICES ASSUME Init PROVE MindsOK  OBVIOUS
<1>1. DOMAIN mind = Sessions /\ DOMAIN inbox = Sessions /\ DOMAIN row = Sessions
  BY DEF Init
<1>2. ASSUME NEW s \in Sessions  PROVE SessionOK(s, mind[s], inbox[s], row[s])
  <2>1. mind[s] = NewMind(s) /\ inbox[s] = <<>> /\ row[s] = NoRow  BY DEF Init
  <2>2. DOMAIN NewMind(s) = Fields /\ NewMind(s).calls = 0 /\ NewMind(s).panel = <<>>
    BY DEF NewMind, Fields
  <2>3. DOMAIN <<>> = {}  OBVIOUS
  <2>4. MindOK(s, NewMind(s))  BY <2>2, <2>3 DEF MindOK
  <2>5. <<>> \in Seq({}) /\ Len(<<>>) = 0  OBVIOUS
  <2>6. DOMAIN NoRow = RowFields /\ NoRow.batch = 0  BY DEF NoRow, RowFields
  <2> QED  BY <2>1, <2>4, <2>5, <2>6 DEF SessionOK, IsList
<1> QED  BY <1>1, <1>2 DEF MindsOK

\* Mail is added to one session's, and a row changed.
LEMMA MailMinds ==
  ASSUME MindsOK, NEW s \in Sessions, NEW e,
         inbox' = [inbox EXCEPT ![s] = Append(@, e)], UNCHANGED <<row, mind>>
  PROVE  MindsOK'
<1>1. ASSUME NEW t \in Sessions  PROVE SessionOK(t, mind[t], inbox'[t], row[t])
  <2>1. SessionOK(t, mind[t], inbox[t], row[t])  BY DEF MindsOK
  <2>2. CASE t = s
    <3>1. PICK q : q = inbox[t] /\ IsList(q) /\ row[t].batch \in 0..Len(q)
      BY <2>1 DEF SessionOK
    <3>2. inbox'[t] = Append(q, e)  BY <2>2, <3>1 DEF MindsOK
    <3>3. IsList(Append(q, e)) /\ Len(Append(q, e)) = Len(q) + 1 /\ Len(q) \in Nat
      BY <3>1, ListAppend
    <3>4. row[t].batch \in 0..(Len(q) + 1)  BY <3>1, <3>3
    <3> QED  BY <2>1, <3>2, <3>3, <3>4 DEF SessionOK
  <2>3. CASE t # s
    <3>1. inbox'[t] = inbox[t]  BY <2>3 DEF MindsOK
    <3> QED  BY <2>1, <3>1
  <2> QED  BY <2>2, <2>3
<1> QED  BY <1>1 DEF MindsOK

LEMMA RowMinds ==
  ASSUME MindsOK, NEW s \in Sessions, NEW r, DOMAIN r = RowFields, r.batch \in {0, row[s].batch},
         row' = [row EXCEPT ![s] = r], UNCHANGED <<inbox, mind>>
  PROVE  MindsOK'
<1>1. ASSUME NEW t \in Sessions  PROVE SessionOK(t, mind[t], inbox[t], row'[t])
  <2>1. SessionOK(t, mind[t], inbox[t], row[t])  BY DEF MindsOK
  <2>2. Len(inbox[t]) \in Nat  BY <2>1 DEF SessionOK, IsList
  <2>3. 0 \in 0..Len(inbox[t])  BY <2>2
  <2>4. row'[t] = IF t = s THEN r ELSE row[t]  BY DEF MindsOK
  <2> QED  BY <2>1, <2>3, <2>4 DEF SessionOK
<1> QED  BY <1>1 DEF MindsOK

LEMMA ClaimMinds ==
  ASSUME MindsOK, NEW s \in Sessions, Claim(s)
  PROVE  MindsOK'
<1>1. SessionOK(s, mind[s], inbox[s], row[s])  BY DEF MindsOK
<1>2. PICK mail : /\ mail = inbox[s] \/ mail = Append(inbox[s], Timer(row[s].revision))
                  /\ inbox' = [inbox EXCEPT ![s] = mail]
                  /\ row' = [row EXCEPT ![s].held = TRUE, ![s].attempts = @ + 1,
                                        ![s].batch = Batch(mail), ![s].more = Batch(mail) < Len(mail)]
  BY DEF Claim
<1>3. IsList(mail)  BY <1>1, <1>2, ListAppend DEF SessionOK
<1>4. Len(mail) \in Nat  BY <1>3 DEF IsList
<1>5. Batch(mail) \in 0..Len(mail)  BY <1>4, AgentBounds DEF Batch
<1>6. PICK r : r = [row[s] EXCEPT !.held = TRUE, !.attempts = @ + 1,
                                  !.batch = Batch(mail), !.more = Batch(mail) < Len(mail)]
  OBVIOUS
<1>7. DOMAIN r = RowFields /\ r.batch = Batch(mail)  BY <1>1, <1>6 DEF SessionOK, RowFields
<1>8. row' = [row EXCEPT ![s] = r]  BY <1>2, <1>6
<1>9. UNCHANGED mind  BY DEF Claim
<1>10. ASSUME NEW t \in Sessions  PROVE SessionOK(t, mind[t], inbox'[t], row'[t])
  <2>1. SessionOK(t, mind[t], inbox[t], row[t])  BY DEF MindsOK
  <2>2. /\ inbox'[t] = IF t = s THEN mail ELSE inbox[t]
        /\ row'[t] = IF t = s THEN r ELSE row[t]
    BY <1>2, <1>8 DEF MindsOK
  <2> QED  BY <1>3, <1>5, <1>7, <2>1, <2>2 DEF SessionOK
<1> QED  BY <1>2, <1>8, <1>9, <1>10 DEF MindsOK

\* What is closed leaves the table when the step is committed.
LEMMA TableKeeps ==
  ASSUME NEW s, NEW m, MindOK(s, m)
  PROVE  MindOK(s, Table(m)) /\ Table(m).heard = m.heard
<1>1. PICK n : n = Table(m)  OBVIOUS
<1>2. /\ DOMAIN n = Fields /\ n.heard = m.heard /\ n.calls = m.calls
      /\ n.panel = [c \in DOMAIN m.panel \ m.closed |-> m.panel[c]]
  BY <1>1 DEF Table, MindOK, Fields
<1>3. /\ DOMAIN n.panel \subseteq DOMAIN m.panel
      /\ \A c \in DOMAIN n.panel : n.panel[c] = m.panel[c]
  BY <1>2
<1> QED  BY <1>1, <1>2, <1>3 DEF MindOK

LEMMA CommitMinds ==
  ASSUME MindsOK, NEW s \in Sessions, NEW p, Silent(s, mind[s], p), Commit(s, p)
  PROVE  MindsOK'
<1>1. IsList(p.send) /\ MindOK(s, p.mind)  BY DEF Silent, Quiet
<1>2. /\ DOMAIN mind' = Sessions
      /\ \A t \in Sessions : mind'[t] = IF t = s THEN Table(p.mind) ELSE mind[t]
  BY DEF Commit, MindsOK
<1>3. DOMAIN inbox' = Sessions /\ DOMAIN row' = Sessions  BY DEF Commit
<1>4. ASSUME NEW t \in Sessions  PROVE SessionOK(t, mind'[t], inbox'[t], row'[t])
  <2>1. SessionOK(t, mind[t], inbox[t], row[t])  BY DEF MindsOK
  <2>2. MindOK(t, mind'[t])  BY <1>1, <1>2, <2>1, TableKeeps DEF SessionOK
  <2>3. PICK r : r = MailFor(t, p) /\ IsList(r)  BY <1>1, MailForIsList
  <2>4. CASE t = s
    <3>1. PICK q, b : q = inbox[s] /\ b = row[s].batch /\ IsList(q) /\ b \in 0..Len(q)
      BY <2>1, <2>4 DEF SessionOK
    <3>2. PICK T : q \in Seq(T)  BY <3>1 DEF IsList
    <3>3. PICK rest : rest = SubSeq(q, b + 1, Len(q)) /\ rest \in Seq(T)
      BY <3>1, <3>2, ListPart
    <3>4. IsList(rest)  BY <3>3 DEF IsList
    <3>5. inbox'[t] = rest \o r  BY <2>3, <2>4, <3>1, <3>3 DEF Commit
    <3>6. IsList(inbox'[t]) /\ Len(inbox'[t]) \in Nat
      BY <2>3, <3>4, <3>5, ListConcat
    <3>7. PICK u : u = Unheld(row[s])  OBVIOUS
    <3>8. DOMAIN u = RowFields /\ u.batch = 0
      BY <2>1, <2>4, <3>7 DEF SessionOK, Unheld, RowFields
    <3>9. PICK v : /\ v = row'[t]
                   /\ v = [u EXCEPT !.status = IF p.complete THEN "complete" ELSE "live",
                                    !.wake = p.wake, !.revision = @ + 1, !.attempts = 0]
      BY <2>4, <3>7 DEF Commit
    <3>10. DOMAIN v = RowFields /\ v.batch = 0  BY <3>8, <3>9 DEF RowFields
    <3>11. v.batch \in 0..Len(inbox'[t])  BY <3>6, <3>10
    <3> QED  BY <2>2, <3>6, <3>9, <3>10, <3>11 DEF SessionOK
  <2>5. CASE t # s
    <3>1. PICK q : q = inbox[t] /\ IsList(q) /\ row[t].batch \in 0..Len(q)
      BY <2>1 DEF SessionOK
    <3>2. inbox'[t] = q \o r  BY <2>3, <2>5, <3>1 DEF Commit
    <3>3. IsList(q \o r) /\ Len(q \o r) = Len(q) + Len(r) /\ Len(q) \in Nat /\ Len(r) \in Nat
      BY <2>3, <3>1, ListConcat
    <3>4. row'[t] = row[t] \/ \E kind : row'[t] = NewRow(kind)
      BY <2>5 DEF Commit
    <3>5. \A kind : DOMAIN NewRow(kind) = RowFields /\ NewRow(kind).batch = 0
      BY DEF NewRow, NoRow, RowFields
    <3>6. DOMAIN row'[t] = RowFields /\ row'[t].batch \in 0..(Len(q) + Len(r))
      BY <2>1, <3>1, <3>3, <3>4, <3>5 DEF SessionOK
    <3> QED  BY <2>2, <3>2, <3>3, <3>6 DEF SessionOK
  <2> QED  BY <2>4, <2>5
<1> QED  BY <1>2, <1>3, <1>4 DEF MindsOK

\* The deadline of a wait is reached.
LEMMA ElapseMinds ==
  ASSUME MindsOK, NEW s \in Sessions, Elapse(s)
  PROVE  MindsOK' /\ \A t \in Sessions : mind'[t].heard = mind[t].heard
<1>1. PICK c \in Waiting(mind[s]) : mind' = [mind EXCEPT ![s].panel[c].until = "passed"]
  BY DEF Elapse
<1>2. UNCHANGED <<row, inbox>>  BY DEF Elapse
<1>3. PICK m : m = mind[s] /\ MindOK(s, m)  BY DEF MindsOK, SessionOK
<1>4. PICK n : n = [m EXCEPT !.panel[c].until = "passed"]  OBVIOUS
<1>5. /\ DOMAIN n = Fields /\ n.heard = m.heard /\ n.calls = m.calls
      /\ n.panel = [m.panel EXCEPT ![c].until = "passed"]
  BY <1>3, <1>4 DEF MindOK, Fields
<1>6. /\ DOMAIN n.panel = DOMAIN m.panel
      /\ \A d \in DOMAIN m.panel : DOMAIN n.panel[d] = DOMAIN m.panel[d]
  BY <1>5
<1>7. MindOK(s, n)  BY <1>3, <1>5, <1>6 DEF MindOK
<1>8. mind' = [mind EXCEPT ![s] = n]  BY <1>1, <1>3, <1>4
<1>9. /\ DOMAIN mind' = Sessions
      /\ \A t \in Sessions : mind'[t] = IF t = s THEN n ELSE mind[t]
  BY <1>8 DEF MindsOK
<1> QED  BY <1>2, <1>3, <1>5, <1>7, <1>9 DEF MindsOK, SessionOK

\* What happens to cancelled work is not told in this step.
SilentStep ==
  \A s \in Sessions : \A c \in DOMAIN mind[s].panel :
    mind[s].panel[c].status = "cancelled" =>
      \A what \in {"asks", "completed", "cancelled", "failed"} :
        <<c, what>> \in mind'[s].heard => <<c, what>> \in mind[s].heard

LEMMA SameHeard ==
  ASSUME \A s \in Sessions : mind'[s].heard = mind[s].heard
  PROVE  SilentStep
BY DEF SilentStep

LEMMA StepMinds ==
  ASSUME MindsOK, NEW s \in Sessions, Step(s)
  PROVE  MindsOK' /\ SilentStep
<1>1. SessionOK(s, mind[s], inbox[s], row[s])  BY DEF MindsOK
<1>2. PICK T : inbox[s] \in Seq(T)  BY <1>1 DEF SessionOK, IsList
<1>3. Delivered(s) \in Seq(T)
  BY <1>1, <1>2, ListPart DEF SessionOK, Delivered
<1>4. PICK p \in Handler(s, Delivered(s), row[s].more) :
        \/ row' = [row EXCEPT ![s] = Unheld(@)] /\ UNCHANGED <<inbox, folded, mind, faults, users>>
        \/ Commit(s, p)
  BY DEF Step
<1>5. Silent(s, mind[s], p)  BY <1>1, <1>3, HandlerSilent DEF SessionOK
<1>6. CASE row' = [row EXCEPT ![s] = Unheld(@)] /\ UNCHANGED <<inbox, folded, mind, faults, users>>
  <2>1. PICK u : u = Unheld(row[s])  OBVIOUS
  <2>2. DOMAIN u = RowFields /\ u.batch = 0
    BY <1>1, <2>1 DEF SessionOK, Unheld, RowFields
  <2>3. row' = [row EXCEPT ![s] = u]  BY <1>6, <2>1
  <2>4. MindsOK'  BY <1>6, <2>2, <2>3, RowMinds
  <2> QED  BY <1>6, <2>4, SameHeard
<1>7. CASE Commit(s, p)
  <2>1. MindsOK'  BY <1>5, <1>7, CommitMinds
  <2>2. \A t \in Sessions : mind'[t] = IF t = s THEN Table(p.mind) ELSE mind[t]
    BY <1>7 DEF Commit, MindsOK
  <2>3. mind'[s].heard = p.mind.heard  BY <1>5, <2>2, TableKeeps DEF Silent, Quiet
  <2>4. ASSUME NEW t \in Sessions, NEW c \in Cancelled(mind[t]), NEW what, <<c, what>> \in mind'[t].heard
        PROVE  <<c, what>> \in mind[t].heard
    <3>1. CASE t = s  BY <1>5, <2>3, <2>4, <3>1 DEF Silent, Quiet
    <3>2. CASE t # s  BY <2>2, <2>4, <3>2
    <3> QED  BY <3>1, <3>2
  <2>5. SilentStep  BY <2>4 DEF SilentStep, Cancelled
  <2> QED  BY <2>1, <2>5
<1> QED  BY <1>4, <1>6, <1>7

\* A row keeps its fields and the size of its batch.
LEMMA OtherMinds ==
  ASSUME MindsOK, NEW s \in Sessions, GiveUp(s) \/ Fails(s) \/ Retry(s)
  PROVE  MindsOK' /\ UNCHANGED mind
<1>1. DOMAIN row[s] = RowFields  BY DEF MindsOK, SessionOK
<1>2. PICK r : row' = [row EXCEPT ![s] = r]
                 /\ \/ r = [row[s] EXCEPT !.status = "failed"] \/ r = Unheld(row[s])
                    \/ r = [row[s] EXCEPT !.status = "live", !.attempts = 0]
  <2>1. CASE GiveUp(s)
    <3>1. PICK r : r = [row[s] EXCEPT !.status = "failed"]  OBVIOUS
    <3>2. row' = [row EXCEPT ![s] = r]  BY <2>1, <3>1 DEF GiveUp
    <3> QED  BY <3>1, <3>2
  <2>2. CASE Fails(s)
    <3>1. PICK r : r = Unheld(row[s])  OBVIOUS
    <3>2. row' = [row EXCEPT ![s] = r]  BY <2>2, <3>1 DEF Fails
    <3> QED  BY <3>1, <3>2
  <2>3. CASE Retry(s)
    <3>1. PICK r : r = [row[s] EXCEPT !.status = "live", !.attempts = 0]  OBVIOUS
    <3>2. row' = [row EXCEPT ![s] = r]  BY <2>3, <3>1 DEF Retry
    <3> QED  BY <3>1, <3>2
  <2> QED  BY <2>1, <2>2, <2>3
<1>3. DOMAIN r = RowFields /\ r.batch \in {0, row[s].batch}
  BY <1>1, <1>2 DEF RowFields, Unheld
<1>4. UNCHANGED <<inbox, mind>>  BY DEF GiveUp, Fails, Retry
<1> QED  BY <1>2, <1>3, <1>4, RowMinds

LEMMA RootIsSession == Root \in Sessions
<1>1. Root \in [1..0 -> 1..MostCalls]  BY DEF Root
<1>2. \A i \in 1..0 : Root[i] <= MaxCalls[i - 1]  OBVIOUS
<1>3. 0 \in 0..Depth  BY AgentBounds
<1> QED  BY <1>1, <1>2, <1>3 DEF Sessions

LEMMA NextMinds == MindsOK /\ [Next]_vars => MindsOK' /\ SilentStep
<1> SUFFICES ASSUME MindsOK, [Next]_vars PROVE MindsOK' /\ SilentStep  OBVIOUS
<1>1. CASE UNCHANGED vars
  <2>1. MindsOK'  BY <1>1 DEF vars, MindsOK
  <2> QED  BY <1>1, <2>1, SameHeard DEF vars
<1>2. CASE Ensure
  <2>1. PICK r : r = NewRow("agent")  OBVIOUS
  <2>2. DOMAIN r = RowFields /\ r.batch = 0  BY <2>1 DEF NewRow, NoRow, RowFields
  <2>3. row' = [row EXCEPT ![Root] = r] /\ UNCHANGED <<inbox, mind>>  BY <1>2, <2>1 DEF Ensure
  <2>4. MindsOK'  BY <2>2, <2>3, RootIsSession, RowMinds
  <2> QED  BY <2>3, <2>4, SameHeard
<1>3. CASE UserWrites
  <2>1. PICK e : inbox' = [inbox EXCEPT ![Root] = Append(@, e)]  BY <1>3 DEF UserWrites
  <2>2. UNCHANGED <<row, mind>>  BY <1>3 DEF UserWrites
  <2> QED  BY <2>1, <2>2, RootIsSession, MailMinds, SameHeard
<1>4. ASSUME NEW s \in Sessions, NotifyFailure(s)  PROVE MindsOK' /\ SilentStep
  <2>1. PICK e : inbox' = [inbox EXCEPT ![Root] = Append(@, e)]  BY <1>4 DEF NotifyFailure
  <2>2. UNCHANGED <<row, mind>>  BY <1>4 DEF NotifyFailure
  <2> QED  BY <2>1, <2>2, RootIsSession, MailMinds, SameHeard
<1>5. ASSUME NEW s \in Sessions, Claim(s)  PROVE MindsOK' /\ SilentStep
  <2>1. UNCHANGED mind  BY <1>5 DEF Claim
  <2> QED  BY <1>5, <2>1, ClaimMinds, SameHeard
<1>6. ASSUME NEW s \in Sessions, GiveUp(s) \/ Fails(s) \/ Retry(s)  PROVE MindsOK' /\ SilentStep
  BY <1>6, OtherMinds, SameHeard
<1>7. ASSUME NEW s \in Sessions, Step(s)  PROVE MindsOK' /\ SilentStep
  BY <1>7, StepMinds
<1>8. ASSUME NEW s \in Sessions, Elapse(s)  PROVE MindsOK' /\ SilentStep
  BY <1>8, ElapseMinds, SameHeard
<1> QED  BY <1>1, <1>2, <1>3, <1>4, <1>5, <1>6, <1>7, <1>8 DEF Next

\* CancelledIsSilent: whatever becomes of work its caller has cancelled, by
\* panel.cancel, is never told to the caller's model: the reply that comes late
\* is fenced by Panel.ingest before _fold sees it, and a failure only closes
\* the entry (src/entourage/panel.py, src/entourage/turn.py).
THEOREM CancelledStaysSilent == Spec => CancelledIsSilent
<1>1. Init => MindsOK  BY InitMinds
<1>2. MindsOK /\ [Next]_vars => MindsOK'  BY NextMinds
<1>3. MindsOK /\ [Next]_vars => [SilentStep]_vars  BY NextMinds
<1> QED  BY <1>1, <1>2, <1>3, PTL DEF Spec, CancelledIsSilent, SilentStep
-----------------------------------------------------------------------------
(* What a handler sends.                                                   *)

\* Only lists and marks differ between the minds m and n.
Alike(m, n) ==
  /\ DOMAIN n = Fields /\ n.calls = m.calls /\ n.work = m.work
  /\ DOMAIN n.panel = DOMAIN m.panel

LEMMA ChangesAlike ==
  ASSUME NEW m, DOMAIN m = Fields, NEW c, NEW cs, NEW status
  PROVE  /\ Alike(m, m) /\ Alike(m, Defer(m, c)) /\ Alike(m, Write(m, c))
         /\ Alike(m, Promote(m, cs)) /\ Alike(m, Hear(m, c, status))
         /\ Alike(m, Restated(m, c, status)) /\ Alike(m, Flush(m))
         /\ Alike(m, [m EXCEPT !.closed = cs])
<1>1. Alike(m, m)  BY DEF Alike
<1>2. Alike(m, Defer(m, c))  BY DEF Alike, Defer, Fields
<1>3. Alike(m, Write(m, c))  BY DEF Alike, Write, Fields
<1>4. Alike(m, Promote(m, cs))  BY DEF Alike, Promote, Fields
<1>5. Alike(m, Hear(m, c, status))  BY DEF Alike, Hear, Fields
<1>6. Alike(m, Restated(m, c, status))  BY DEF Alike, Restated, Fields
<1>7. Alike(m, Flush(m))  BY DEF Alike, Flush, Fields
<1>8. Alike(m, [m EXCEPT !.closed = cs])  BY DEF Alike, Fields
<1> QED  BY <1>1, <1>2, <1>3, <1>4, <1>5, <1>6, <1>7, <1>8

LEMMA AlikeAgain ==
  ASSUME NEW m, NEW n, NEW k, Alike(m, n), Alike(n, k)
  PROVE  Alike(m, k)
BY DEF Alike

LEMMA DeliverAlike ==
  ASSUME NEW m, DOMAIN m = Fields
  PROVE  Alike(m, Deliver(m))
<1>1. PICK n, cs : n = Promote(m, cs) /\ cs = {c \in Waiting(m) : m.panel[c].interruptible}
  OBVIOUS
<1>2. Alike(m, n)  BY <1>1, ChangesAlike
<1>3. PICK d : d = Deliver(m)
                /\ d = [n EXCEPT !.deferred = @ \o SetToSeq(cs), !.buffered = TRUE]
  BY <1>1 DEF Deliver
<1>4. DOMAIN d = Fields /\ d.panel = n.panel /\ d.calls = n.calls /\ d.work = n.work
  BY <1>2, <1>3 DEF Alike, Fields
<1> QED  BY <1>2, <1>3, <1>4 DEF Alike

LEMMA SettleAlike ==
  ASSUME NEW m, DOMAIN m = Fields, NEW c, NEW what
  PROVE  Alike(m, Settle(m, c, what))
<1>1. PICK told : told = Hear(m, c, what) /\ Alike(m, told)  BY ChangesAlike
<1>2. DOMAIN told = Fields  BY <1>1 DEF Alike
<1>3. PICK n : n = Promote(told, {c}) /\ Alike(told, n)  BY <1>2, ChangesAlike
<1>4. DOMAIN n = Fields  BY <1>3 DEF Alike
<1>5. Alike(told, Defer(told, c)) /\ Alike(n, Defer(n, c)) /\ Alike(told, Deliver(told))
  BY <1>2, <1>4, ChangesAlike, DeliverAlike
<1>6. Settle(m, c, what) \in {Defer(told, c), Defer(n, c), Deliver(told)}
  BY <1>1, <1>3 DEF Settle
<1> QED  BY <1>1, <1>3, <1>5, <1>6, AlikeAgain

LEMMA FailAlike ==
  ASSUME NEW m, DOMAIN m = Fields, NEW c
  PROVE  Alike(m, FailWork(m, c))
<1>1. PICK n : n = [m EXCEPT !.closed = @ \cup {c}] /\ Alike(m, n)  BY ChangesAlike
<1>2. DOMAIN n = Fields  BY <1>1 DEF Alike
<1>3. PICK k : k = Restated(n, c, "failed") /\ Alike(n, k)  BY <1>2, ChangesAlike
<1>4. DOMAIN k = Fields  BY <1>3 DEF Alike
<1>5. Alike(k, Settle(k, c, "failed"))  BY <1>4, SettleAlike
<1>6. FailWork(m, c) \in {m, n, Settle(k, c, "failed")}
  BY <1>1, <1>3 DEF FailWork, Restated
<1> QED  BY <1>1, <1>3, <1>5, <1>6, AlikeAgain, ChangesAlike

LEMMA ReplyAlike ==
  ASSUME NEW m, DOMAIN m = Fields, NEW e
  PROVE  Alike(m, IngestReply(m, e))
<1>1. PICK c, n : /\ c = e.about /\ n = [m EXCEPT !.closed = IF e.kind = "result" THEN @ \cup {c} ELSE @]
  OBVIOUS
<1>2. DOMAIN n = Fields /\ n.panel = m.panel /\ n.calls = m.calls /\ n.work = m.work
  BY <1>1 DEF Fields
<1>3. PICK f : f = [n EXCEPT !.panel[c].fenced = TRUE]  OBVIOUS
<1>4. Alike(n, f)  BY <1>2, <1>3 DEF Alike, Fields
<1>5. \A status : Alike(n, Restated(n, c, status))  BY <1>2, ChangesAlike
<1>6. IngestReply(m, e) = f \/ \E status : IngestReply(m, e) = Restated(n, c, status)
  BY <1>1, <1>2, <1>3 DEF IngestReply, Restated
<1>7. Alike(m, n)  BY <1>2 DEF Alike
<1> QED  BY <1>4, <1>5, <1>6, <1>7, AlikeAgain

SplitAlike(x, i, split) ==
  DOMAIN split = {"mind", "replies", "others"} /\ Alike(x, split.mind)
SplitDo(x, split, e) == IngestOne(split, e)
Splitting == INSTANCE Loops WITH Do <- SplitDo, Inv <- SplitAlike

LEMMA IngestAlike ==
  ASSUME NEW m, DOMAIN m = Fields, NEW mail, Len(mail) \in Nat
  PROVE  Alike(m, Ingest(m, mail).mind)
<1>1. PICK first : first = [mind |-> m, replies |-> <<>>, others |-> <<>>]  OBVIOUS
<1>2. SplitAlike(m, 0, first)  BY <1>1, ChangesAlike DEF SplitAlike
<1>3. ASSUME NEW i \in 1..Len(mail), NEW split, SplitAlike(m, i - 1, split)
      PROVE  SplitAlike(m, i, SplitDo(m, split, mail[i]))
  <2>1. PICK e, n, r, o : e = mail[i] /\ n = split.mind /\ r = split.replies /\ o = split.others
    OBVIOUS
  <2>2. DOMAIN split = {"mind", "replies", "others"} /\ Alike(m, n)  BY <1>3, <2>1 DEF SplitAlike
  <2>3. CASE IsReply(n, e)
    <3>1. PICK h : h = [split EXCEPT !.mind = IngestReply(n, e), !.replies = Append(r, e)]  OBVIOUS
    <3>2. DOMAIN h = {"mind", "replies", "others"} /\ h.mind = IngestReply(n, e)
      BY <2>2, <3>1
    <3>3. SplitDo(m, split, e) = h  BY <2>1, <2>3, <3>1 DEF SplitDo, IngestOne
    <3>4. Alike(n, h.mind)  BY <2>2, <3>2, ReplyAlike DEF Alike
    <3> QED  BY <2>1, <2>2, <3>2, <3>3, <3>4, AlikeAgain DEF SplitAlike
  <2>4. CASE ~IsReply(n, e)
    <3>1. PICK h : h = [split EXCEPT !.others = Append(o, e)]  OBVIOUS
    <3>2. DOMAIN h = {"mind", "replies", "others"} /\ h.mind = n  BY <2>1, <2>2, <3>1
    <3>3. SplitDo(m, split, e) = h  BY <2>1, <2>4, <3>1 DEF SplitDo, IngestOne
    <3> QED  BY <2>1, <2>2, <3>2, <3>3 DEF SplitAlike
  <2> QED  BY <2>3, <2>4
<1>0. Splitting!Induction  BY NatIsAll DEF Splitting!Induction
<1>4. SplitAlike(m, Len(mail), Splitting!Looped(m, first, mail))
  BY <1>0, <1>2, <1>3, Splitting!LoopKeeps
<1>5. Ingest(m, mail) = Splitting!Looped(m, first, mail)
  BY <1>1 DEF Ingest, ForEach, Splitting!Looped, SplitDo
<1> QED  BY <1>4, <1>5 DEF SplitAlike

FoldAlike(x, i, m) == Alike(x, m)
FoldingOn == INSTANCE Loops WITH Do <- FoldDo, Inv <- FoldAlike

LEMMA FoldsAlike ==
  ASSUME NEW m, DOMAIN m = Fields, NEW replies, Len(replies) \in Nat
  PROVE  Alike(m, ForEach(Fold, m, replies))
<1>1. FoldAlike(m, 0, m)  BY ChangesAlike DEF FoldAlike
<1>2. ASSUME NEW i \in 1..Len(replies), NEW n, FoldAlike(m, i - 1, n)
      PROVE  FoldAlike(m, i, FoldDo(m, n, replies[i]))
  <2>1. PICK e : e = replies[i]  OBVIOUS
  <2>2. Alike(m, n) /\ DOMAIN n = Fields  BY <1>2 DEF FoldAlike, Alike
  <2>3. Alike(n, Fold(n, e))  BY <2>2, SettleAlike, ChangesAlike DEF Fold
  <2> QED  BY <2>1, <2>2, <2>3, AlikeAgain DEF FoldAlike, FoldDo
<1>0. FoldingOn!Induction  BY NatIsAll DEF FoldingOn!Induction
<1>3. FoldAlike(m, Len(replies), FoldingOn!Looped(m, m, replies))
  BY <1>0, <1>1, <1>2, FoldingOn!LoopKeeps
<1>4. ForEach(Fold, m, replies) = FoldingOn!Looped(m, m, replies)
  BY DEF ForEach, FoldingOn!Looped, FoldDo
<1> QED  BY <1>3, <1>4 DEF FoldAlike
-----------------------------------------------------------------------------
\* A call that s makes after its first a ones, up to the one numbered b.
Made(s, a, b, c) == \E k \in (a + 1)..b : c = Append(s, k)

\* Mail that is named by a call.
CallMail == {"request", "steer", "cancel", "answer", "ask"}
CallSent(s, a, b, item) ==
  /\ item[1] # s /\ item[2].kind \in CallMail /\ Made(s, a, b, item[2].key)
  /\ item[2].kind = "request" => item[1] # Root

\* A proposal that goes on: what it sends and spawns is named by new calls.
Open(s, a, p) ==
  /\ DOMAIN p = Parts /\ DOMAIN p.mind = Fields /\ p.complete = FALSE
  /\ p.mind.calls \in Nat /\ a <= p.mind.calls
  /\ s = Root => p.mind.work = "none"
  /\ IsList(p.send) /\ \A i \in 1..Len(p.send) : CallSent(s, a, p.mind.calls, p.send[i])
  /\ \A i, j \in 1..Len(p.send) : p.send[i][2] = p.send[j][2] => i = j
  /\ \A child \in p.spawn : Made(s, a, p.mind.calls, child[1])

\* One that has done nothing yet.
Idle(s, a, p) ==
  /\ DOMAIN p = Parts /\ DOMAIN p.mind = Fields /\ p.complete = FALSE
  /\ p.mind.calls = a /\ (s = Root => p.mind.work = "none")
  /\ p.send = <<>> /\ p.spawn = {}

\* One that completes: its only mail is the result.
Ended(s, a, p) ==
  /\ DOMAIN p = Parts /\ s # Root /\ p.complete = TRUE /\ p.spawn = {} /\ p.mind.calls = a
  /\ \E status : p.send = << <<Parent(s), Event("result", s, s, status)>> >>

Proposed(s, a, p) == Open(s, a, p) \/ Ended(s, a, p)

\* Doing nothing is a way to go on.
LEMMA IdleIsOpen ==
  ASSUME NEW s, NEW a \in Nat, NEW p, Idle(s, a, p)
  PROVE  Open(s, a, p)
<1>1. <<>> \in Seq({}) /\ Len(<<>>) = 0  OBVIOUS
<1>2. IsList(<<>>)  BY <1>1 DEF IsList
<1> QED  BY <1>1, <1>2 DEF Idle, Open

LEMMA IdleFields ==
  ASSUME NEW s, NEW a, NEW p, Idle(s, a, p)
  PROVE  /\ \A x : Idle(s, a, [p EXCEPT !.raised = x])
         /\ \A x : Idle(s, a, [p EXCEPT !.wake = x])
         /\ \A m : Alike(p.mind, m) => Idle(s, a, [p EXCEPT !.mind = m])
<1>1. \A x : Idle(s, a, [p EXCEPT !.raised = x])  BY DEF Idle, Parts
<1>2. \A x : Idle(s, a, [p EXCEPT !.wake = x])  BY DEF Idle, Parts
<1>3. \A m : Alike(p.mind, m) => Idle(s, a, [p EXCEPT !.mind = m])  BY DEF Idle, Parts, Alike
<1> QED  BY <1>1, <1>2, <1>3

LEMMA ProposalIdle ==
  ASSUME NEW s, NEW m, DOMAIN m = Fields, s = Root => m.work = "none"
  PROVE  Idle(s, m.calls, Proposal(m))
BY DEF Idle, Proposal, Parts

\* _finish.
LEMMA FinishEnds ==
  ASSUME NEW s, s # Root, NEW m, DOMAIN m = Fields, NEW status
  PROVE  Ended(s, m.calls, FinishJob(s, m, status))
<1>1. PICK n : n = [m EXCEPT !.work = status]  OBVIOUS
<1>2. n.calls = m.calls  BY <1>1 DEF Fields
<1>3. PICK p, item : p = Proposal(n) /\ item = <<Parent(s), Event("result", s, s, status)>>  OBVIOUS
<1>4. DOMAIN p = Parts /\ p.send = <<>> /\ p.spawn = {} /\ p.mind = n
  BY <1>3 DEF Proposal, Parts
<1>5. PICK q : q = [p EXCEPT !.send = Append(@, item)]  OBVIOUS
<1>6. DOMAIN q = Parts /\ q.send = Append(<<>>, item) /\ q.spawn = {} /\ q.mind = n
  BY <1>4, <1>5 DEF Parts
<1>7. Append(<<>>, item) = <<item>>  OBVIOUS
<1>8. PICK r : r = [q EXCEPT !.complete = TRUE]  OBVIOUS
<1>9. /\ DOMAIN r = Parts /\ r.send = <<item>> /\ r.spawn = {} /\ r.mind = n /\ r.complete = TRUE
  BY <1>6, <1>7, <1>8 DEF Parts
<1>10. FinishJob(s, m, status) = r
  BY <1>1, <1>3, <1>5, <1>8 DEF FinishJob, Send
<1> QED  BY <1>2, <1>3, <1>9, <1>10 DEF Ended

\* One event that is no reply; the root gets no request.
LEMMA TakeProposes ==
  ASSUME NEW s, NEW a, NEW p, Idle(s, a, p) \/ Ended(s, a, p),
         NEW e, s = Root => e.kind # "request"
  PROVE  Idle(s, a, Take(s, p, e)) \/ Ended(s, a, Take(s, p, e))
<1>1. CASE Ended(s, a, p)  BY <1>1 DEF Ended, Take
<1>2. CASE Idle(s, a, p)
  <2>1. PICK m : m = p.mind /\ DOMAIN m = Fields  BY <1>2 DEF Idle
  <2>2. Idle(s, a, [p EXCEPT !.mind = Deliver(m)])  BY <1>2, <2>1, DeliverAlike, IdleFields
  <2>3. ASSUME e.kind = "request"
        PROVE  Idle(s, a, [p EXCEPT !.mind = Deliver([m EXCEPT !.work = "working"])])
    <3>1. s # Root  BY <2>3
    <3>2. PICK n : n = [m EXCEPT !.work = "working"]  OBVIOUS
    <3>3. DOMAIN n = Fields /\ n.calls = m.calls  BY <2>1, <3>2 DEF Fields
    <3>4. PICK d : d = Deliver(n) /\ Alike(n, d)  BY <3>3, DeliverAlike
    <3>5. PICK q : q = [p EXCEPT !.mind = d]  OBVIOUS
    <3>6. Idle(s, a, q)  BY <1>2, <2>1, <3>1, <3>3, <3>4, <3>5 DEF Idle, Parts, Alike
    <3> QED  BY <3>2, <3>4, <3>5, <3>6
  <2>4. ASSUME Job(m)  PROVE Ended(s, a, FinishJob(s, m, "cancelled"))
    <3>1. s # Root  BY <1>2, <2>1, <2>4 DEF Idle, Job
    <3>2. m.calls = a  BY <1>2, <2>1 DEF Idle
    <3> QED  BY <2>1, <3>1, <3>2, FinishEnds
  <2>5. Idle(s, a, [p EXCEPT !.mind = FailWork(m, e.about)])
    BY <1>2, <2>1, FailAlike, IdleFields
  <2>6. Idle(s, a, [p EXCEPT !.raised = TRUE])  BY <1>2, IdleFields
  <2>7. \/ Take(s, p, e) = p
        \/ Take(s, p, e) = [p EXCEPT !.mind = Deliver(m)]
        \/ e.kind = "request" /\ Take(s, p, e) = [p EXCEPT !.mind = Deliver([m EXCEPT !.work = "working"])]
        \/ Job(m) /\ Take(s, p, e) = FinishJob(s, m, "cancelled")
        \/ Take(s, p, e) = [p EXCEPT !.mind = FailWork(m, e.about)]
        \/ Take(s, p, e) = [p EXCEPT !.raised = TRUE]
    BY <2>1 DEF Take
  <2> QED  BY <1>2, <2>2, <2>3, <2>4, <2>5, <2>6, <2>7
<1> QED  BY <1>1, <1>2

TookOK(x, i, p) == Idle(x.s, x.a, p) \/ Ended(x.s, x.a, p)
TakingAll == INSTANCE Loops WITH Do <- TakeDo, Inv <- TookOK

\* The loop over the mail that is no reply.
LEMMA TakesPropose ==
  ASSUME NEW s, NEW a, NEW p, Idle(s, a, p), NEW mail, Len(mail) \in Nat,
         \A i \in 1..Len(mail) : s = Root => mail[i].kind # "request"
  PROVE  Idle(s, a, TakeAll(s, p, mail)) \/ Ended(s, a, TakeAll(s, p, mail))
<1>1. PICK x : x = [s |-> s, a |-> a]  OBVIOUS
<1>2. TookOK(x, 0, p)  BY <1>1 DEF TookOK
<1>3. ASSUME NEW i \in 1..Len(mail), NEW q, TookOK(x, i - 1, q)
      PROVE  TookOK(x, i, TakeDo(x, q, mail[i]))
  <2>1. PICK e : e = mail[i] /\ (s = Root => e.kind # "request")  OBVIOUS
  <2> QED  BY <1>1, <1>3, <2>1, TakeProposes DEF TookOK, TakeDo
<1>0. TakingAll!Induction  BY NatIsAll DEF TakingAll!Induction
<1>4. TookOK(x, Len(mail), TakingAll!Looped(x, p, mail))
  BY <1>0, <1>2, <1>3, TakingAll!LoopKeeps
<1>5. TakeAll(s, p, mail) = TakingAll!Looped(x, p, mail)
  BY <1>1 DEF TakeAll, ForEach, TakingAll!Looped, TakeDo
<1> QED  BY <1>1, <1>4, <1>5 DEF TookOK

\* Ingestion sends nothing, unless the job was cancelled.
LEMMA IngestedProposes ==
  ASSUME NEW s, NEW m, MindOK(s, m), s = Root => m.work = "none",
         NEW T, NEW mail \in Seq(T), s = Root => \A e \in T : e.kind # "request"
  PROVE  LET p == Ingested(s, m, mail) IN Idle(s, m.calls, p) \/ Ended(s, m.calls, p)
<1>1. Quiet(s, m, {}, m) /\ DOMAIN m = Fields  BY DEF Quiet, MindOK
<1>2. PICK split, n, r, o :
        split = Ingest(m, mail) /\ n = split.mind /\ r = split.replies /\ o = split.others
  OBVIOUS
<1>3. r \in Seq(T) /\ o \in Seq(T)
  <2>1. PICK x : x = [s |-> s, old |-> m, mail |-> T]  OBVIOUS
  <2>2. SplitOK(x, Len(mail), split)  BY <1>1, <1>2, <2>1, IngestQuiet
  <2> QED  BY <1>2, <2>1, <2>2 DEF SplitOK
<1>4. Alike(m, n)
  <2>1. Len(mail) \in Nat  OBVIOUS
  <2> QED  BY <1>1, <1>2, <2>1, IngestAlike
<1>5. PICK told : told = ForEach(Fold, n, r) /\ Alike(n, told)
  <2>1. Len(r) \in Nat /\ DOMAIN n = Fields  BY <1>3, <1>4 DEF Alike
  <2> QED  BY <2>1, FoldsAlike
<1>6. PICK q0 : q0 = Proposal(told)  OBVIOUS
<1>7. Idle(s, m.calls, q0)
  <2>1. DOMAIN told = Fields /\ told.calls = m.calls /\ told.work = m.work
    BY <1>4, <1>5 DEF Alike
  <2> QED  BY <1>6, <2>1, ProposalIdle
<1>8. PICK p : p = TakeAll(s, q0, o)  OBVIOUS
<1>9. Idle(s, m.calls, p) \/ Ended(s, m.calls, p)
  <2>1. Len(o) \in Nat /\ \A i \in 1..Len(o) : o[i] \in T  BY <1>3
  <2>2. \A i \in 1..Len(o) : s = Root => o[i].kind # "request"  BY <2>1
  <2> QED  BY <1>7, <1>8, <2>1, <2>2, TakesPropose
<1>10. PICK due, k, late : /\ due = DueWaits(p.mind) /\ k = Promote(p.mind, due)
                           /\ late = [k EXCEPT !.deferred = @ \o SetToSeq(due)]
  OBVIOUS
<1>11. PICK done : done = Flush(late)  OBVIOUS
<1>12. Ingested(s, m, mail) = IF p.raised \/ p.complete THEN p ELSE [p EXCEPT !.mind = done]
  BY <1>2, <1>5, <1>6, <1>8, <1>10, <1>11 DEF Ingested
<1>13. CASE Ended(s, m.calls, p)  BY <1>12, <1>13 DEF Ended
<1>14. CASE Idle(s, m.calls, p)
  <2>1. DOMAIN p.mind = Fields  BY <1>14 DEF Idle
  <2>2. Alike(p.mind, k)  BY <1>10, <2>1, ChangesAlike
  <2>3. DOMAIN late = Fields /\ late.panel = k.panel /\ late.calls = k.calls /\ late.work = k.work
    BY <1>10, <2>2 DEF Alike, Fields
  <2>4. Alike(p.mind, late)  BY <2>2, <2>3 DEF Alike
  <2>5. Alike(late, done)  BY <1>11, <2>3, ChangesAlike
  <2>6. Idle(s, m.calls, [p EXCEPT !.mind = done])
    BY <1>14, <2>4, <2>5, AlikeAgain, IdleFields
  <2> QED  BY <1>12, <1>14, <2>6
<1> QED  BY <1>9, <1>13, <1>14
-----------------------------------------------------------------------------
\* A session is neither its own caller nor its own provider.
LEMMA SessionIsList ==
  ASSUME NEW s \in Sessions
  PROVE  \E T : Nat \subseteq T /\ s \in Seq(T) /\ Len(s) \in 0..Depth
<1>1. PICK T : T = (1..MostCalls) \cup Nat  OBVIOUS
<1>2. PICK d \in 0..Depth : s \in [1..d -> 1..MostCalls]  BY DEF Sessions
<1>3. d \in Nat  BY AgentBounds
<1>4. s \in [1..d -> T]  BY <1>1, <1>2
<1>5. s \in Seq(T) /\ Len(s) = d  BY <1>3, <1>4
<1> QED  BY <1>1, <1>2, <1>5

LEMMA CallIsOther ==
  ASSUME NEW s \in Sessions, NEW k \in Nat
  PROVE  Append(s, k) # s /\ Append(s, k) # Root
<1>1. PICK T : Nat \subseteq T /\ s \in Seq(T)  BY SessionIsList
<1>2. k \in T  BY <1>1
<1>3. Len(Append(s, k)) = Len(s) + 1 /\ Len(s) \in Nat  BY <1>1, <1>2
<1>4. Len(Root) = 0  BY DEF Root
<1> QED  BY <1>3, <1>4

LEMMA ParentIsOther ==
  ASSUME NEW s \in Sessions, s # Root
  PROVE  Parent(s) # s
<1>1. PICK T : s \in Seq(T)  BY SessionIsList
<1>2. Len(s) # 0
  <2>1. SUFFICES ASSUME Len(s) = 0 PROVE FALSE  OBVIOUS
  <2>2. s = <<>>  BY <1>1, <2>1
  <2> QED  BY <2>2 DEF Root
<1>3. Len(s) - 1 \in 0..Len(s)  BY <1>1, <1>2
<1>4. PICK n : n = Len(s) - 1 /\ n \in 0..Len(s) /\ n # Len(s)  BY <1>1, <1>3
<1>5. Front(s) = SubSeq(s, 1, n)  BY <1>4 DEF Front
<1>6. \A i \in 1..n : s[i] \in T  BY <1>1, <1>4
<1>7. Len(SubSeq(s, 1, n)) = n
  <2>1. 1 \in Int /\ n \in Int  BY <1>4
  <2>2. Len(SubSeq(s, 1, n)) = IF 1 <= n THEN n - 1 + 1 ELSE 0
    BY <1>6, <2>1, SubSeqProperties
  <2> QED  BY <1>1, <1>4, <2>2
<1> QED  BY <1>4, <1>5, <1>7 DEF Parent

\* Another session, or another number, is another call.
LEMMA CallsAreNamed ==
  ASSUME NEW s \in Sessions, NEW u \in Sessions, NEW i \in Nat, NEW j \in Nat,
         Append(s, i) = Append(u, j)
  PROVE  s = u /\ i = j
<1>1. PICK T : Nat \subseteq T /\ s \in Seq(T)  BY SessionIsList
<1>2. PICK U : Nat \subseteq U /\ u \in Seq(U)  BY SessionIsList
<1>3. PICK V : V = T \cup U  OBVIOUS
<1>4. s \in Seq(V) /\ u \in Seq(V) /\ i \in V /\ j \in V  BY <1>1, <1>2, <1>3
<1>5. /\ Len(Append(s, i)) = Len(s) + 1 /\ Len(Append(u, j)) = Len(u) + 1
      /\ Len(s) \in Nat /\ Len(u) \in Nat
  BY <1>4
<1>6. Len(s) = Len(u)  BY <1>5
<1>7. \A n \in 1..Len(s) : Append(s, i)[n] = s[n] /\ Append(u, j)[n] = u[n]
  BY <1>4, <1>6
<1>8. s = u  BY <1>4, <1>6, <1>7
<1>9. Append(s, i)[Len(s) + 1] = i /\ Append(u, j)[Len(u) + 1] = j  BY <1>4
<1> QED  BY <1>6, <1>8, <1>9

\* A mind that has made one more call than that of p.
Called(s, p, n) ==
  DOMAIN n = Fields /\ n.calls = p.mind.calls + 1 /\ (s = Root => n.work = "none")

LEMMA AlikeCalled ==
  ASSUME NEW s, NEW p, NEW m, Called(s, p, m), NEW n, Alike(m, n)
  PROVE  Called(s, p, n)
BY DEF Called, Alike

\* The call sends nothing.
LEMMA OpenGoesOn ==
  ASSUME NEW s \in Sessions, NEW a \in Nat, NEW p, Open(s, a, p), NEW n, Called(s, p, n)
  PROVE  Open(s, a, [p EXCEPT !.mind = n])
<1>1. PICK q : q = [p EXCEPT !.mind = n]  OBVIOUS
<1>2. PICK b : b = p.mind.calls /\ b \in Nat /\ a <= b  BY DEF Open
<1>3. /\ DOMAIN q = Parts /\ q.mind = n /\ q.send = p.send /\ q.spawn = p.spawn
      /\ q.complete = FALSE
  BY <1>1 DEF Open, Parts
<1>4. n.calls = b + 1  BY <1>2 DEF Called
<1>5. \A c : Made(s, a, b, c) => Made(s, a, b + 1, c)
  <2>1. \A k \in (a + 1)..b : k \in (a + 1)..(b + 1)  BY <1>2
  <2> QED  BY <2>1 DEF Made
<1>6. \A item : CallSent(s, a, b, item) => CallSent(s, a, b + 1, item)
  BY <1>5 DEF CallSent
<1> QED  BY <1>1, <1>2, <1>3, <1>4, <1>5, <1>6 DEF Open, Called

\* The call sends one mail and may spawn its provider.
LEMMA OpenSends ==
  ASSUME NEW s \in Sessions, NEW a \in Nat, NEW p, Open(s, a, p), NEW n, Called(s, p, n),
         NEW to, NEW e, to # s, e.kind \in CallMail, e.key = Append(s, n.calls),
         e.kind = "request" => to # Root,
         NEW q, DOMAIN q = Parts, q.mind = n, q.complete = FALSE, q.send = p.send,
         \A child \in q.spawn : child \in p.spawn \/ child[1] = Append(s, n.calls)
  PROVE  Open(s, a, Send(q, to, e))
<1>1. PICK b, mail : /\ b = p.mind.calls /\ b \in Nat /\ a <= b /\ n.calls = b + 1
                     /\ mail = p.send /\ IsList(mail)
  BY DEF Open, Called
<1>2. PICK item : item = <<to, e>>  OBVIOUS
<1>3. item[1] = to /\ item[2] = e  BY <1>2
<1>4. PICK r : r = Send(q, to, e)  OBVIOUS
<1>5. /\ DOMAIN r = Parts /\ r.mind = n /\ r.complete = FALSE /\ r.spawn = q.spawn
      /\ r.send = Append(mail, item)
  BY <1>1, <1>2, <1>4 DEF Send, Parts
<1>6. Made(s, a, b + 1, Append(s, b + 1))
  <2>1. b + 1 \in (a + 1)..(b + 1)  BY <1>1
  <2> QED  BY <2>1 DEF Made
<1>7. \A c : Made(s, a, b, c) => Made(s, a, b + 1, c) /\ c # Append(s, b + 1)
  <2>1. SUFFICES ASSUME NEW k \in (a + 1)..b
                 PROVE  k \in (a + 1)..(b + 1) /\ Append(s, k) # Append(s, b + 1)
    BY DEF Made
  <2>2. k \in (a + 1)..(b + 1) /\ k \in Nat /\ b + 1 \in Nat /\ k # b + 1  BY <1>1
  <2> QED  BY <2>2, CallsDiffer
<1>8. PICK T : mail \in Seq(T)  BY <1>1 DEF IsList
<1>9. mail \in Seq(T \cup {item}) /\ item \in T \cup {item}  BY <1>8
<1>10. /\ Len(Append(mail, item)) = Len(mail) + 1 /\ Len(mail) \in Nat
      /\ \A i \in 1..Len(mail) : Append(mail, item)[i] = mail[i]
      /\ Append(mail, item)[Len(mail) + 1] = item
  BY <1>9
<1>11. \A i \in 1..Len(mail) : CallSent(s, a, b, mail[i])  BY <1>1 DEF Open
<1>12. CallSent(s, a, b + 1, item)  BY <1>1, <1>3, <1>6 DEF CallSent
<1>13. \A i \in 1..(Len(mail) + 1) : CallSent(s, a, b + 1, Append(mail, item)[i])
  <2>1. SUFFICES ASSUME NEW i \in 1..(Len(mail) + 1)
                 PROVE  CallSent(s, a, b + 1, Append(mail, item)[i])
    OBVIOUS
  <2>2. CASE i \in 1..Len(mail)  BY <1>7, <1>10, <1>11, <2>2 DEF CallSent
  <2>3. CASE i = Len(mail) + 1  BY <1>10, <1>12, <2>3
  <2> QED  BY <1>10, <2>2, <2>3
<1>14. \A i \in 1..Len(mail) : mail[i][2] # e
  BY <1>1, <1>7, <1>11 DEF CallSent
<1>15. \A i, j \in 1..(Len(mail) + 1) :
         Append(mail, item)[i][2] = Append(mail, item)[j][2] => i = j
  <2>1. SUFFICES ASSUME NEW i \in 1..(Len(mail) + 1), NEW j \in 1..(Len(mail) + 1),
                        Append(mail, item)[i][2] = Append(mail, item)[j][2]
                 PROVE  i = j
    OBVIOUS
  <2>2. \A k \in 1..(Len(mail) + 1) : k \in 1..Len(mail) \/ k = Len(mail) + 1  BY <1>10
  <2>3. \A k, l \in 1..Len(mail) : mail[k][2] = mail[l][2] => k = l  BY <1>1 DEF Open
  <2>4. CASE i \in 1..Len(mail) /\ j \in 1..Len(mail)  BY <1>10, <2>1, <2>3, <2>4
  <2>5. CASE i \in 1..Len(mail) /\ j = Len(mail) + 1  BY <1>3, <1>10, <1>14, <2>1, <2>5
  <2>6. CASE i = Len(mail) + 1 /\ j \in 1..Len(mail)  BY <1>3, <1>10, <1>14, <2>1, <2>6
  <2> QED  BY <2>2, <2>4, <2>5, <2>6
<1>16. IsList(Append(mail, item))  BY <1>1, ListAppend
<1>17. \A child \in r.spawn : Made(s, a, b + 1, child[1])
  BY <1>1, <1>5, <1>6, <1>7 DEF Open
<1>18. b + 1 \in Nat /\ a <= b + 1  BY <1>1
<1>19. DOMAIN n = Fields /\ (s = Root => n.work = "none")  BY DEF Called
<1> QED  BY <1>1, <1>4, <1>5, <1>10, <1>13, <1>15, <1>16, <1>17, <1>18, <1>19 DEF Open

\* _delegate and a Pending tool result: a request to a new session.
LEMMA DelegateProposes ==
  ASSUME NEW s \in Sessions, NEW a \in Nat, NEW p, Open(s, a, p), NEW n, Called(s, p, n),
         NEW q, q = [p EXCEPT !.mind = n], NEW c, c = Append(s, n.calls), NEW mode
  PROVE  Open(s, a, Delegate(q, c, mode)) /\ Open(s, a, AwaitTool(q, c))
<1>1. /\ DOMAIN q = Parts /\ q.mind = n /\ q.complete = FALSE /\ q.send = p.send
      /\ q.spawn = p.spawn
  BY DEF Open, Parts
<1>2. DOMAIN n = Fields /\ n.calls \in Nat  BY DEF Called, Open
<1>3. c # s /\ c # Root  BY <1>2, CallIsOther
<1>4. PICK e : e = Event("request", c, c, "")  OBVIOUS
<1>5. e.kind = "request" /\ e.key = c /\ e.kind \in CallMail  BY <1>4 DEF Event, CallMail
<1>6. \A mo, un, int, gr : Called(s, p, OpenEntry(n, c, mo, un, int, gr))
  BY <1>2 DEF OpenEntry, Called, Fields
<1>7. ASSUME NEW k, Called(s, p, k), k.calls = n.calls, NEW kind
      PROVE  Open(s, a, Send([q EXCEPT !.mind = k, !.spawn = @ \cup {<<c, kind>>}], c, e))
  <2>1. PICK r : r = [q EXCEPT !.mind = k, !.spawn = @ \cup {<<c, kind>>}]  OBVIOUS
  <2>2. /\ DOMAIN r = Parts /\ r.mind = k /\ r.complete = FALSE /\ r.send = p.send
        /\ r.spawn = p.spawn \cup {<<c, kind>>}
    BY <1>1, <2>1 DEF Parts
  <2>3. \A child \in r.spawn : child \in p.spawn \/ child[1] = Append(s, k.calls)
    BY <1>7, <2>2
  <2>4. e.key = Append(s, k.calls)  BY <1>5, <1>7
  <2>5. Open(s, a, Send(r, c, e))
    BY <1>3, <1>5, <1>7, <2>2, <2>3, <2>4, OpenSends
  <2> QED  BY <2>1, <2>5
<1>8. Open(s, a, Delegate(q, c, mode))
  <2>1. PICK until, opened :
          /\ until = IF mode = "wait" /\ Budgeted THEN "later" ELSE "none"
          /\ opened = OpenEntry(n, c, mode, until, Interruptible, {"steer", "cancel", "answer"})
    OBVIOUS
  <2>2. Called(s, p, opened)  BY <1>6, <2>1
  <2>3. PICK k : k = (IF mode = "wait" THEN opened ELSE Write(opened, c))  OBVIOUS
  <2>4. Called(s, p, k)
    <3>1. DOMAIN opened = Fields  BY <2>2 DEF Called
    <3>2. Alike(opened, Write(opened, c))  BY <3>1, ChangesAlike
    <3>3. Called(s, p, Write(opened, c))  BY <2>2, <3>2, AlikeCalled
    <3> QED  BY <2>2, <2>3, <3>3
  <2>5. k.calls = n.calls  BY <2>4 DEF Called
  <2>6. Delegate(q, c, mode) = Send([q EXCEPT !.mind = k, !.spawn = @ \cup {<<c, "agent">>}], c, e)
    BY <1>1, <1>4, <2>1, <2>3 DEF Delegate
  <2> QED  BY <1>7, <2>4, <2>5, <2>6
<1>9. Open(s, a, AwaitTool(q, c))
  <2>1. PICK k : k = OpenEntry(n, c, "wait", "none", FALSE, {}) /\ Called(s, p, k)  BY <1>6
  <2>2. k.calls = n.calls  BY <2>1 DEF Called
  <2>3. AwaitTool(q, c) = Send([q EXCEPT !.mind = k, !.spawn = @ \cup {<<c, "runner">>}], c, e)
    BY <1>1, <1>4, <2>1 DEF AwaitTool
  <2> QED  BY <1>7, <2>1, <2>2, <2>3
<1> QED  BY <1>8, <1>9

\* _control: mail to work on the table, which is not s itself.
LEMMA ControlProposes ==
  ASSUME NEW s \in Sessions, NEW a \in Nat, NEW p, Open(s, a, p), NEW n, Called(s, p, n),
         NEW q, q = [p EXCEPT !.mind = n], NEW c, c = Append(s, n.calls), NEW name, NEW w, w # s
  PROVE  Open(s, a, Control(q, c, name, w))
<1>1. /\ DOMAIN q = Parts /\ q.mind = n /\ q.complete = FALSE /\ q.send = p.send
      /\ q.spawn = p.spawn
  BY DEF Open, Parts
<1>2. DOMAIN n = Fields  BY DEF Called
<1>3. ASSUME NEW k, Alike(n, k)
      PROVE  /\ Open(s, a, [q EXCEPT !.mind = k])
             /\ \A kind \in {"steer", "answer", "cancel"} :
                  Open(s, a, Send([q EXCEPT !.mind = k], w, Event(kind, c, w, "")))
  <2>1. PICK r : r = [q EXCEPT !.mind = k]  OBVIOUS
  <2>2. r = [p EXCEPT !.mind = k]  BY <2>1
  <2>3. Called(s, p, k) /\ k.calls = n.calls  BY <1>3, AlikeCalled DEF Alike
  <2>4. Open(s, a, [p EXCEPT !.mind = k])  BY <2>3, OpenGoesOn
  <2>5. /\ DOMAIN r = Parts /\ r.mind = k /\ r.complete = FALSE /\ r.send = p.send
        /\ r.spawn = p.spawn
    BY <1>1, <2>1 DEF Parts
  <2>6. ASSUME NEW kind \in {"steer", "answer", "cancel"}
        PROVE  Open(s, a, Send(r, w, Event(kind, c, w, "")))
    <3>1. PICK e : e = Event(kind, c, w, "")  OBVIOUS
    <3>2. e.kind \in CallMail /\ e.key = Append(s, k.calls) /\ e.kind # "request"
      BY <2>3, <3>1 DEF Event, CallMail
    <3>3. \A child \in r.spawn : child \in p.spawn \/ child[1] = Append(s, k.calls)  BY <2>5
    <3>4. Open(s, a, Send(r, w, e))  BY <2>3, <2>5, <3>2, <3>3, OpenSends
    <3> QED  BY <3>1, <3>4
  <2> QED  BY <2>1, <2>2, <2>4, <2>6
<1>4. PICK k1 : k1 = Write(n, c) /\ Alike(n, k1)  BY <1>2, ChangesAlike
<1>5. PICK k2 : k2 = Write(Restated(n, w, "working"), c) /\ Alike(n, k2)
  <2>1. PICK k : k = Restated(n, w, "working") /\ Alike(n, k)  BY <1>2, ChangesAlike
  <2>2. DOMAIN k = Fields  BY <2>1 DEF Alike
  <2>3. Alike(k, Write(k, c))  BY <2>2, ChangesAlike
  <2> QED  BY <2>1, <2>3, AlikeAgain
<1>6. PICK m : m = [n EXCEPT !.panel[w].status = "cancelled", !.panel[w].mode = "connected"]
  OBVIOUS
<1>7. PICK d : d = (IF n.panel[w].mode = "wait" THEN Defer(m, w) ELSE m)  OBVIOUS
<1>8. PICK k3 : k3 = Write(d, c) /\ Alike(n, k3)
  <2>1. Alike(n, m)  BY <1>2, <1>6 DEF Alike, Fields
  <2>2. DOMAIN m = Fields  BY <2>1 DEF Alike
  <2>3. Alike(m, d)  BY <1>7, <2>2, ChangesAlike
  <2>4. DOMAIN d = Fields  BY <2>3 DEF Alike
  <2>5. Alike(d, Write(d, c))  BY <2>4, ChangesAlike
  <2> QED  BY <2>1, <2>3, <2>5, AlikeAgain
<1>9. Cancel(q, c, w) = Send([q EXCEPT !.mind = k3], w, Event("cancel", c, w, ""))
  BY <1>1, <1>6, <1>7, <1>8 DEF Cancel
<1>10. \/ Control(q, c, name, w) = [q EXCEPT !.mind = k1]
       \/ Control(q, c, name, w) = Send([q EXCEPT !.mind = k1], w, Event("steer", c, w, ""))
       \/ Control(q, c, name, w) = Send([q EXCEPT !.mind = k2], w, Event("answer", c, w, ""))
       \/ Control(q, c, name, w) = Cancel(q, c, w)
  BY <1>1, <1>4, <1>5 DEF Control, Restated
<1> QED  BY <1>3, <1>4, <1>5, <1>8, <1>9, <1>10

\* ask_caller: mail to the caller.
LEMMA AskProposes ==
  ASSUME NEW s \in Sessions, s # Root, NEW a \in Nat, NEW p, Open(s, a, p), NEW n, Called(s, p, n),
         NEW q, q = [p EXCEPT !.mind = n], NEW c, c = Append(s, n.calls)
  PROVE  Open(s, a, Ask(s, q, c))
<1>1. /\ DOMAIN q = Parts /\ q.mind = n /\ q.complete = FALSE /\ q.send = p.send
      /\ q.spawn = p.spawn
  BY DEF Open, Parts
<1>2. PICK m : m = [n EXCEPT !.work = "input_required"]  OBVIOUS
<1>3. Called(s, p, m) /\ m.calls = n.calls  BY <1>2 DEF Called, Fields
<1>4. PICK k : k = Write(m, c) /\ Alike(m, k)  BY <1>3, ChangesAlike DEF Called
<1>5. Called(s, p, k) /\ k.calls = n.calls  BY <1>3, <1>4, AlikeCalled DEF Alike
<1>6. PICK r : r = [q EXCEPT !.mind = k, !.asked = TRUE]  OBVIOUS
<1>7. /\ DOMAIN r = Parts /\ r.mind = k /\ r.complete = FALSE /\ r.send = p.send
      /\ r.spawn = p.spawn
  BY <1>1, <1>6 DEF Parts
<1>8. PICK e, to : e = Event("ask", c, s, "") /\ to = Parent(s)  OBVIOUS
<1>9. e.kind \in CallMail /\ e.key = Append(s, k.calls) /\ e.kind # "request"
  BY <1>5, <1>8 DEF Event, CallMail
<1>10. to # s  BY <1>8, ParentIsOther
<1>11. \A child \in r.spawn : child \in p.spawn \/ child[1] = Append(s, k.calls)  BY <1>7
<1>12. Open(s, a, Send(r, to, e))  BY <1>5, <1>7, <1>9, <1>10, <1>11, OpenSends
<1>13. Ask(s, q, c) = Send(r, to, e)  BY <1>1, <1>2, <1>4, <1>6, <1>8 DEF Ask
<1> QED  BY <1>12, <1>13

\* A call the model is offered: controls are about other sessions, and only
\* who has a caller may ask it.
CallFits(s, call) ==
  /\ call.name \in {"steer", "answer", "cancel"} => call.work # s
  /\ call.name = "ask" => s # Root

LEMMA RunCallProposes ==
  ASSUME NEW s \in Sessions, NEW a \in Nat, NEW p, Open(s, a, p), NEW call, CallFits(s, call)
  PROVE  Open(s, a, RunCall(s, p, call))
<1>1. PICK m : m = p.mind /\ DOMAIN m = Fields /\ m.calls \in Nat /\ (s = Root => m.work = "none")
  BY DEF Open
<1>2. PICK n : n = [m EXCEPT !.calls = @ + 1]  OBVIOUS
<1>3. Called(s, p, n)  BY <1>1, <1>2 DEF Called, Fields
<1>4. PICK c : c = Append(s, n.calls)  OBVIOUS
<1>5. c = Append(s, p.mind.calls + 1)  BY <1>3, <1>4 DEF Called
<1>6. PICK q : q = [p EXCEPT !.mind = n]  OBVIOUS
<1>7. q = [p EXCEPT !.mind.calls = @ + 1] /\ q.mind = n
  BY <1>1, <1>2, <1>6 DEF Open, Parts
<1>8. Open(s, a, Delegate(q, c, call.name)) /\ Open(s, a, AwaitTool(q, c))
  BY <1>3, <1>4, <1>6, DelegateProposes
<1>9. ASSUME call.name \in {"steer", "answer", "cancel"}
      PROVE  Open(s, a, Control(q, c, call.name, call.work))
  <2>1. call.work # s  BY <1>9 DEF CallFits
  <2> QED  BY <1>3, <1>4, <1>6, <2>1, ControlProposes
<1>10. ASSUME call.name = "ask"  PROVE Open(s, a, Ask(s, q, c))
  <2>1. s # Root  BY <1>10 DEF CallFits
  <2> QED  BY <1>3, <1>4, <1>6, <2>1, AskProposes
<1>11. Open(s, a, [q EXCEPT !.mind = Write(@, c)])
  <2>1. PICK k : k = Write(n, c) /\ Alike(n, k)  BY <1>3, ChangesAlike DEF Called
  <2>2. Open(s, a, [p EXCEPT !.mind = k])  BY <1>3, <2>1, AlikeCalled, OpenGoesOn
  <2>3. [q EXCEPT !.mind = Write(@, c)] = [p EXCEPT !.mind = k]  BY <1>6, <1>7, <2>1
  <2> QED  BY <2>2, <2>3
<1>12. \/ RunCall(s, p, call) = Delegate(q, c, call.name)
       \/ RunCall(s, p, call) = AwaitTool(q, c)
       \/ /\ call.name \in {"steer", "answer", "cancel"}
          /\ RunCall(s, p, call) = Control(q, c, call.name, call.work)
       \/ call.name = "ask" /\ RunCall(s, p, call) = Ask(s, q, c)
       \/ RunCall(s, p, call) = [q EXCEPT !.mind = Write(@, c)]
  BY <1>5, <1>7 DEF RunCall
<1> QED  BY <1>8, <1>9, <1>10, <1>11, <1>12

RanOK(x, i, p) == Open(x.s, x.a, p)
CallingAll == INSTANCE Loops WITH Do <- CallDo, Inv <- RanOK

LEMMA RunCallsPropose ==
  ASSUME NEW s \in Sessions, NEW a \in Nat, NEW p, Open(s, a, p), NEW calls, Len(calls) \in Nat,
         \A i \in 1..Len(calls) : CallFits(s, calls[i])
  PROVE  Open(s, a, RunCalls(s, p, calls))
<1>1. PICK x : x = [s |-> s, a |-> a]  OBVIOUS
<1>2. RanOK(x, 0, p)  BY <1>1 DEF RanOK
<1>3. ASSUME NEW i \in 1..Len(calls), NEW q, RanOK(x, i - 1, q)
      PROVE  RanOK(x, i, CallDo(x, q, calls[i]))
  BY <1>1, <1>3, RunCallProposes DEF RanOK, CallDo
<1>0. CallingAll!Induction  BY NatIsAll DEF CallingAll!Induction
<1>4. RanOK(x, Len(calls), CallingAll!Looped(x, p, calls))
  BY <1>0, <1>2, <1>3, CallingAll!LoopKeeps
<1>5. RunCalls(s, p, calls) = CallingAll!Looped(x, p, calls)
  BY <1>1 DEF RunCalls, ForEach, CallingAll!Looped, CallDo
<1> QED  BY <1>1, <1>4, <1>5 DEF RanOK

\* _turn.
LEMMA TurnProposes ==
  ASSUME NEW s \in Sessions, NEW a \in Nat, NEW p, Idle(s, a, p), NEW calls, Len(calls) \in Nat,
         \A i \in 1..Len(calls) : CallFits(s, calls[i])
  PROVE  Proposed(s, a, Turn(s, p, calls))
<1>1. PICK m, n : m = p.mind /\ n = [m EXCEPT !.tail = "assistant"]  OBVIOUS
<1>2. Alike(m, n) /\ DOMAIN m = Fields  BY <1>1 DEF Idle, Alike, Fields
<1>3. PICK said : said = [p EXCEPT !.mind = n]  OBVIOUS
<1>4. Idle(s, a, said) /\ said.mind = n
  <2>1. said.mind = n  BY <1>3 DEF Idle, Parts
  <2> QED  BY <1>1, <1>2, <1>3, <2>1, IdleFields
<1>5. Open(s, a, said)  BY <1>4, IdleIsOpen
<1>6. PICK ran : ran = RunCalls(s, said, calls) /\ Open(s, a, ran)  BY <1>5, RunCallsPropose
<1>7. \A wake : Open(s, a, [ran EXCEPT !.wake = wake])  BY <1>6 DEF Open, Parts
<1>8. ASSUME Job(n)  PROVE Ended(s, a, FinishJob(s, n, "completed"))
  <2>1. s # Root  BY <1>4, <1>8 DEF Idle, Job
  <2>2. n.calls = a /\ DOMAIN n = Fields  BY <1>4 DEF Idle
  <2> QED  BY <2>1, <2>2, FinishEnds
<1>9. said = [p EXCEPT !.mind.tail = "assistant"]  BY <1>1, <1>3
<1>10. \/ \E wake : Turn(s, p, calls) = [ran EXCEPT !.wake = wake]
       \/ Job(n) /\ Turn(s, p, calls) = FinishJob(s, n, "completed")
       \/ Turn(s, p, calls) = said
  <2>1. CASE calls # <<>>  BY <1>6, <1>9, <2>1 DEF Turn
  <2>2. CASE calls = <<>>  BY <1>4, <1>6, <1>9, <2>2 DEF Turn
  <2> QED  BY <2>1, <2>2
<1> QED  BY <1>5, <1>7, <1>8, <1>10 DEF Proposed

\* What the model replies with is a list of calls it was offered.
LEMMA RepliesFit ==
  ASSUME NEW s \in Sessions, NEW m, MindOK(s, m), s = Root => m.work = "none",
         NEW calls \in Replies(s, m)
  PROVE  \A i \in 1..Len(calls) : CallFits(s, calls[i])
<1>1. Len(calls) \in Nat  BY RepliesAreLists
<1>2. \A call \in Offered(s, m) : CallFits(s, call)
  <2>1. TAKE call \in Offered(s, m)
  <2>2. PICK here : here = Offers[Len(s)] \ (IF Job(m) THEN {} ELSE {"ask"})  OBVIOUS
  <2>3. CASE call \in [name : here \ {"steer", "answer", "cancel"}, work : {Root}]
    <3>1. call.name \in here /\ call.name \notin {"steer", "answer", "cancel"}  BY <2>3
    <3>2. call.name = "ask" => Job(m)  BY <2>2, <3>1
    <3> QED  BY <3>1, <3>2 DEF CallFits, Job
  <2>4. CASE call \in [name : here \cap {"steer", "answer", "cancel"}, work : DOMAIN m.panel \ m.closed]
    <3>1. call.name \in {"steer", "answer", "cancel"} /\ call.work \in DOMAIN m.panel  BY <2>4
    <3>2. PICK k \in 1..m.calls : call.work = Append(s, k)  BY <3>1 DEF MindOK
    <3>3. k \in Nat  BY DEF MindOK
    <3>4. call.work # s  BY <3>2, <3>3, CallIsOther
    <3> QED  BY <3>1, <3>4 DEF CallFits
  <2>5. \/ call \in [name : here \ {"steer", "answer", "cancel"}, work : {Root}]
        \/ call \in [name : here \cap {"steer", "answer", "cancel"}, work : DOMAIN m.panel \ m.closed]
    BY <2>2 DEF Offered
  <2> QED  BY <2>3, <2>4, <2>5
<1>3. \A i \in 1..Len(calls) : calls[i] \in Offered(s, m)
  <2>1. PICK O : O = Offered(s, m)  OBVIOUS
  <2>2. PICK n, most : n \in 0..most /\ calls \in [1..n -> O]
    BY <2>1 DEF Replies
  <2>3. DOMAIN calls = 1..n  BY <2>2
  <2>4. \A i \in DOMAIN calls : calls[i] \in O  BY <2>2, <2>3
  <2> QED  BY <2>1, <2>4
<1> QED  BY <1>2, <1>3

\* What a handler may propose.
LEMMA HandlerProposes ==
  ASSUME NEW s \in Sessions, MindOK(s, mind[s]), NEW T, NEW mail \in Seq(T), NEW more,
         s = Root => /\ mind[s].work = "none" /\ row[s].kind = "agent"
                     /\ \A e \in T : e.kind # "request",
         NEW p \in Handler(s, mail, more)
  PROVE  Proposed(s, mind[s].calls, p)
<1>1. PICK m : m = mind[s] /\ MindOK(s, m)  OBVIOUS
<1>2. PICK a : a = m.calls /\ a \in Nat  BY <1>1 DEF MindOK
<1>3. CASE row[s].kind = "agent"
  <2>1. PICK q : q = Ingested(s, m, mail)  OBVIOUS
  <2>2. Idle(s, a, q) \/ Ended(s, a, q)  BY <1>1, <1>2, <2>1, IngestedProposes
  <2>3. Silent(s, m, q)  BY <1>1, <2>1, IngestedSilent
  <2>4. CASE Ended(s, a, q)
    <3>1. q.complete = TRUE  BY <2>4 DEF Ended
    <3>2. p = q  BY <1>1, <1>3, <2>1, <3>1 DEF Handler, Resume
    <3> QED  BY <1>1, <1>2, <2>4, <3>2 DEF Proposed
  <2>5. CASE Idle(s, a, q)
    <3>1. Proposed(s, a, q)  BY <1>2, <2>5, IdleIsOpen DEF Proposed
    <3>2. \A wake : Proposed(s, a, [q EXCEPT !.wake = wake])
      BY <1>2, <2>5, IdleFields, IdleIsOpen DEF Proposed
    <3>3. \A calls \in Replies(s, q.mind) : Proposed(s, a, Turn(s, q, calls))
      <4>1. TAKE calls \in Replies(s, q.mind)
      <4>2. MindOK(s, q.mind)  BY <2>3 DEF Silent, Quiet
      <4>3. s = Root => q.mind.work = "none"  BY <2>5 DEF Idle
      <4>4. Len(calls) \in Nat  BY <4>2, RepliesAreLists
      <4>5. \A i \in 1..Len(calls) : CallFits(s, calls[i])  BY <4>2, <4>3, RepliesFit
      <4> QED  BY <1>2, <2>5, <4>4, <4>5, TurnProposes
    <3>4. \/ p = q \/ \E wake : p = [q EXCEPT !.wake = wake]
          \/ \E calls \in Replies(s, q.mind) : p = Turn(s, q, calls)
      BY <1>1, <1>3, <2>1 DEF Handler, Resume
    <3> QED  BY <1>1, <1>2, <3>1, <3>2, <3>3, <3>4
  <2> QED  BY <2>2, <2>4, <2>5
<1>4. CASE row[s].kind # "agent"
  <2>1. s # Root  BY <1>4
  <2>2. PICK n : n = [m EXCEPT !.work = IF {i \in DOMAIN mail : mail[i].kind = "request"} # {}
                                        THEN "working" ELSE @]
    OBVIOUS
  <2>3. DOMAIN n = Fields /\ n.calls = a  BY <1>1, <1>2, <2>2 DEF MindOK, Fields
  <2>4. PICK q : q = Proposal(n) /\ Idle(s, a, q)  BY <2>1, <2>3, ProposalIdle
  <2>5. Open(s, a, q) /\ Open(s, a, [q EXCEPT !.raised = TRUE])
    BY <1>2, <2>4, IdleFields, IdleIsOpen
  <2>6. Ended(s, a, FinishJob(s, n, "completed"))  BY <2>1, <2>3, FinishEnds
  <2>7. p = q \/ p = [q EXCEPT !.raised = TRUE] \/ p = FinishJob(s, n, "completed")
    BY <1>1, <1>4, <2>2, <2>4 DEF Handler, RunTool
  <2> QED  BY <1>1, <1>2, <2>5, <2>6, <2>7 DEF Proposed
<1> QED  BY <1>3, <1>4
-----------------------------------------------------------------------------
(* Mail lists.                                                             *)

Distinct(q) == \A i, j \in 1..Len(q) : q[i] = q[j] => i = j

\* A list and the set of its members.
LEMMA MembersOf ==
  ASSUME NEW q, IsList(q)
  PROVE  /\ Len(q) \in Nat /\ ToSet(q) = {q[i] : i \in 1..Len(q)}
         /\ \A e : e \in ToSet(q) <=> \E i \in 1..Len(q) : e = q[i]
<1>1. PICK T : q \in Seq(T)  BY DEF IsList
<1>2. Len(q) \in Nat /\ DOMAIN q = 1..Len(q)  BY <1>1
<1> QED  BY <1>2 DEF ToSet

LEMMA NoMembers ==
  ASSUME NEW q, IsList(q), ToSet(q) = {}
  PROVE  q = <<>>
<1>1. PICK T : q \in Seq(T)  BY DEF IsList
<1>2. Len(q) \in Nat /\ ~\E i \in 1..Len(q) : TRUE  BY <1>1, MembersOf
<1>3. Len(q) = 0  BY <1>2
<1> QED  BY <1>1, <1>3

\* Members of two lists in one.
LEMMA JoinMail ==
  ASSUME NEW q, IsList(q), NEW r, IsList(r)
  PROVE  /\ ToSet(q \o r) = ToSet(q) \cup ToSet(r)
         /\ Distinct(q) /\ Distinct(r) /\ ToSet(q) \cap ToSet(r) = {} => Distinct(q \o r)
<1>1. PICK T : q \in Seq(T)  BY DEF IsList
<1>2. PICK U : r \in Seq(U)  BY DEF IsList
<1>3. PICK V : V = T \cup U  OBVIOUS
<1>4. q \in Seq(V) /\ r \in Seq(V)  BY <1>1, <1>2, <1>3
<1>5. PICK m, n : m = Len(q) /\ n = Len(r)  OBVIOUS
<1>6. m = Len(q) /\ n = Len(r) /\ m \in Nat /\ n \in Nat  BY <1>4, <1>5
<1>7. PICK j : j = q \o r  OBVIOUS
<1>8. /\ Len(j) = m + n
      /\ \A i \in 1..(m + n) : j[i] = IF i <= m THEN q[i] ELSE r[i - m]
  BY <1>4, <1>6, <1>7
<1>9. IsList(j)  BY <1>7, ListConcat
<1>10. ToSet(j) = ToSet(q) \cup ToSet(r)
  <2>1. ASSUME NEW e \in ToSet(j)  PROVE e \in ToSet(q) \cup ToSet(r)
    <3>1. PICK i \in 1..(m + n) : e = j[i]  BY <1>8, <1>9, MembersOf
    <3>2. CASE i <= m
      <4>1. i \in 1..m /\ e = q[i]  BY <1>6, <1>8, <3>1, <3>2
      <4> QED  BY <1>6, <4>1, MembersOf
    <3>3. CASE ~(i <= m)
      <4>1. i - m \in 1..n /\ e = r[i - m]  BY <1>6, <1>8, <3>1, <3>3
      <4> QED  BY <1>6, <4>1, MembersOf
    <3> QED  BY <3>2, <3>3
  <2>2. ASSUME NEW e \in ToSet(q)  PROVE e \in ToSet(j)
    <3>1. PICK i \in 1..m : e = q[i]  BY <1>6, MembersOf
    <3>2. i \in 1..(m + n) /\ i <= m  BY <1>6
    <3>3. e = j[i]  BY <1>8, <3>1, <3>2
    <3> QED  BY <1>8, <1>9, <3>2, <3>3, MembersOf
  <2>3. ASSUME NEW e \in ToSet(r)  PROVE e \in ToSet(j)
    <3>1. PICK i \in 1..n : e = r[i]  BY <1>6, MembersOf
    <3>2. m + i \in 1..(m + n) /\ ~(m + i <= m) /\ (m + i) - m = i  BY <1>6
    <3>3. e = j[m + i]  BY <1>8, <3>1, <3>2
    <3> QED  BY <1>8, <1>9, <3>2, <3>3, MembersOf
  <2> QED  BY <2>1, <2>2, <2>3
<1>11. ASSUME Distinct(q), Distinct(r), ToSet(q) \cap ToSet(r) = {}  PROVE Distinct(j)
  <2>1. SUFFICES ASSUME NEW i \in 1..(m + n), NEW k \in 1..(m + n), j[i] = j[k]  PROVE i = k
    BY <1>8 DEF Distinct
  <2>2. CASE i <= m /\ k <= m
    <3>1. i \in 1..m /\ k \in 1..m /\ q[i] = q[k]  BY <1>6, <1>8, <2>1, <2>2
    <3> QED  BY <1>6, <1>11, <3>1 DEF Distinct
  <2>3. CASE ~(i <= m) /\ ~(k <= m)
    <3>1. i - m \in 1..n /\ k - m \in 1..n /\ r[i - m] = r[k - m]  BY <1>6, <1>8, <2>1, <2>3
    <3>2. i - m = k - m  BY <1>6, <1>11, <3>1 DEF Distinct
    <3> QED  BY <1>6, <3>2
  <2>4. CASE i <= m /\ ~(k <= m)
    <3>1. i \in 1..m /\ k - m \in 1..n /\ q[i] = r[k - m]  BY <1>6, <1>8, <2>1, <2>4
    <3>2. q[i] \in ToSet(q) /\ r[k - m] \in ToSet(r)  BY <1>6, <3>1, MembersOf
    <3> QED  BY <1>11, <3>1, <3>2
  <2>5. CASE ~(i <= m) /\ k <= m
    <3>1. k \in 1..m /\ i - m \in 1..n /\ q[k] = r[i - m]  BY <1>6, <1>8, <2>1, <2>5
    <3>2. q[k] \in ToSet(q) /\ r[i - m] \in ToSet(r)  BY <1>6, <3>1, MembersOf
    <3> QED  BY <1>11, <3>1, <3>2
  <2> QED  BY <2>2, <2>3, <2>4, <2>5
<1> QED  BY <1>7, <1>10, <1>11

\* A list and one more.
LEMMA OneMore ==
  ASSUME NEW q, IsList(q), NEW e
  PROVE  /\ IsList(Append(q, e)) /\ ToSet(Append(q, e)) = ToSet(q) \cup {e}
         /\ Distinct(q) /\ e \notin ToSet(q) => Distinct(Append(q, e))
<1>1. PICK T : q \in Seq(T)  BY DEF IsList
<1>2. PICK V : V = T \cup {e}  OBVIOUS
<1>3. q \in Seq(V) /\ e \in V  BY <1>1, <1>2
<1>4. PICK m, a : m = Len(q) /\ a = Append(q, e)  OBVIOUS
<1>5. m = Len(q) /\ m \in Nat /\ a = Append(q, e)  BY <1>3, <1>4
<1>6. /\ Len(a) = m + 1 /\ a[m + 1] = e
      /\ \A i \in 1..m : a[i] = q[i]
  BY <1>3, <1>5
<1>7. IsList(a)  BY <1>5, ListAppend
<1>8. \A i \in 1..(m + 1) : i \in 1..m \/ i = m + 1  BY <1>5
<1>9. 1..m \subseteq 1..(m + 1) /\ m + 1 \in 1..(m + 1)  BY <1>5
<1>10. ToSet(a) = ToSet(q) \cup {e}
  <2>1. ASSUME NEW x \in ToSet(a)  PROVE x \in ToSet(q) \cup {e}
    <3>1. PICK i \in 1..(m + 1) : x = a[i]  BY <1>6, <1>7, MembersOf
    <3>2. CASE i \in 1..m  BY <1>5, <1>6, <3>1, <3>2, MembersOf
    <3>3. CASE i = m + 1  BY <1>6, <3>1, <3>3
    <3> QED  BY <1>8, <3>2, <3>3
  <2>2. ASSUME NEW x \in ToSet(q)  PROVE x \in ToSet(a)
    <3>1. PICK i \in 1..m : x = q[i]  BY <1>5, MembersOf
    <3>2. i \in 1..(m + 1) /\ x = a[i]  BY <1>6, <1>9, <3>1
    <3> QED  BY <1>6, <1>7, <3>2, MembersOf
  <2>3. e \in ToSet(a)  BY <1>6, <1>7, <1>9, MembersOf
  <2> QED  BY <2>1, <2>2, <2>3
<1>11. ASSUME Distinct(q), e \notin ToSet(q)  PROVE Distinct(a)
  <2>1. \A i \in 1..m : a[i] # e  BY <1>5, <1>6, <1>11, MembersOf
  <2>2. \A i, j \in 1..m : a[i] = a[j] => i = j  BY <1>5, <1>6, <1>11 DEF Distinct
  <2>3. \A i, j \in 1..(m + 1) : a[i] = a[j] => i = j  BY <1>6, <1>8, <2>1, <2>2
  <2> QED  BY <1>6, <2>3 DEF Distinct
<1> QED  BY <1>5, <1>7, <1>10, <1>11

\* The list q is cut after b members.
Cut(q, b, d, rest) ==
  /\ IsList(q) /\ IsList(d) /\ IsList(rest) /\ b \in 0..Len(q)
  /\ Len(d) = b /\ \A i \in 1..b : d[i] = q[i]
  /\ Len(rest) = Len(q) - b /\ \A i \in 1..(Len(q) - b) : rest[i] = q[b + i]

LEMMA MailIsCut ==
  ASSUME NEW q, IsList(q), NEW b \in 0..Len(q)
  PROVE  Cut(q, b, SubSeq(q, 1, b), SubSeq(q, b + 1, Len(q)))
<1>1. PICK d, rest : d = SubSeq(q, 1, b) /\ rest = SubSeq(q, b + 1, Len(q))  OBVIOUS
<1>2. PICK T : q \in Seq(T)  BY DEF IsList
<1>3. PICK n : n = Len(q)  OBVIOUS
<1>4. n = Len(q) /\ n \in Nat /\ b \in 0..n /\ b \in Nat  BY <1>2, <1>3
<1>5. d \in Seq(T) /\ rest \in Seq(T)  BY <1>1, <1>2, ListPart
<1>6. IsList(d) /\ IsList(rest)  BY <1>5 DEF IsList
<1>7. Len(d) = b /\ \A i \in 1..b : d[i] = q[i]
  <2>1. \A i \in 1..b : q[i] \in T  BY <1>2, <1>4
  <2>2. 1 \in Int /\ b \in Int  BY <1>4
  <2>3. /\ Len(SubSeq(q, 1, b)) = IF 1 <= b THEN b - 1 + 1 ELSE 0
        /\ \A i \in 1..(b - 1 + 1) : SubSeq(q, 1, b)[i] = q[1 + i - 1]
    BY <2>1, <2>2, SubSeqProperties
  <2>4. \A i \in 1..b : i \in 1..(b - 1 + 1) /\ 1 + i - 1 = i  BY <1>4
  <2> QED  BY <1>1, <1>4, <2>3, <2>4
<1>8. Len(rest) = n - b /\ \A i \in 1..(n - b) : rest[i] = q[b + i]
  <2>1. \A i \in (b + 1)..n : q[i] \in T  BY <1>2, <1>4
  <2>2. b + 1 \in Int /\ n \in Int  BY <1>4
  <2>3. /\ Len(SubSeq(q, b + 1, n)) = IF b + 1 <= n THEN n - (b + 1) + 1 ELSE 0
        /\ \A i \in 1..(n - (b + 1) + 1) : SubSeq(q, b + 1, n)[i] = q[b + 1 + i - 1]
    BY <2>1, <2>2, SubSeqProperties
  <2>4. \A i \in 1..(n - b) : i \in 1..(n - (b + 1) + 1) /\ b + 1 + i - 1 = b + i  BY <1>4
  <2> QED  BY <1>1, <1>4, <2>3, <2>4
<1> QED  BY <1>1, <1>4, <1>6, <1>7, <1>8 DEF Cut

\* A batch and what it leaves behind.
LEMMA SplitMail ==
  ASSUME NEW q, Distinct(q), NEW b, NEW d, NEW rest, Cut(q, b, d, rest)
  PROVE  /\ Distinct(rest)
         /\ ToSet(q) = ToSet(d) \cup ToSet(rest) /\ ToSet(d) \cap ToSet(rest) = {}
         /\ ~(Len(q) > b) => rest = <<>>
<1>1. IsList(q) /\ IsList(d) /\ IsList(rest)  BY DEF Cut
<1>2. PICK n : n = Len(q)  OBVIOUS
<1>3. n = Len(q) /\ n \in Nat /\ b \in 0..n /\ b \in Nat
  <2>1. Len(q) \in Nat  BY <1>1, MembersOf
  <2> QED  BY <1>2, <2>1 DEF Cut
<1>4. Len(d) = b /\ \A i \in 1..b : d[i] = q[i]  BY DEF Cut
<1>5. Len(rest) = n - b /\ \A i \in 1..(n - b) : rest[i] = q[b + i]  BY <1>2 DEF Cut
<1>6. \A i \in 1..(n - b) : b + i \in 1..n  BY <1>3
<1>7. Distinct(rest)
  <2>1. SUFFICES ASSUME NEW i \in 1..(n - b), NEW j \in 1..(n - b), rest[i] = rest[j]  PROVE i = j
    BY <1>5 DEF Distinct
  <2>2. q[b + i] = q[b + j]  BY <1>5, <2>1
  <2>3. b + i = b + j  BY <1>3, <1>6, <2>2 DEF Distinct
  <2> QED  BY <1>3, <2>3
<1>8. ToSet(q) = ToSet(d) \cup ToSet(rest)
  <2>1. ASSUME NEW e \in ToSet(q)  PROVE e \in ToSet(d) \cup ToSet(rest)
    <3>1. PICK i \in 1..n : e = q[i]  BY <1>3, <1>1, MembersOf
    <3>2. CASE i <= b
      <4>1. i \in 1..b /\ e = d[i]  BY <1>3, <1>4, <3>1, <3>2
      <4> QED  BY <1>1, <1>4, <4>1, MembersOf
    <3>3. CASE ~(i <= b)
      <4>1. i - b \in 1..(n - b) /\ b + (i - b) = i  BY <1>3, <3>3
      <4>2. e = rest[i - b]  BY <1>5, <3>1, <4>1
      <4> QED  BY <1>1, <1>5, <4>1, <4>2, MembersOf
    <3> QED  BY <3>2, <3>3
  <2>2. ASSUME NEW e \in ToSet(d)  PROVE e \in ToSet(q)
    <3>1. PICK i \in 1..b : e = d[i]  BY <1>1, <1>4, MembersOf
    <3>2. i \in 1..n /\ e = q[i]  BY <1>3, <1>4, <3>1
    <3> QED  BY <1>3, <1>1, <3>2, MembersOf
  <2>3. ASSUME NEW e \in ToSet(rest)  PROVE e \in ToSet(q)
    <3>1. PICK i \in 1..(n - b) : e = rest[i]  BY <1>1, <1>5, MembersOf
    <3>2. b + i \in 1..n /\ e = q[b + i]  BY <1>5, <1>6, <3>1
    <3> QED  BY <1>3, <1>1, <3>2, MembersOf
  <2> QED  BY <2>1, <2>2, <2>3
<1>9. ToSet(d) \cap ToSet(rest) = {}
  <2>1. SUFFICES ASSUME NEW e \in ToSet(d), e \in ToSet(rest)  PROVE FALSE  OBVIOUS
  <2>2. PICK i \in 1..b : e = d[i]  BY <1>1, <1>4, MembersOf
  <2>3. PICK j \in 1..(n - b) : e = rest[j]  BY <1>1, <1>5, <2>1, MembersOf
  <2>4. i \in 1..n /\ e = q[i]  BY <1>3, <1>4, <2>2
  <2>5. b + j \in 1..n /\ e = q[b + j]  BY <1>5, <1>6, <2>3
  <2>6. i = b + j  BY <1>3, <2>4, <2>5 DEF Distinct
  <2> QED  BY <1>3, <2>6
<1>10. ~(n > b) => rest = <<>>
  <2>1. ASSUME ~(n > b)  PROVE rest = <<>>
    <3>1. Len(rest) = 0  BY <1>3, <1>5, <2>1
    <3>2. PICK T : rest \in Seq(T)  BY <1>1 DEF IsList
    <3> QED  BY <3>1, <3>2
  <2> QED  BY <2>1
<1> QED  BY <1>3, <1>7, <1>8, <1>9, <1>10

\* The mail staged for t: what is sent to it, once each.
StagedOK(x, i, q) ==
  /\ IsList(q) /\ Distinct(q)
  /\ \A e \in ToSet(q) : \E l \in 1..i : x.send[l][1] = x.t /\ x.send[l][2] = e
StageDo(x, q, item) == IF item[1] = x.t THEN Append(q, item[2]) ELSE q
Staging == INSTANCE Loops WITH Do <- StageDo, Inv <- StagedOK

LEMMA MailForIsSent ==
  ASSUME NEW t, NEW p, IsList(p.send),
         \A i, j \in 1..Len(p.send) : p.send[i][2] = p.send[j][2] => i = j
  PROVE  /\ IsList(MailFor(t, p)) /\ Distinct(MailFor(t, p))
         /\ \A e \in ToSet(MailFor(t, p)) :
              \E i \in 1..Len(p.send) : p.send[i][1] = t /\ p.send[i][2] = e
<1>1. PICK mail : mail = p.send  OBVIOUS
<1>2. PICK x : x = [t |-> t, send |-> mail]  OBVIOUS
<1>3. Len(mail) \in Nat  BY <1>1 DEF IsList
<1>4. mail = p.send /\ Len(mail) \in Nat /\ x = [t |-> t, send |-> mail]
  BY <1>1, <1>2, <1>3
<1>5. StagedOK(x, 0, <<>>)
  <2>1. <<>> \in Seq({}) /\ Len(<<>>) = 0  OBVIOUS
  <2>2. IsList(<<>>)  BY <2>1 DEF IsList
  <2>3. ToSet(<<>>) = {}  BY <2>1, <2>2, MembersOf
  <2> QED  BY <2>1, <2>2, <2>3 DEF StagedOK, Distinct
<1>6. ASSUME NEW i \in 1..Len(mail), NEW q, StagedOK(x, i - 1, q)
      PROVE  StagedOK(x, i, StageDo(x, q, mail[i]))
  <2>1. PICK item : item = mail[i]  OBVIOUS
  <2>2. /\ IsList(q) /\ Distinct(q)
        /\ \A e \in ToSet(q) : \E l \in 1..(i - 1) : mail[l][1] = t /\ mail[l][2] = e
    BY <1>4, <1>6 DEF StagedOK
  <2>3. \A l \in 1..(i - 1) : l \in 1..i /\ l \in 1..Len(mail) /\ l # i  BY <1>4
  <2>4. CASE item[1] = t
    <3>1. item[2] \notin ToSet(q)  BY <1>4, <2>1, <2>2, <2>3
    <3>2. PICK r : r = Append(q, item[2])  OBVIOUS
    <3>3. IsList(r) /\ ToSet(r) = ToSet(q) \cup {item[2]} /\ Distinct(r)
      BY <2>2, <3>1, <3>2, OneMore
    <3>4. i \in 1..i  BY <1>4
    <3>5. \A e \in ToSet(r) : \E l \in 1..i : mail[l][1] = t /\ mail[l][2] = e
      BY <2>1, <2>2, <2>3, <2>4, <3>3, <3>4
    <3>6. StageDo(x, q, item) = r  BY <1>4, <2>4, <3>2 DEF StageDo
    <3> QED  BY <1>4, <2>1, <3>3, <3>5, <3>6 DEF StagedOK
  <2>5. CASE item[1] # t
    <3>1. StageDo(x, q, item) = q  BY <1>4, <2>5 DEF StageDo
    <3>2. \A e \in ToSet(q) : \E l \in 1..i : mail[l][1] = t /\ mail[l][2] = e
      BY <2>2, <2>3
    <3> QED  BY <1>4, <2>1, <2>2, <3>1, <3>2 DEF StagedOK
  <2> QED  BY <2>4, <2>5
<1>0. Staging!Induction  BY NatIsAll DEF Staging!Induction
<1>7. StagedOK(x, Len(mail), Staging!Looped(x, <<>>, mail))
  BY <1>0, <1>4, <1>5, <1>6, Staging!LoopKeeps
<1>8. MailFor(t, p) = Staging!Looped(x, <<>>, mail)
  BY <1>4 DEF MailFor, ForEach, Staging!Looped, StageDo
<1> QED  BY <1>4, <1>7, <1>8 DEF StagedOK
-----------------------------------------------------------------------------
(* The store under the agents.                                             *)

\* A call some session has made.
Known(c) == \E u \in Sessions : \E k \in 1..mind[u].calls : c = Append(u, k)

\* Accepted mail of t comes from the past.
MailOf(t, e) ==
  /\ e.kind = "user" => e.key \in 1..users
  /\ e.kind \in CallMail => Known(e.key)
  /\ e.kind = "request" => t # Root
  /\ e.kind = "result" => e.key \in Sessions /\ row[e.key].status = "complete"

SessionMail(t) ==
  /\ \A e \in Accepted(t) : MailOf(t, e)
  /\ Distinct(inbox[t]) /\ ToSet(inbox[t]) \cap folded[t] = {}
  /\ row[t].status = "absent" => inbox[t] = <<>> /\ folded[t] = {}

\* Sessions are born of calls, all of them after the root, which never ends.
Birth(t) ==
  /\ row[t].status \in {"absent", "live", "failed", "complete"}
  /\ row[t].status # "absent" => row[Root].status # "absent" /\ (t # Root => Known(t))
  /\ t = Root => row[t].status # "complete" /\ row[t].kind = "agent" /\ mind[t].work = "none"

AgentsOK ==
  /\ MindsOK /\ DOMAIN folded = Sessions /\ users \in Nat
  /\ \A t \in Sessions : SessionMail(t) /\ Birth(t)

\* Nothing is there at first.
LEMMA InitAgents == Init => AgentsOK
<1> SUFFICES ASSUME Init PROVE AgentsOK  OBVIOUS
<1>1. MindsOK  BY InitMinds
<1>2. DOMAIN folded = Sessions /\ users \in Nat  BY DEF Init
<1>3. <<>> \in Seq({}) /\ Len(<<>>) = 0  OBVIOUS
<1>4. IsList(<<>>)  BY <1>3 DEF IsList
<1>5. ToSet(<<>>) = {}  BY <1>3, <1>4, MembersOf
<1>6. Distinct(<<>>)  BY <1>3 DEF Distinct
<1>7. ASSUME NEW t \in Sessions  PROVE SessionMail(t) /\ Birth(t)
  <2>1. inbox[t] = <<>> /\ folded[t] = {} /\ row[t] = NoRow /\ mind[t] = NewMind(t)
    BY DEF Init
  <2>2. NoRow.status = "absent" /\ NoRow.kind = "agent"  BY DEF NoRow
  <2>3. NewMind(t).work = "none"  BY DEF NewMind
  <2>4. SessionMail(t)  BY <1>5, <1>6, <2>1 DEF SessionMail, Accepted
  <2> QED  BY <2>1, <2>2, <2>3, <2>4 DEF Birth
<1> QED  BY <1>1, <1>2, <1>7 DEF AgentsOK

\* No call is unmade, no message unwritten and no session resumed once complete.
Onward ==
  /\ users' \in Nat /\ users <= users'
  /\ \A u \in Sessions : mind[u].calls \in Nat /\ mind'[u].calls \in Nat
                         /\ mind[u].calls <= mind'[u].calls
  /\ \A u \in Sessions : row[u].status = "complete" => row'[u].status = "complete"

LEMMA KnownStays ==
  ASSUME Onward, NEW c, Known(c)
  PROVE  Known(c)'
<1>1. PICK u \in Sessions : \E k \in 1..mind[u].calls : c = Append(u, k)  BY DEF Known
<1>2. PICK k \in 1..mind[u].calls : c = Append(u, k)  BY <1>1
<1>3. k \in 1..mind'[u].calls  BY DEF Onward
<1> QED  BY <1>2, <1>3 DEF Known

LEMMA MailStays ==
  ASSUME AgentsOK, Onward, NEW t, NEW e, MailOf(t, e)
  PROVE  MailOf(t, e)'
<1>1. e.kind = "user" => e.key \in 1..users'
  <2>1. users \in Nat /\ users' \in Nat /\ users <= users'  BY DEF AgentsOK, Onward
  <2>2. \A n \in 1..users : n \in 1..users'  BY <2>1
  <2> QED  BY <2>2 DEF MailOf
<1>2. e.kind \in CallMail => Known(e.key)'  BY KnownStays DEF MailOf
<1>3. e.kind = "result" => e.key \in Sessions /\ row'[e.key].status = "complete"
  BY DEF MailOf, Onward
<1> QED  BY <1>1, <1>2, <1>3 DEF MailOf

\* No call is made in this step.
LEMMA SameMinds ==
  ASSUME MindsOK, users \in Nat, users' \in Nat, users <= users',
         \A u \in Sessions : mind'[u].calls = mind[u].calls,
         \A u \in Sessions : row[u].status = "complete" => row'[u].status = "complete"
  PROVE  Onward
BY DEF MindsOK, SessionOK, MindOK, Onward

\* One mail is new to one session, which is there; life goes on as before.
LEMMA ArrivalOK ==
  ASSUME AgentsOK, NEW s \in Sessions, NEW e, e \notin Accepted(s),
         row[s].status # "absent", MailOf(s, e)',
         \A t \in Sessions : inbox'[t] = IF t = s THEN Append(inbox[t], e) ELSE inbox[t],
         \A t \in Sessions : row'[t].status = row[t].status /\ row'[t].kind = row[t].kind,
         MindsOK', users' \in Nat, users <= users', UNCHANGED <<folded, mind>>
  PROVE  AgentsOK'
<1>1. Onward  BY SameMinds DEF AgentsOK
<1>2. ASSUME NEW t \in Sessions  PROVE SessionMail(t)' /\ Birth(t)'
  <2>1. SessionMail(t) /\ Birth(t) /\ IsList(inbox[t])  BY DEF AgentsOK, MindsOK, SessionOK
  <2>2. SessionMail(t)'
    <3>1. CASE t # s
      <4>1. inbox'[t] = inbox[t] /\ row'[t].status = row[t].status /\ folded'[t] = folded[t]
        BY <3>1
      <4>2. Accepted(t)' = Accepted(t)  BY <4>1 DEF Accepted
      <4>3. \A x \in Accepted(t) : MailOf(t, x)'  BY <1>1, <2>1, MailStays DEF SessionMail
      <4> QED  BY <2>1, <4>1, <4>2, <4>3 DEF SessionMail
    <3>2. CASE t = s
      <4>1. PICK q : q = inbox[t] /\ IsList(q) /\ Distinct(q) /\ ToSet(q) \cap folded[t] = {}
        BY <2>1 DEF SessionMail
      <4>2. e \notin ToSet(q) /\ e \notin folded[t]  BY <3>2, <4>1 DEF Accepted
      <4>3. PICK r : r = Append(q, e)  OBVIOUS
      <4>4. ToSet(r) = ToSet(q) \cup {e} /\ Distinct(r)  BY <4>1, <4>2, <4>3, OneMore
      <4>5. inbox'[t] = r /\ folded'[t] = folded[t] /\ row'[t].status # "absent"
        BY <3>2, <4>1, <4>3
      <4>6. Accepted(t)' = Accepted(t) \cup {e}  BY <4>1, <4>4, <4>5 DEF Accepted
      <4>7. \A x \in Accepted(t) : MailOf(t, x)'  BY <1>1, <2>1, MailStays DEF SessionMail
      <4> QED  BY <3>2, <4>1, <4>2, <4>4, <4>5, <4>6, <4>7 DEF SessionMail
    <3> QED  BY <3>1, <3>2
  <2>3. Birth(t)'
    <3>1. Known(t) => Known(t)'  BY <1>1, KnownStays
    <3> QED  BY <2>1, <3>1, RootIsSession DEF Birth
  <2> QED  BY <2>2, <2>3
<1> QED  BY <1>2 DEF AgentsOK

\* Only rows change; no mail comes.
LEMMA RowOnlyOK ==
  ASSUME AgentsOK, MindsOK', UNCHANGED <<folded, users>>,
         \A t \in Sessions : inbox'[t] = inbox[t],
         \A t \in Sessions : mind'[t].calls = mind[t].calls /\ mind'[t].work = mind[t].work,
         \A t \in Sessions :
           /\ row[t].status = "complete" <=> row'[t].status = "complete"
           /\ row'[t].status \in {"absent", "live", "failed", "complete"}
           /\ row'[t].status # "absent" => row[t].status # "absent" \/ t = Root
           /\ row[t].status # "absent" => row'[t].status # "absent"
           /\ t = Root => row'[t].kind = "agent"
  PROVE  AgentsOK'
<1>1. Onward  BY SameMinds DEF AgentsOK
<1>2. ASSUME NEW t \in Sessions  PROVE SessionMail(t)' /\ Birth(t)'
  <2>1. SessionMail(t) /\ Birth(t)  BY DEF AgentsOK
  <2>2. \A x \in Accepted(t) : MailOf(t, x)'  BY <1>1, <2>1, MailStays DEF SessionMail
  <2>3. Accepted(t)' = Accepted(t)  BY DEF Accepted
  <2>4. SessionMail(t)'  BY <2>1, <2>2, <2>3 DEF SessionMail
  <2>5. Known(t) => Known(t)'  BY <1>1, KnownStays
  <2>6. Birth(t)'  BY <2>1, <2>5, RootIsSession DEF Birth
  <2> QED  BY <2>4, <2>6
<1> QED  BY <1>2 DEF AgentsOK

\* In the contract nothing happens when no status, mail or checkpoint changes.
LEMMA NothingHappens ==
  ASSUME UNCHANGED folded, \A t \in Sessions : inbox'[t] = inbox[t],
         \A t \in Sessions : row'[t].status = row[t].status
  PROVE  UNCHANGED Contract!vars
BY DEF Contract!vars

\* Mail comes in, or a session is given up.
LEMMA MailComesIn ==
  ASSUME UNCHANGED folded,
         \A t \in Sessions :
           /\ row'[t].status = row[t].status \/ (row[t].status = "live" /\ row'[t].status = "failed")
           /\ \/ ToSet(inbox'[t]) = ToSet(inbox[t])
              \/ /\ row[t].status \in {"live", "failed"}
                 /\ \E e : ToSet(inbox'[t]) = ToSet(inbox[t]) \cup {e} /\ e \notin folded[t]
  PROVE  Contract!Next
<1>1. ASSUME NEW t \in Sessions
      PROVE  /\ ToSet(inbox[t]) \subseteq ToSet(inbox'[t])
             /\ ToSet(inbox'[t]) # ToSet(inbox[t]) =>
                  /\ row[t].status \in {"live", "failed"}
                  /\ (ToSet(inbox'[t]) \ ToSet(inbox[t])) \cap folded[t] = {}
  OBVIOUS
<1>2. Contract!Intake  BY <1>1 DEF Contract!Intake, Contract!Receives
<1> QED  BY <1>2 DEF Contract!Next

LEMMA EnsureAgents ==
  ASSUME AgentsOK, MindsOK', Ensure
  PROVE  AgentsOK' /\ [Contract!Next]_(Contract!vars)
<1>1. PICK r : r = NewRow("agent")  OBVIOUS
<1>2. r.status = "live" /\ r.kind = "agent"  BY <1>1 DEF NewRow, NoRow
<1>3. row' = [row EXCEPT ![Root] = r] /\ row[Root].status = "absent"
  BY <1>1 DEF Ensure
<1>4. \A t \in Sessions : row'[t] = IF t = Root THEN r ELSE row[t]
  BY <1>3 DEF AgentsOK, MindsOK
<1>5. UNCHANGED <<inbox, folded, mind, users>>  BY DEF Ensure
<1>6. AgentsOK'
  <2>1. ASSUME NEW t \in Sessions
        PROVE  /\ row[t].status = "complete" <=> row'[t].status = "complete"
               /\ row'[t].status \in {"absent", "live", "failed", "complete"}
               /\ row'[t].status # "absent" => row[t].status # "absent" \/ t = Root
               /\ row[t].status # "absent" => row'[t].status # "absent"
               /\ t = Root => row'[t].kind = "agent"
    <3>1. Birth(t)  BY DEF AgentsOK
    <3> QED  BY <1>2, <1>3, <1>4, <3>1 DEF Birth
  <2> QED  BY <1>5, <2>1, RowOnlyOK
<1>7. Contract!Open(Root)
  <2>1. \A t \in Sessions :
          (IF row'[t].status = "live" THEN "open" ELSE row'[t].status)
            = IF t = Root THEN "open" ELSE IF row[t].status = "live" THEN "open" ELSE row[t].status
    BY <1>2, <1>4
  <2>2. (IF row[Root].status = "live" THEN "open" ELSE row[Root].status) = "absent"  BY <1>3
  <2> QED  BY <1>5, <2>1, <2>2, RootIsSession DEF Contract!Open
<1>8. Contract!Next  BY <1>7, RootIsSession DEF Contract!Next
<1> QED  BY <1>6, <1>8

\* One mail is new to s.
LEMMA ArrivalAgents ==
  ASSUME AgentsOK, MindsOK', NEW s \in Sessions, NEW e, e \notin Accepted(s),
         row[s].status \in {"live", "failed"}, MailOf(s, e)',
         \A t \in Sessions : inbox'[t] = IF t = s THEN Append(inbox[t], e) ELSE inbox[t],
         \A t \in Sessions : row'[t].status = row[t].status /\ row'[t].kind = row[t].kind,
         users' \in Nat, users <= users', UNCHANGED <<folded, mind>>
  PROVE  AgentsOK' /\ [Contract!Next]_(Contract!vars)
<1>1. AgentsOK'  BY ArrivalOK
<1>2. ASSUME NEW t \in Sessions
      PROVE  \/ ToSet(inbox'[t]) = ToSet(inbox[t])
             \/ /\ row[t].status \in {"live", "failed"}
                /\ \E x : ToSet(inbox'[t]) = ToSet(inbox[t]) \cup {x} /\ x \notin folded[t]
  <2>1. CASE t # s  BY <2>1
  <2>2. CASE t = s
    <3>1. IsList(inbox[t])  BY DEF AgentsOK, MindsOK, SessionOK
    <3>2. ToSet(Append(inbox[t], e)) = ToSet(inbox[t]) \cup {e}  BY <3>1, OneMore
    <3>3. e \notin folded[t]  BY <2>2 DEF Accepted
    <3> QED  BY <2>2, <3>2, <3>3
  <2> QED  BY <2>1, <2>2
<1>3. Contract!Next  BY <1>2, MailComesIn
<1> QED  BY <1>1, <1>3

LEMMA UserAgents ==
  ASSUME AgentsOK, MindsOK', UserWrites
  PROVE  AgentsOK' /\ [Contract!Next]_(Contract!vars)
<1>1. users \in Nat /\ users' = users + 1  BY DEF AgentsOK, UserWrites
<1>2. PICK e : e = User(users + 1)  OBVIOUS
<1>3. e.kind = "user" /\ e.key = users + 1  BY <1>2 DEF User, Event
<1>4. e \notin Accepted(Root)
  <2>1. SUFFICES ASSUME e \in Accepted(Root) PROVE FALSE  OBVIOUS
  <2>2. MailOf(Root, e)  BY <2>1, RootIsSession DEF AgentsOK, SessionMail
  <2> QED  BY <1>1, <1>3, <2>2 DEF MailOf
<1>5. MailOf(Root, e)'
  <2>1. e.key \in 1..users'  BY <1>1, <1>3
  <2>2. e.kind \notin CallMail /\ e.kind # "request" /\ e.kind # "result"  BY <1>3 DEF CallMail
  <2> QED  BY <2>1, <2>2 DEF MailOf
<1>6. inbox' = [inbox EXCEPT ![Root] = Append(@, e)]  BY <1>2, <1>1 DEF UserWrites
<1>7. \A t \in Sessions : inbox'[t] = IF t = Root THEN Append(inbox[t], e) ELSE inbox[t]
  BY <1>6 DEF AgentsOK, MindsOK
<1>8. /\ row[Root].status \in {"live", "failed"} /\ UNCHANGED <<row, folded, mind>>
      /\ users' \in Nat /\ users <= users'
  BY <1>1 DEF UserWrites
<1> QED  BY <1>4, <1>5, <1>7, <1>8, RootIsSession, ArrivalAgents

LEMMA NoticeAgents ==
  ASSUME AgentsOK, MindsOK', NEW s \in Sessions, NotifyFailure(s)
  PROVE  AgentsOK' /\ [Contract!Next]_(Contract!vars)
<1>1. PICK e : e = Notice(s)  OBVIOUS
<1>2. e.kind = "notice"  BY <1>1 DEF Notice, Event
<1>3. MailOf(Root, e)'  BY <1>2 DEF MailOf, CallMail
<1>4. /\ e \notin Accepted(Root) /\ inbox' = [inbox EXCEPT ![Root] = Append(@, e)]
      /\ UNCHANGED <<row, folded, mind, users>>
  BY <1>1 DEF NotifyFailure
<1>5. \A t \in Sessions : inbox'[t] = IF t = Root THEN Append(inbox[t], e) ELSE inbox[t]
  BY <1>4 DEF AgentsOK, MindsOK
<1>6. row[Root].status \in {"live", "failed"}
  <2>1. Birth(s) /\ Birth(Root)  BY RootIsSession DEF AgentsOK
  <2>2. row[s].status # "absent"  BY DEF NotifyFailure
  <2> QED  BY <2>1, <2>2 DEF Birth
<1>7. users \in Nat  BY DEF AgentsOK
<1> QED  BY <1>3, <1>4, <1>5, <1>6, <1>7, RootIsSession, ArrivalAgents

LEMMA ClaimAgents ==
  ASSUME AgentsOK, MindsOK', NEW s \in Sessions, Claim(s)
  PROVE  AgentsOK' /\ [Contract!Next]_(Contract!vars)
<1>1. UNCHANGED <<folded, mind, faults, users>> /\ users \in Nat  BY DEF Claim, AgentsOK
<1>2. \A t \in Sessions : row'[t].status = row[t].status /\ row'[t].kind = row[t].kind
  <2>1. PICK n, more : row' = [row EXCEPT ![s].held = TRUE, ![s].attempts = @ + 1,
                                          ![s].batch = n, ![s].more = more]
    BY DEF Claim
  <2>2. DOMAIN row = Sessions /\ \A t \in Sessions : DOMAIN row[t] = RowFields
    BY DEF AgentsOK, MindsOK, SessionOK
  <2>3. PICK r : r = [row[s] EXCEPT !.held = TRUE, !.attempts = @ + 1, !.batch = n, !.more = more]
    OBVIOUS
  <2>4. r.status = row[s].status /\ r.kind = row[s].kind  BY <2>2, <2>3 DEF RowFields
  <2>5. row' = [row EXCEPT ![s] = r]  BY <2>1, <2>3
  <2> QED  BY <2>2, <2>4, <2>5
<1>3. PICK e : e = Timer(row[s].revision)  OBVIOUS
<1>4. e.kind = "timer"  BY <1>3 DEF Timer, Event
<1>5. row[s].status = "live"  BY DEF Claim, Ready, Live
<1>6. CASE DeadlineDue(s) /\ e \notin Accepted(s)
  <2>1. inbox' = [inbox EXCEPT ![s] = Append(inbox[s], e)]  BY <1>3, <1>6 DEF Claim
  <2>2. \A t \in Sessions : inbox'[t] = IF t = s THEN Append(inbox[t], e) ELSE inbox[t]
    BY <2>1 DEF AgentsOK, MindsOK
  <2>3. MailOf(s, e)'  BY <1>4 DEF MailOf, CallMail
  <2> QED  BY <1>1, <1>2, <1>5, <1>6, <2>2, <2>3, ArrivalAgents
<1>7. CASE ~(DeadlineDue(s) /\ e \notin Accepted(s))
  <2>1. inbox' = [inbox EXCEPT ![s] = inbox[s]]  BY <1>3, <1>7 DEF Claim
  <2>2. \A t \in Sessions : inbox'[t] = inbox[t]  BY <2>1 DEF AgentsOK, MindsOK
  <2>3. \A t \in Sessions : Birth(t)  BY DEF AgentsOK
  <2>4. AgentsOK'  BY <1>1, <1>2, <2>2, <2>3, RowOnlyOK DEF Birth
  <2>5. UNCHANGED Contract!vars  BY <1>1, <1>2, <2>2, NothingHappens
  <2> QED  BY <2>4, <2>5
<1> QED  BY <1>6, <1>7

LEMMA OtherAgents ==
  ASSUME AgentsOK, MindsOK', NEW s \in Sessions, GiveUp(s) \/ Fails(s) \/ Retry(s)
  PROVE  AgentsOK' /\ [Contract!Next]_(Contract!vars)
<1>1. DOMAIN row = Sessions /\ DOMAIN row[s] = RowFields  BY DEF AgentsOK, MindsOK, SessionOK
<1>2. UNCHANGED <<inbox, folded, mind, users>>  BY DEF GiveUp, Fails, Retry
<1>3. PICK r : /\ row' = [row EXCEPT ![s] = r] /\ r.kind = row[s].kind
               /\ \/ row[s].status = "live" /\ r.status = "failed"
                  \/ r.status = row[s].status
                  \/ row[s].status = "failed" /\ r.status = "live"
  <2>1. CASE GiveUp(s)
    <3>1. PICK r : r = [row[s] EXCEPT !.status = "failed"]  OBVIOUS
    <3>2. row' = [row EXCEPT ![s] = r] /\ row[s].status = "live"
      BY <2>1, <3>1 DEF GiveUp, Ready, Live
    <3>3. r.kind = row[s].kind /\ r.status = "failed"  BY <1>1, <3>1 DEF RowFields
    <3> QED  BY <3>2, <3>3
  <2>2. CASE Fails(s)
    <3>1. PICK r : r = Unheld(row[s])  OBVIOUS
    <3>2. row' = [row EXCEPT ![s] = r]  BY <2>2, <3>1 DEF Fails
    <3>3. r.kind = row[s].kind /\ r.status = row[s].status  BY <1>1, <3>1 DEF RowFields, Unheld
    <3> QED  BY <3>2, <3>3
  <2>3. CASE Retry(s)
    <3>1. PICK r : r = [row[s] EXCEPT !.status = "live", !.attempts = 0]  OBVIOUS
    <3>2. row' = [row EXCEPT ![s] = r] /\ row[s].status = "failed"  BY <2>3, <3>1 DEF Retry
    <3>3. r.kind = row[s].kind /\ r.status = "live"  BY <1>1, <3>1 DEF RowFields
    <3> QED  BY <3>2, <3>3
  <2> QED  BY <2>1, <2>2, <2>3
<1>4. \A t \in Sessions : row'[t] = IF t = s THEN r ELSE row[t]  BY <1>1, <1>3
<1>5. \A t \in Sessions : Birth(t)  BY DEF AgentsOK
<1>6. AgentsOK'
  <2>1. ASSUME NEW t \in Sessions
        PROVE  /\ row[t].status = "complete" <=> row'[t].status = "complete"
               /\ row'[t].status \in {"absent", "live", "failed", "complete"}
               /\ row'[t].status # "absent" => row[t].status # "absent" \/ t = Root
               /\ row[t].status # "absent" => row'[t].status # "absent"
               /\ t = Root => row'[t].kind = "agent"
    BY <1>3, <1>4, <1>5 DEF Birth
  <2> QED  BY <1>2, <2>1, RowOnlyOK
<1>7. CASE r.status = row[s].status
  <2>1. \A t \in Sessions : row'[t].status = row[t].status  BY <1>4, <1>7
  <2>2. UNCHANGED Contract!vars  BY <1>2, <2>1, NothingHappens
  <2> QED  BY <1>6, <2>2
<1>8. CASE row[s].status = "live" /\ r.status = "failed"
  <2>1. \A t \in Sessions :
          row'[t].status = row[t].status \/ (row[t].status = "live" /\ row'[t].status = "failed")
    BY <1>4, <1>8
  <2>2. Contract!Next  BY <1>2, <2>1, MailComesIn
  <2> QED  BY <1>6, <2>2
<1>9. CASE row[s].status = "failed" /\ r.status = "live"
  <2>1. Contract!Revive(s)  BY <1>2, <1>4, <1>9 DEF Contract!Revive
  <2>2. Contract!Next  BY <2>1 DEF Contract!Next
  <2> QED  BY <1>6, <2>2
<1> QED  BY <1>3, <1>7, <1>8, <1>9

LEMMA ElapseAgents ==
  ASSUME AgentsOK, MindsOK', NEW s \in Sessions, Elapse(s)
  PROVE  AgentsOK' /\ [Contract!Next]_(Contract!vars)
<1>1. PICK c : mind' = [mind EXCEPT ![s].panel[c].until = "passed"]  BY DEF Elapse
<1>2. UNCHANGED <<row, inbox, folded, users>>  BY DEF Elapse
<1>3. PICK n : n = [mind[s] EXCEPT !.panel[c].until = "passed"]  OBVIOUS
<1>4. DOMAIN mind = Sessions /\ DOMAIN mind[s] = Fields
  BY DEF AgentsOK, MindsOK, SessionOK, MindOK
<1>5. n.calls = mind[s].calls /\ n.work = mind[s].work  BY <1>3, <1>4 DEF Fields
<1>6. mind' = [mind EXCEPT ![s] = n]  BY <1>1, <1>3
<1>7. \A t \in Sessions : mind'[t].calls = mind[t].calls /\ mind'[t].work = mind[t].work
  BY <1>4, <1>5, <1>6
<1>8. \A t \in Sessions : Birth(t)  BY DEF AgentsOK
<1>9. AgentsOK'  BY <1>2, <1>7, <1>8, RowOnlyOK DEF Birth
<1>10. UNCHANGED Contract!vars  BY <1>2, NothingHappens
<1> QED  BY <1>9, <1>10

SentTo(p, t) == \E i \in 1..Len(p.send) : p.send[i][1] = t

\* What a handler sends is new to whom it is sent to: its calls are new, and
\* s has no result yet.
LEMMA SentIsNew ==
  ASSUME AgentsOK, NEW s \in Sessions, row[s].status = "live", NEW p, IsList(p.send),
         Proposed(s, mind[s].calls, p), NEW t \in Sessions, NEW e \in ToSet(MailFor(t, p))
  PROVE  /\ t # s /\ e \notin Accepted(t) /\ SentTo(p, t)
         /\ \/ /\ e.kind \in CallMail /\ Made(s, mind[s].calls, p.mind.calls, e.key)
               /\ e.kind = "request" => t # Root
            \/ p.complete = TRUE /\ e.kind = "result" /\ e.key = s
<1>1. PICK a : a = mind[s].calls  OBVIOUS
<1>2. a \in Nat  BY <1>1 DEF AgentsOK, MindsOK, SessionOK, MindOK
<1>3. \A x \in Accepted(t) : MailOf(t, x)  BY DEF AgentsOK, SessionMail
<1>4. CASE Open(s, a, p)
  <2>1. PICK i \in 1..Len(p.send) : p.send[i][1] = t /\ p.send[i][2] = e
    BY <1>4, MailForIsSent DEF Open
  <2>2. CallSent(s, a, p.mind.calls, p.send[i])  BY <1>4 DEF Open
  <2>3. t # s /\ e.kind \in CallMail /\ Made(s, a, p.mind.calls, e.key)
        /\ (e.kind = "request" => t # Root)
    BY <2>1, <2>2 DEF CallSent
  <2>4. e \notin Accepted(t)
    <3>1. SUFFICES ASSUME e \in Accepted(t) PROVE FALSE  OBVIOUS
    <3>2. Known(e.key)  BY <1>3, <2>3, <3>1 DEF MailOf
    <3>3. PICK u \in Sessions : \E k \in 1..mind[u].calls : e.key = Append(u, k)  BY <3>2 DEF Known
    <3>4. PICK k \in 1..mind[u].calls : e.key = Append(u, k)  BY <3>3
    <3>5. PICK l \in (a + 1)..p.mind.calls : e.key = Append(s, l)  BY <2>3 DEF Made
    <3>6. mind[u].calls \in Nat /\ p.mind.calls \in Nat
      BY <1>4 DEF AgentsOK, MindsOK, SessionOK, MindOK, Open
    <3>7. k \in Nat /\ l \in Nat /\ k <= mind[u].calls /\ a < l  BY <1>2, <3>6
    <3>8. u = s /\ k = l  BY <3>4, <3>5, <3>7, CallsAreNamed
    <3> QED  BY <1>1, <1>2, <3>7, <3>8
  <2>5. SentTo(p, t)  BY <2>1 DEF SentTo
  <2> QED  BY <1>1, <2>3, <2>4, <2>5
<1>5. CASE Ended(s, a, p)
  <2>1. PICK status : p.send = << <<Parent(s), Event("result", s, s, status)>> >>
    BY <1>5 DEF Ended
  <2>2. PICK item : item = <<Parent(s), Event("result", s, s, status)>>  OBVIOUS
  <2>3. item[1] = Parent(s) /\ item[2] = Event("result", s, s, status)  BY <2>2
  <2>4. p.send = <<item>>  BY <2>1, <2>2
  <2>5. Len(p.send) = 1 /\ p.send[1] = item  BY <2>4
  <2>6. \A i \in 1..Len(p.send) : i = 1  BY <2>5
  <2>7. PICK i \in 1..Len(p.send) : p.send[i][1] = t /\ p.send[i][2] = e
    BY <2>6, MailForIsSent
  <2>8. t = Parent(s) /\ e = Event("result", s, s, status)  BY <2>3, <2>5, <2>6, <2>7
  <2>9. e.kind = "result" /\ e.key = s  BY <2>8 DEF Event
  <2>10. t # s  BY <1>5, <2>8, ParentIsOther DEF Ended
  <2>11. e \notin Accepted(t)  BY <1>3, <2>9 DEF MailOf
  <2>12. p.complete = TRUE  BY <1>5 DEF Ended
  <2>13. SentTo(p, t)  BY <2>7 DEF SentTo
  <2> QED  BY <2>9, <2>10, <2>11, <2>12, <2>13
<1> QED  BY <1>1, <1>4, <1>5 DEF Proposed

\* Sessions are born of new calls, and were not there.
LEMMA BornIsNew ==
  ASSUME AgentsOK, NEW s \in Sessions, NEW p, Proposed(s, mind[s].calls, p),
         NEW t \in Sessions, t \in Born(p)
  PROVE  /\ t # s /\ t # Root /\ row[t].status = "absent"
         /\ Made(s, mind[s].calls, p.mind.calls, t) /\ p.complete = FALSE
<1>1. PICK a : a = mind[s].calls  OBVIOUS
<1>2. a \in Nat  BY <1>1 DEF AgentsOK, MindsOK, SessionOK, MindOK
<1>3. PICK child \in p.spawn : t = child[1]  BY DEF Born
<1>4. Open(s, a, p)  BY <1>1, <1>3 DEF Proposed, Ended
<1>5. p.mind.calls \in Nat /\ p.complete = FALSE /\ Made(s, a, p.mind.calls, t)
  BY <1>3, <1>4 DEF Open
<1>6. PICK l \in (a + 1)..p.mind.calls : t = Append(s, l)  BY <1>5 DEF Made
<1>7. l \in Nat /\ a < l  BY <1>2, <1>5
<1>8. t # s /\ t # Root  BY <1>6, <1>7, CallIsOther
<1>9. ~Known(t)
  <2>1. SUFFICES ASSUME Known(t) PROVE FALSE  OBVIOUS
  <2>2. PICK u \in Sessions : \E k \in 1..mind[u].calls : t = Append(u, k)  BY <2>1 DEF Known
  <2>3. PICK k \in 1..mind[u].calls : t = Append(u, k)  BY <2>2
  <2>4. mind[u].calls \in Nat  BY DEF AgentsOK, MindsOK, SessionOK, MindOK
  <2>5. k \in Nat /\ k <= mind[u].calls  BY <2>4
  <2>6. Append(u, k) = Append(s, l) /\ k \in Nat /\ l \in Nat  BY <1>6, <1>7, <2>3, <2>5
  <2>7. u = s /\ k = l  BY <2>6, CallsAreNamed
  <2> QED  BY <1>1, <1>2, <1>7, <2>5, <2>7
<1> QED  BY <1>1, <1>5, <1>8, <1>9 DEF AgentsOK, Birth

\* What a commit leaves of each session.
LEMMA CommitLeaves ==
  ASSUME AgentsOK, NEW s \in Sessions, NEW p, Proposed(s, mind[s].calls, p), Commit(s, p)
  PROVE  /\ row'[s].status = IF p.complete THEN "complete" ELSE "live"
         /\ row'[s].kind = row[s].kind
         /\ \A t \in Sessions : t # s =>
              IF t \in Born(p) THEN row'[t].status = "live" ELSE row'[t] = row[t]
         /\ \A t \in Sessions : folded'[t] = IF t = s THEN folded[s] \cup ToSet(Delivered(s)) ELSE folded[t]
         /\ \A t \in Sessions : t # s => mind'[t] = mind[t]
         /\ mind'[s].calls = p.mind.calls /\ mind'[s].work = p.mind.work
         /\ DOMAIN folded' = Sessions /\ users' = users
<1>1. DOMAIN row[s] = RowFields  BY DEF AgentsOK, MindsOK, SessionOK
<1>2. PICK u : u = Unheld(row[s])  OBVIOUS
<1>3. DOMAIN u = RowFields /\ u.kind = row[s].kind  BY <1>1, <1>2 DEF Unheld, RowFields
<1>4. PICK v : v = [u EXCEPT !.status = IF p.complete THEN "complete" ELSE "live",
                             !.wake = p.wake, !.revision = @ + 1, !.attempts = 0]
  OBVIOUS
<1>5. v.status = (IF p.complete THEN "complete" ELSE "live") /\ v.kind = u.kind
  BY <1>3, <1>4 DEF RowFields
<1>6. row'[s] = v  BY <1>2, <1>4 DEF Commit
<1>7. \A t \in Sessions : t # s =>
        IF t \in Born(p) THEN \E kind : row'[t] = NewRow(kind) ELSE row'[t] = row[t]
  BY DEF Commit
<1>8. \A kind : NewRow(kind).status = "live"  BY DEF NewRow, NoRow
<1>9. folded' = [folded EXCEPT ![s] = @ \cup ToSet(Delivered(s))] /\ DOMAIN folded = Sessions
  BY DEF Commit, AgentsOK
<1>10. PICK m : m = p.mind  OBVIOUS
<1>11. mind' = [mind EXCEPT ![s] = Table(m)] /\ DOMAIN mind = Sessions
  BY <1>10 DEF Commit, AgentsOK, MindsOK
<1>12. PICK n : n = Table(m)  OBVIOUS
<1>13. n.calls = m.calls /\ n.work = m.work
  BY <1>12 DEF Table
<1>14. \A t \in Sessions : t # s => mind'[t] = mind[t]  BY <1>11
<1>15. mind'[s] = n  BY <1>11, <1>12
<1> QED  BY <1>3, <1>5, <1>6, <1>7, <1>8, <1>9, <1>10, <1>13, <1>14, <1>15 DEF Commit

\* A session completes over no unread mail, and mail goes where it is accepted.
LEMMA CommitAgents ==
  ASSUME AgentsOK, MindsOK', NEW s \in Sessions, row[s].status = "live",
         NEW p, IsList(p.send), Proposed(s, mind[s].calls, p), ~Refused(s, p), Commit(s, p)
  PROVE  AgentsOK' /\ Contract!Next
<1>1. PICK a, b : a = mind[s].calls /\ b = p.mind.calls  OBVIOUS
<1>2. a \in Nat /\ b \in Nat /\ a <= b
  <2>1. a \in Nat  BY <1>1 DEF AgentsOK, MindsOK, SessionOK, MindOK
  <2>2. CASE Open(s, a, p)  BY <1>1, <2>1, <2>2 DEF Open
  <2>3. CASE Ended(s, a, p)  BY <1>1, <2>1, <2>3 DEF Ended
  <2> QED  BY <1>1, <2>2, <2>3 DEF Proposed
<1>3. /\ row'[s].status = IF p.complete THEN "complete" ELSE "live"
      /\ row'[s].kind = row[s].kind
      /\ \A t \in Sessions : t # s =>
           IF t \in Born(p) THEN row'[t].status = "live" ELSE row'[t] = row[t]
      /\ \A t \in Sessions : folded'[t] = IF t = s THEN folded[s] \cup ToSet(Delivered(s)) ELSE folded[t]
      /\ \A t \in Sessions : t # s => mind'[t] = mind[t]
      /\ mind'[s].calls = p.mind.calls /\ mind'[s].work = p.mind.work
      /\ DOMAIN folded' = Sessions /\ users' = users
  BY CommitLeaves
<1>4. p.complete \in BOOLEAN /\ (s = Root => p.complete = FALSE /\ p.mind.work = "none")
  BY <1>1 DEF Proposed, Open, Ended
<1>5. \A t \in Sessions : SessionMail(t) /\ Birth(t) /\ IsList(inbox[t])
  BY DEF AgentsOK, MindsOK, SessionOK
<1>6. Onward
  <2>1. \A u \in Sessions : mind[u].calls \in Nat  BY DEF AgentsOK, MindsOK, SessionOK, MindOK
  <2>2. \A u \in Sessions : row[u].status = "complete" => row'[u].status = "complete"
    <3>1. \A u \in Sessions : u \in Born(p) => row[u].status = "absent"  BY BornIsNew
    <3> QED  BY <1>3, <3>1
  <2> QED  BY <1>1, <1>2, <1>3, <2>1, <2>2 DEF Onward, AgentsOK
<1>7. \A c : Made(s, a, b, c) => Known(c)'
  <2>1. SUFFICES ASSUME NEW k \in (a + 1)..b PROVE Known(Append(s, k))'  BY DEF Made
  <2>2. k \in 1..mind'[s].calls  BY <1>1, <1>2, <1>3
  <2> QED  BY <2>2 DEF Known
<1>8. \A t \in Sessions : \A e \in ToSet(MailFor(t, p)) :
        /\ t # s /\ e \notin Accepted(t) /\ MailOf(t, e)'
        /\ row[t].status \in {"live", "failed"} \/ (row[t].status = "absent" /\ t \in Born(p))
  <2>1. SUFFICES ASSUME NEW t \in Sessions, NEW e \in ToSet(MailFor(t, p))
                 PROVE  /\ t # s /\ e \notin Accepted(t) /\ MailOf(t, e)'
                        /\ \/ row[t].status \in {"live", "failed"}
                           \/ row[t].status = "absent" /\ t \in Born(p)
    OBVIOUS
  <2>2. /\ t # s /\ e \notin Accepted(t) /\ SentTo(p, t)
        /\ \/ e.kind \in CallMail /\ Made(s, a, b, e.key) /\ (e.kind = "request" => t # Root)
           \/ p.complete = TRUE /\ e.kind = "result" /\ e.key = s
    <3>1. t # s /\ e \notin Accepted(t) /\ SentTo(p, t)  BY SentIsNew
    <3>2. \/ /\ e.kind \in CallMail /\ Made(s, mind[s].calls, p.mind.calls, e.key)
             /\ e.kind = "request" => t # Root
          \/ p.complete = TRUE /\ e.kind = "result" /\ e.key = s
      BY SentIsNew
    <3> QED  BY <1>1, <3>1, <3>2
  <2>3. MailOf(t, e)'
    <3>1. CASE e.kind \in CallMail /\ Made(s, a, b, e.key) /\ (e.kind = "request" => t # Root)
      BY <1>7, <3>1 DEF MailOf, CallMail
    <3>2. CASE p.complete = TRUE /\ e.kind = "result" /\ e.key = s
      <4>1. row'[s].status = "complete"  BY <1>3, <3>2
      <4> QED  BY <3>2, <4>1 DEF MailOf, CallMail
    <3> QED  BY <2>2, <3>1, <3>2
  <2>4. row[t].status # "complete" /\ (row[t].status = "absent" => t \in Born(p))
    <3>1. PICK i \in 1..Len(p.send) : p.send[i][1] = t  BY <2>2 DEF SentTo
    <3>2. i \in DOMAIN p.send  BY <3>1 DEF IsList
    <3> QED  BY <3>1, <3>2 DEF Refused
  <2> QED  BY <1>5, <2>2, <2>3, <2>4 DEF Birth
<1>9. \A t \in Sessions : IsList(MailFor(t, p)) /\ Distinct(MailFor(t, p))
  <2>1. CASE Open(s, a, p)  BY <2>1, MailForIsSent DEF Open
  <2>2. CASE Ended(s, a, p)
    <3>1. PICK item : p.send = <<item>>  BY <2>2 DEF Ended
    <3>2. Len(p.send) = 1  BY <3>1
    <3>3. \A i, j \in 1..Len(p.send) : i = j  BY <3>2
    <3> QED  BY <3>3, MailForIsSent
  <2> QED  BY <1>1, <2>1, <2>2 DEF Proposed
<1>10. PICK q, n, d, rest : /\ q = inbox[s] /\ n = row[s].batch /\ d = Delivered(s)
                            /\ rest = SubSeq(q, n + 1, Len(q))
  OBVIOUS
<1>11. Cut(q, n, d, rest)
  <2>1. IsList(q) /\ n \in 0..Len(q)  BY <1>10 DEF AgentsOK, MindsOK, SessionOK
  <2>2. d = SubSeq(q, 1, n)  BY <1>10 DEF Delivered
  <2> QED  BY <1>10, <2>1, <2>2, MailIsCut
<1>12. Distinct(q) /\ ToSet(q) \cap folded[s] = {}  BY <1>5, <1>10 DEF SessionMail
<1>13. /\ Distinct(rest)
       /\ ToSet(q) = ToSet(d) \cup ToSet(rest) /\ ToSet(d) \cap ToSet(rest) = {}
       /\ ~(Len(q) > n) => rest = <<>>
  BY <1>11, <1>12, SplitMail
<1>14. IsList(rest)  BY <1>11 DEF Cut
<1>15. inbox'[s] = rest
  <2>1. ToSet(MailFor(s, p)) = {}  BY <1>8
  <2>2. MailFor(s, p) = <<>>  BY <1>9, <2>1, NoMembers
  <2>3. inbox'[s] = rest \o MailFor(s, p)  BY <1>10 DEF Commit
  <2>4. PICK T : rest \in Seq(T)  BY <1>14 DEF IsList
  <2> QED  BY <2>2, <2>3, <2>4
<1>16. \A t \in Sessions : t # s => inbox'[t] = inbox[t] \o MailFor(t, p)  BY DEF Commit
<1>17. \A t \in Sessions : t # s => ToSet(inbox'[t]) = ToSet(inbox[t]) \cup ToSet(MailFor(t, p))
  <2>1. TAKE t \in Sessions
  <2>2. ToSet(inbox[t] \o MailFor(t, p)) = ToSet(inbox[t]) \cup ToSet(MailFor(t, p))
    BY <1>5, <1>9, JoinMail
  <2> QED  BY <1>16, <2>2
<1>18. ASSUME NEW t \in Sessions  PROVE SessionMail(t)' /\ Birth(t)'
  <2>1. \A x \in Accepted(t) : MailOf(t, x)'  BY <1>5, <1>6, MailStays DEF SessionMail
  <2>2. Birth(t)'
    <3>1. row'[Root].status # "absent"
      <4>1. row[Root].status # "absent"  BY <1>5 DEF Birth
      <4>2. CASE Root = s  BY <1>3, <4>2
      <4>3. CASE Root # s  BY <1>3, <4>1, <4>3, RootIsSession
      <4> QED  BY <4>2, <4>3
    <3>2. CASE t = s
      <4>1. Known(t) => Known(t)'  BY <1>6, KnownStays
      <4> QED  BY <1>3, <1>4, <1>5, <3>1, <3>2, <4>1 DEF Birth
    <3>3. CASE t # s /\ t \in Born(p)
      <4>1. t # Root /\ Made(s, a, b, t)  BY <1>1, <3>3, BornIsNew
      <4> QED  BY <1>3, <1>7, <3>1, <3>3, <4>1 DEF Birth
    <3>4. CASE t # s /\ t \notin Born(p)
      <4>1. Known(t) => Known(t)'  BY <1>6, KnownStays
      <4>2. row'[t] = row[t] /\ mind'[t] = mind[t]  BY <1>3, <3>4
      <4> QED  BY <1>5, <3>1, <4>1, <4>2 DEF Birth
    <3> QED  BY <3>2, <3>3, <3>4
  <2>3. CASE t = s
    <3>1. inbox'[t] = rest /\ folded'[t] = folded[s] \cup ToSet(d)  BY <1>3, <1>10, <1>15, <2>3
    <3>2. Accepted(t)' = Accepted(t)  BY <1>10, <1>13, <2>3, <3>1 DEF Accepted
    <3>3. ToSet(rest) \cap (folded[s] \cup ToSet(d)) = {}  BY <1>12, <1>13
    <3>4. row'[t].status # "absent"  BY <1>3, <2>3
    <3>5. SessionMail(t)'  BY <1>13, <2>1, <3>1, <3>2, <3>3, <3>4 DEF SessionMail
    <3> QED  BY <2>2, <3>5
  <2>4. CASE t # s
    <3>1. PICK m : m = MailFor(t, p)  OBVIOUS
    <3>2. IsList(m) /\ Distinct(m) /\ \A e \in ToSet(m) : e \notin Accepted(t) /\ MailOf(t, e)'
      BY <1>8, <1>9, <3>1
    <3>3. inbox'[t] = inbox[t] \o m /\ folded'[t] = folded[t]  BY <1>3, <1>16, <2>4, <3>1
    <3>4. ToSet(inbox[t]) \cap ToSet(m) = {} /\ folded[t] \cap ToSet(m) = {}
      BY <3>2 DEF Accepted
    <3>5. ToSet(inbox'[t]) = ToSet(inbox[t]) \cup ToSet(m)  BY <1>17, <2>4, <3>1
    <3>6. Distinct(inbox[t] \o m)  BY <1>5, <3>2, <3>4, JoinMail DEF SessionMail
    <3>7. Accepted(t)' = Accepted(t) \cup ToSet(m)  BY <3>3, <3>5 DEF Accepted
    <3>8. ToSet(inbox'[t]) \cap folded'[t] = {}
      BY <1>5, <3>3, <3>4, <3>5 DEF SessionMail
    <3>9. row'[t].status = "absent" => inbox'[t] = <<>> /\ folded'[t] = {}
      <4>1. SUFFICES ASSUME row'[t].status = "absent" PROVE inbox'[t] = <<>> /\ folded'[t] = {}
        OBVIOUS
      <4>2. t \notin Born(p) /\ row[t].status = "absent"  BY <1>3, <2>4, <4>1
      <4>3. inbox[t] = <<>> /\ folded[t] = {}  BY <1>5, <4>2 DEF SessionMail
      <4>4. ToSet(m) = {}  BY <1>8, <3>1, <4>2
      <4>5. m = <<>>  BY <3>2, <4>4, NoMembers
      <4> QED  BY <3>3, <4>3, <4>5
    <3>10. \A x \in Accepted(t)' : MailOf(t, x)'  BY <2>1, <3>2, <3>7
    <3>11. Distinct(inbox'[t])  BY <3>3, <3>6
    <3>12. SessionMail(t)'  BY <3>8, <3>9, <3>10, <3>11 DEF SessionMail
    <3> QED  BY <2>2, <3>12
  <2> QED  BY <2>3, <2>4
<1>19. AgentsOK'  BY <1>3, <1>6, <1>18 DEF AgentsOK, Onward
<1>20. row'[s].status = "complete" => inbox'[s] = <<>>
  <2>1. SUFFICES ASSUME row'[s].status = "complete" PROVE inbox'[s] = <<>>  OBVIOUS
  <2>2. p.complete  BY <1>3, <1>4, <2>1
  <2>3. ~(Len(q) > n)  BY <1>10, <2>2 DEF Refused
  <2> QED  BY <1>13, <1>15, <2>3
<1>21. Contract!Step(s)
  <2>1. row'[s].status \in {"live", "complete"}  BY <1>3
  <2>2. ToSet(<<>>) = {}
    <3>1. <<>> \in Seq({}) /\ Len(<<>>) = 0  OBVIOUS
    <3>2. IsList(<<>>)  BY <3>1 DEF IsList
    <3> QED  BY <3>1, <3>2, MembersOf
  <2>3. row'[s].status = "complete" => ToSet(inbox'[s]) = {}  BY <1>20, <2>2
  <2>4. /\ folded[s] \subseteq folded'[s] /\ folded'[s] \ folded[s] \subseteq ToSet(inbox[s])
        /\ ToSet(inbox[s]) \ folded'[s] \subseteq ToSet(inbox'[s])
        /\ ToSet(inbox'[s]) \cap folded'[s] = {}
    BY <1>3, <1>10, <1>12, <1>13, <1>15
  <2>5. ASSUME NEW t \in Sessions, t # s
        PROVE  \/ row[t].status = "absent" /\ row'[t].status = "live" /\ folded'[t] = {}
               \/ /\ row'[t].status = row[t].status /\ folded'[t] = folded[t]
                  /\ ToSet(inbox[t]) \subseteq ToSet(inbox'[t])
                  /\ ToSet(inbox'[t]) # ToSet(inbox[t]) =>
                       /\ row[t].status \in {"live", "failed"}
                       /\ (ToSet(inbox'[t]) \ ToSet(inbox[t])) \cap folded[t] = {}
    <3>1. folded'[t] = folded[t]  BY <1>3, <2>5
    <3>2. CASE t \in Born(p)
      <4>1. row[t].status = "absent"  BY <3>2, BornIsNew
      <4>2. folded[t] = {}  BY <1>5, <4>1 DEF SessionMail
      <4>3. row'[t].status = "live"  BY <1>3, <2>5, <3>2
      <4> QED  BY <3>1, <4>1, <4>2, <4>3
    <3>3. CASE t \notin Born(p)
      <4>1. row'[t] = row[t]  BY <1>3, <2>5, <3>3
      <4>2. PICK M : M = ToSet(MailFor(t, p))  OBVIOUS
      <4>3. ToSet(inbox'[t]) = ToSet(inbox[t]) \cup M  BY <1>17, <2>5, <4>2
      <4>4. M # {} => row[t].status \in {"live", "failed"}  BY <1>8, <3>3, <4>2
      <4>5. M \cap folded[t] = {}  BY <1>8, <4>2 DEF Accepted
      <4> QED  BY <3>1, <4>1, <4>3, <4>4, <4>5
    <3> QED  BY <3>2, <3>3
  <2> QED  BY <2>1, <2>3, <2>4, <2>5 DEF Contract!Step, Contract!Born, Contract!Receives
<1>22. Contract!Next  BY <1>21 DEF Contract!Next
<1> QED  BY <1>19, <1>22

LEMMA StepAgents ==
  ASSUME AgentsOK, MindsOK', NEW s \in Sessions, Step(s)
  PROVE  AgentsOK' /\ [Contract!Next]_(Contract!vars)
<1>1. SessionOK(s, mind[s], inbox[s], row[s]) /\ SessionMail(s) /\ Birth(s) /\ row[s].status = "live"
  BY DEF AgentsOK, MindsOK, Step, Live
<1>2. PICK q, d, T : q = inbox[s] /\ d = Delivered(s) /\ T = ToSet(q)  OBVIOUS
<1>3. IsList(q) /\ row[s].batch \in 0..Len(q)  BY <1>1, <1>2 DEF SessionOK
<1>4. d \in Seq(T)
  <2>1. q \in Seq(T)
    <3>1. PICK U : q \in Seq(U)  BY <1>3 DEF IsList
    <3>2. \A i \in 1..Len(q) : q[i] \in T  BY <1>2, <1>3, MembersOf
    <3> QED  BY <3>1, <3>2
  <2> QED  BY <1>2, <1>3, <2>1, ListPart DEF Delivered
<1>5. s = Root => /\ mind[s].work = "none" /\ row[s].kind = "agent"
                  /\ \A e \in T : e.kind # "request"
  BY <1>1, <1>2 DEF Birth, SessionMail, Accepted, MailOf
<1>6. PICK p \in Handler(s, d, row[s].more) :
        IF p.raised \/ Refused(s, p)
          THEN row' = [row EXCEPT ![s] = Unheld(@)] /\ UNCHANGED <<inbox, folded, mind, faults, users>>
          ELSE Commit(s, p)
  BY <1>2 DEF Step
<1>7. MindOK(s, mind[s])  BY <1>1 DEF SessionOK
<1>8. Proposed(s, mind[s].calls, p)  BY <1>4, <1>5, <1>6, <1>7, HandlerProposes
<1>9. IsList(p.send)
  <2>1. Silent(s, mind[s], p)  BY <1>4, <1>6, <1>7, HandlerSilent
  <2> QED  BY <2>1 DEF Silent
<1>10. CASE ~(p.raised \/ Refused(s, p))
  <2>1. Commit(s, p) /\ ~Refused(s, p)  BY <1>6, <1>10
  <2> QED  BY <1>1, <1>8, <1>9, <2>1, CommitAgents
<1>11. CASE p.raised \/ Refused(s, p)
  <2>1. UNCHANGED <<inbox, folded, mind, users>>  BY <1>6, <1>11
  <2>2. PICK u : u = Unheld(row[s])  OBVIOUS
  <2>3. u.status = row[s].status /\ u.kind = row[s].kind
    BY <1>1, <2>2 DEF SessionOK, Unheld, RowFields
  <2>4. row' = [row EXCEPT ![s] = u]  BY <1>6, <1>11, <2>2
  <2>5. \A t \in Sessions : row'[t].status = row[t].status /\ row'[t].kind = row[t].kind
    BY <2>3, <2>4 DEF AgentsOK, MindsOK
  <2>6. \A t \in Sessions : Birth(t)  BY DEF AgentsOK
  <2>7. AgentsOK'  BY <2>1, <2>5, <2>6, RowOnlyOK DEF Birth
  <2>8. UNCHANGED Contract!vars  BY <2>1, <2>5, NothingHappens
  <2> QED  BY <2>7, <2>8
<1> QED  BY <1>10, <1>11

\* Every step keeps the invariant and is one the contract allows.
LEMMA NextAgents == AgentsOK /\ [Next]_vars => AgentsOK' /\ [Contract!Next]_(Contract!vars)
<1> SUFFICES ASSUME AgentsOK, [Next]_vars PROVE AgentsOK' /\ [Contract!Next]_(Contract!vars)
  OBVIOUS
<1>1. MindsOK'  BY NextMinds DEF AgentsOK
<1>2. CASE UNCHANGED vars
  <2>1. UNCHANGED <<row, inbox, folded, mind, users>>  BY <1>2 DEF vars
  <2>2. \A t \in Sessions : Birth(t)  BY DEF AgentsOK
  <2>3. AgentsOK'  BY <1>1, <2>1, <2>2, RowOnlyOK DEF Birth
  <2>4. UNCHANGED Contract!vars  BY <2>1, NothingHappens
  <2> QED  BY <2>3, <2>4
<1>3. CASE Ensure  BY <1>1, <1>3, EnsureAgents
<1>4. CASE UserWrites  BY <1>1, <1>4, UserAgents
<1>5. ASSUME NEW s \in Sessions,
             \/ Claim(s) \/ GiveUp(s) \/ Step(s) \/ Fails(s)
             \/ NotifyFailure(s) \/ Retry(s) \/ Elapse(s)
      PROVE  AgentsOK' /\ [Contract!Next]_(Contract!vars)
  BY <1>1, <1>5, ClaimAgents, OtherAgents, StepAgents, NoticeAgents, ElapseAgents
<1> QED  BY <1>2, <1>3, <1>4, <1>5 DEF Next

\* OnContract: whatever agents, tools, failures and operators do, what becomes
\* of the sessions' rows and mail is allowed by the storage contract
\* (src/entourage/session_backend.py): mail is accepted once, since a sender
\* names it by a call it has not made before, a session is born once, of a new
\* call, and one that completes leaves no mail unread.
THEOREM AgentsKeepContract == Spec => OnContract
<1>1. Init => AgentsOK  BY InitAgents
<1>2. AgentsOK /\ [Next]_vars => AgentsOK' /\ [Contract!Next]_(Contract!vars)  BY NextAgents
<1> QED  BY <1>1, <1>2, PTL DEF Spec, OnContract
=============================================================================
