-------------------------- MODULE RedisReadyQueueProofs --------------------------
(***************************************************************************)
(* The ready queue loses no payload but what a worker dies with in its     *)
(* hand, strands no list but one a worker dies pruning, and shares a       *)
(* receive fairly, for any workers, payloads, keys, backlog and batch and  *)
(* a death between any two commands.                                       *)
(***************************************************************************)
EXTENDS RedisReadyQueue, FiniteSetTheorems, SequenceTheorems, TLAPS

Moving == {"record", "requeue", "restore"}
Steps == {"idle", "claim", "work", "reclaim"} \cup Moving \cup Pruning

\* The types, and what a worker has at each step: a payload in its hand exactly
\* while it moves one, a key while it prunes, a message while it handles one.
TypeOK ==
  /\ active \subseteq Keys /\ sent \subseteq Payloads
  /\ list \in [Keys -> Seq(Payloads)]
  /\ flight \in [Payloads -> {"no", "fresh", "stale"}]
  /\ at \in [Workers -> Steps]
  /\ hand \in [Workers -> Payloads \cup {None}]
  /\ key \in [Workers -> Keys \cup {None}]
  /\ pass \in [Workers -> SUBSET Keys]
  /\ batch \in [Workers -> Seq(Payloads)]
  /\ scanned \in [Workers -> SUBSET Payloads]
WorkerOK(w) ==
  /\ hand[w] # None <=> at[w] \in Moving
  /\ at[w] \in Pruning => key[w] \in Keys
  /\ at[w] \in {"work", "requeue"} => batch[w] # <<>>
QueueOK == TypeOK /\ \A w \in Workers : WorkerOK(w)

\* NothingLost without what a receive has claimed and not handled: that is also
\* in flight.
Held(p) ==
  \/ p \in Elements(list[KeyOf[p]])
  \/ flight[p] # "no"
  \/ \E w \in Workers : hand[w] = p
AllHeld == \A p \in sent \ (done \cup dropped) : Held(p)
-----------------------------------------------------------------------------
(* Sequences.                                                              *)

LEMMA AppendFacts ==
  ASSUME NEW T, NEW s \in Seq(T), NEW e \in T
  PROVE  /\ Append(s, e) \in Seq(T) /\ Append(s, e) # <<>>
         /\ Elements(Append(s, e)) = Elements(s) \cup {e}
<1>1. /\ Append(s, e) \in Seq(T) /\ Len(Append(s, e)) = Len(s) + 1
      /\ \A i \in 1..Len(s) : Append(s, e)[i] = s[i]
      /\ Append(s, e)[Len(s) + 1] = e
  OBVIOUS
<1>2. DOMAIN s = 1..Len(s) /\ DOMAIN Append(s, e) = 1..(Len(s) + 1) /\ Len(s) \in Nat
  BY <1>1
<1>3. Elements(Append(s, e)) = Elements(s) \cup {e}
  BY <1>1, <1>2 DEF Elements
<1> QED  BY <1>1, <1>3

LEMMA FrontFacts ==
  ASSUME NEW T, NEW s \in Seq(T), NEW e \in T
  PROVE  /\ <<e>> \o s \in Seq(T)
         /\ Elements(<<e>> \o s) = Elements(s) \cup {e}
<1>1. /\ <<e>> \o s \in Seq(T) /\ Len(<<e>> \o s) = Len(s) + 1
      /\ \A i \in 1..Len(s) : (<<e>> \o s)[i + 1] = s[i]
      /\ (<<e>> \o s)[1] = e
  OBVIOUS
<1>2. DOMAIN s = 1..Len(s) /\ DOMAIN (<<e>> \o s) = 1..(Len(s) + 1) /\ Len(s) \in Nat
  BY <1>1
<1>3. ASSUME NEW i \in 1..(Len(s) + 1)
      PROVE  (<<e>> \o s)[i] \in Elements(s) \cup {e}
  <2>1. CASE i = 1  BY <1>1, <2>1
  <2>2. CASE i # 1
    <3>1. i - 1 \in 1..Len(s) /\ (i - 1) + 1 = i  BY <1>2, <2>2
    <3>2. (<<e>> \o s)[i] = s[i - 1]  BY <1>1, <3>1
    <3> QED  BY <1>2, <3>1, <3>2 DEF Elements
  <2> QED  BY <2>1, <2>2
<1>4. ASSUME NEW i \in 1..Len(s)
      PROVE  s[i] \in Elements(<<e>> \o s)
  <2>1. i + 1 \in 1..(Len(s) + 1) /\ (<<e>> \o s)[i + 1] = s[i]  BY <1>1, <1>2
  <2> QED  BY <1>2, <2>1 DEF Elements
<1>5. e \in Elements(<<e>> \o s)
  <2>1. 1 \in 1..(Len(s) + 1)  BY <1>2
  <2> QED  BY <1>1, <1>2, <2>1 DEF Elements
<1>6. Elements(<<e>> \o s) \subseteq Elements(s) \cup {e}
  BY <1>2, <1>3 DEF Elements
<1>7. Elements(s) \subseteq Elements(<<e>> \o s)
  BY <1>2, <1>4 DEF Elements
<1> QED  BY <1>1, <1>5, <1>6, <1>7

LEMMA TailFacts ==
  ASSUME NEW T, NEW s \in Seq(T), s # <<>>
  PROVE  /\ Tail(s) \in Seq(T) /\ Head(s) \in T
         /\ Elements(s) \subseteq Elements(Tail(s)) \cup {Head(s)}
         /\ Len(s) # 1 => Tail(s) # <<>>
<1>1. /\ Tail(s) \in Seq(T) /\ Head(s) \in T /\ Head(s) = s[1]
      /\ Len(Tail(s)) = Len(s) - 1 /\ Len(s) \in Nat \ {0}
      /\ \A i \in 1..(Len(s) - 1) : Tail(s)[i] = s[i + 1]
  OBVIOUS
<1>2. DOMAIN s = 1..Len(s) /\ DOMAIN Tail(s) = 1..(Len(s) - 1)
  BY <1>1
<1>3. ASSUME NEW i \in 1..Len(s)
      PROVE  s[i] \in Elements(Tail(s)) \cup {Head(s)}
  <2>1. CASE i = 1  BY <1>1, <2>1
  <2>2. CASE i # 1
    <3>1. i - 1 \in 1..(Len(s) - 1) /\ (i - 1) + 1 = i  BY <1>1, <2>2
    <3>2. Tail(s)[i - 1] = s[i]  BY <1>1, <3>1
    <3> QED  BY <1>2, <3>1, <3>2 DEF Elements
  <2> QED  BY <2>1, <2>2
<1>4. Elements(s) \subseteq Elements(Tail(s)) \cup {Head(s)}
  BY <1>2, <1>3 DEF Elements
<1>5. Len(s) # 1 => Tail(s) # <<>>
  <2>1. Len(s) # 1 => Len(Tail(s)) # 0  BY <1>1
  <2>2. Len(<<>>) = 0  OBVIOUS
  <2> QED  BY <2>1, <2>2
<1> QED  BY <1>1, <1>4, <1>5
-----------------------------------------------------------------------------
(* Types.                                                                  *)

\* A push, whoever makes it.
LEMMA PushFacts ==
  ASSUME TypeOK, NEW p \in Payloads, NEW front \in BOOLEAN, Push(p, front)
  PROVE  /\ list' \in [Keys -> Seq(Payloads)] /\ active' = active \cup {KeyOf[p]}
         /\ active' \subseteq Keys /\ forsaken' = forsaken \ {KeyOf[p]}
         /\ Elements(list'[KeyOf[p]]) = Elements(list[KeyOf[p]]) \cup {p}
         /\ \A k \in Keys \ {KeyOf[p]} : list'[k] = list[k]
<1>1. KeyOf[p] \in Keys /\ list[KeyOf[p]] \in Seq(Payloads)
  BY KeyAssumption DEF TypeOK
<1>2. /\ Append(list[KeyOf[p]], p) \in Seq(Payloads)
      /\ Elements(Append(list[KeyOf[p]], p)) = Elements(list[KeyOf[p]]) \cup {p}
  BY <1>1, AppendFacts
<1>3. /\ <<p>> \o list[KeyOf[p]] \in Seq(Payloads)
      /\ Elements(<<p>> \o list[KeyOf[p]]) = Elements(list[KeyOf[p]]) \cup {p}
  BY <1>1, FrontFacts
<1>4. PICK s \in Seq(Payloads) : /\ list' = [list EXCEPT ![KeyOf[p]] = s]
                                 /\ Elements(s) = Elements(list[KeyOf[p]]) \cup {p}
  <2>1. CASE front  BY <1>3, <2>1 DEF Push
  <2>2. CASE ~front  BY <1>2, <2>2 DEF Push
  <2> QED  BY <2>1, <2>2
<1>5. list \in [Keys -> Seq(Payloads)] /\ active \subseteq Keys  BY DEF TypeOK
<1>6. active' = active \cup {KeyOf[p]} /\ forsaken' = forsaken \ {KeyOf[p]}
  BY DEF Push, Activate
<1> QED  BY <1>1, <1>4, <1>5, <1>6

\* Where a claim goes on.
LEMMA ClaimFacts ==
  ASSUME TypeOK, NEW w \in Workers, NEW p \in SUBSET Keys, NEW h, NEW d,
         NEW b \in Seq(Payloads), Claim(w, p, h, b, d)
  PROVE  /\ at' \in [Workers -> Steps]
         /\ pass' \in [Workers -> SUBSET Keys]
         /\ batch' \in [Workers -> Seq(Payloads)]
         /\ at'[w] \in {"claim", "idle", "work"}
         /\ at'[w] = "work" => batch'[w] # <<>>
         /\ \A v \in Workers \ {w} : at'[v] = at[v] /\ batch'[v] = batch[v]
<1>1. PICK step \in {"claim", "idle", "work"} :
        at' = [at EXCEPT ![w] = step] /\ (step = "work" => b # <<>>)
  BY DEF Claim, Goes
<1>2. PICK q \in SUBSET Keys : pass' = [pass EXCEPT ![w] = q]
  BY DEF Claim
<1>3. batch' = [batch EXCEPT ![w] = b]
  BY DEF Claim
<1>4. /\ at \in [Workers -> Steps] /\ pass \in [Workers -> SUBSET Keys]
      /\ batch \in [Workers -> Seq(Payloads)]
  BY DEF TypeOK
<1>5. {"claim", "idle", "work"} \subseteq Steps  BY DEF Steps
<1> QED  BY <1>1, <1>2, <1>3, <1>4, <1>5

\* What is left of a receive.
LEMMA LeftFacts ==
  ASSUME TypeOK, NEW w \in Workers, batch[w] # <<>>, Left(w)
  PROVE  /\ at' \in [Workers -> Steps]
         /\ batch' \in [Workers -> Seq(Payloads)]
         /\ at'[w] \in {"idle", "work"}
         /\ at'[w] = "work" => batch'[w] # <<>>
         /\ \A v \in Workers \ {w} : at'[v] = at[v] /\ batch'[v] = batch[v]
<1>1. at \in [Workers -> Steps] /\ batch \in [Workers -> Seq(Payloads)]
  BY DEF TypeOK
<1>2. Tail(batch[w]) \in Seq(Payloads) /\ (Len(batch[w]) # 1 => Tail(batch[w]) # <<>>)
  BY <1>1, TailFacts
<1>3. PICK step \in {"idle", "work"} :
        at' = [at EXCEPT ![w] = step] /\ (step = "work" => Len(batch[w]) # 1)
  BY DEF Left, Goes
<1>4. batch' = [batch EXCEPT ![w] = Tail(batch[w])]  BY DEF Left
<1>5. {"idle", "work"} \subseteq Steps  BY DEF Steps
<1> QED  BY <1>1, <1>2, <1>3, <1>4, <1>5

\* A step of w leaves what the others have.
LEMMA OthersOK ==
  ASSUME QueueOK, NEW w \in Workers, WorkerOK(w)',
         \A v \in Workers \ {w} : /\ at'[v] = at[v] /\ hand'[v] = hand[v]
                                  /\ key'[v] = key[v] /\ batch'[v] = batch[v]
  PROVE  \A v \in Workers : WorkerOK(v)'
<1>1. ASSUME NEW v \in Workers \ {w} PROVE WorkerOK(v)'
  <2>1. WorkerOK(v)  BY <1>1 DEF QueueOK
  <2> QED  BY <1>1, <2>1 DEF WorkerOK
<1> QED  BY <1>1

LEMMA InitQueueOK == Init => QueueOK
<1> SUFFICES ASSUME Init PROVE QueueOK  OBVIOUS
<1>1. TypeOK
  BY BacklogAssumption DEF Init, TypeOK, Steps
<1>2. ASSUME NEW w \in Workers PROVE WorkerOK(w)
  BY DEF Init, WorkerOK, Moving, Pruning
<1> QED  BY <1>1, <1>2 DEF QueueOK

\* The commands of a claim.
LEMMA ClaimStep ==
  ASSUME QueueOK, NEW w \in Workers,
         StartPass(w) \/ Record(w) \/ Prune(w) \/ Recheck(w) \/ Readd(w) \/ \E k \in Keys : Pop(w, k)
  PROVE  QueueOK'
<1>0. TypeOK /\ WorkerOK(w)  BY DEF QueueOK
<1>1. CASE StartPass(w)
  <2>1. active \in SUBSET Keys /\ batch[w] \in Seq(Payloads)  BY <1>0 DEF TypeOK
  <2>2. Claim(w, active, FALSE, batch[w], dry[w] \cup (Keys \ active))  BY <1>1 DEF StartPass
  <2>3. /\ at' \in [Workers -> Steps] /\ pass' \in [Workers -> SUBSET Keys]
        /\ batch' \in [Workers -> Seq(Payloads)]
        /\ at'[w] \in {"claim", "idle", "work"} /\ (at'[w] = "work" => batch'[w] # <<>>)
        /\ \A v \in Workers \ {w} : at'[v] = at[v] /\ batch'[v] = batch[v]
    BY <1>0, <2>1, <2>2, ClaimFacts
  <2>4. /\ at[w] \in {"idle", "claim"}
        /\ UNCHANGED <<active, list, flight, hand, key, scanned, sent>>  BY <1>1 DEF StartPass
  <2>5. TypeOK'  BY <1>0, <2>3, <2>4 DEF TypeOK
  <2>6. WorkerOK(w)'  BY <1>0, <2>3, <2>4 DEF WorkerOK, Moving, Pruning
  <2> QED  BY <2>3, <2>4, <2>5, <2>6, OthersOK DEF QueueOK
<1>2. CASE Record(w)
  <2>1. /\ at[w] = "record" /\ hand[w] \in Payloads /\ pass[w] \in SUBSET Keys
        /\ batch[w] \in Seq(Payloads)
    BY <1>0, <1>2 DEF Record, TypeOK, WorkerOK, Moving
  <2>2. Append(batch[w], hand[w]) \in Seq(Payloads)  BY <2>1, AppendFacts
  <2>3. Claim(w, pass[w], TRUE, Append(batch[w], hand[w]), dry[w])  BY <1>2 DEF Record
  <2>4. /\ at' \in [Workers -> Steps] /\ pass' \in [Workers -> SUBSET Keys]
        /\ batch' \in [Workers -> Seq(Payloads)]
        /\ at'[w] \in {"claim", "idle", "work"} /\ (at'[w] = "work" => batch'[w] # <<>>)
        /\ \A v \in Workers \ {w} : at'[v] = at[v] /\ batch'[v] = batch[v]
    BY <1>0, <2>1, <2>2, <2>3, ClaimFacts
  <2>5. /\ flight' = [flight EXCEPT ![hand[w]] = "fresh"] /\ hand' = [hand EXCEPT ![w] = None]
        /\ UNCHANGED <<active, list, key, scanned, sent>>  BY <1>2 DEF Record
  <2>6. TypeOK'  BY <1>0, <2>1, <2>4, <2>5 DEF TypeOK
  <2>7. WorkerOK(w)'  BY <1>0, <2>4, <2>5 DEF TypeOK, WorkerOK, Moving, Pruning
  <2>8. \A v \in Workers \ {w} : hand'[v] = hand[v] /\ key'[v] = key[v]
    BY <1>0, <2>5 DEF TypeOK
  <2> QED  BY <2>4, <2>6, <2>7, <2>8, OthersOK DEF QueueOK
<1>3. CASE Prune(w)
  <2>1. /\ at[w] = "prune" /\ at' = [at EXCEPT ![w] = "recheck"] /\ active' \subseteq active
        /\ UNCHANGED <<list, flight, hand, key, pass, batch, scanned, sent>>
    BY <1>3 DEF Prune, Goes
  <2>2. TypeOK'  BY <1>0, <2>1 DEF TypeOK, Steps, Pruning
  <2>3. WorkerOK(w)'  BY <1>0, <2>1 DEF TypeOK, WorkerOK, Moving, Pruning
  <2>4. \A v \in Workers \ {w} : at'[v] = at[v]  BY <1>0, <2>1 DEF TypeOK
  <2> QED  BY <2>1, <2>2, <2>3, <2>4, OthersOK DEF QueueOK
<1>4. ASSUME at[w] \in {"recheck", "readd"}, Pruned(w), active' \subseteq Keys,
             UNCHANGED <<list, flight, hand, scanned, sent>>
      PROVE  QueueOK'
  <2>1. pass[w] \in SUBSET Keys /\ batch[w] \in Seq(Payloads)  BY <1>0 DEF TypeOK
  <2>2. Claim(w, pass[w], hit[w], batch[w], dry[w]) /\ key' = [key EXCEPT ![w] = None]
    BY <1>4 DEF Pruned
  <2>3. /\ at' \in [Workers -> Steps] /\ pass' \in [Workers -> SUBSET Keys]
        /\ batch' \in [Workers -> Seq(Payloads)]
        /\ at'[w] \in {"claim", "idle", "work"} /\ (at'[w] = "work" => batch'[w] # <<>>)
        /\ \A v \in Workers \ {w} : at'[v] = at[v] /\ batch'[v] = batch[v]
    BY <1>0, <2>1, <2>2, ClaimFacts
  <2>4. TypeOK'  BY <1>0, <1>4, <2>2, <2>3 DEF TypeOK
  <2>5. WorkerOK(w)'  BY <1>0, <1>4, <2>3 DEF WorkerOK, Moving, Pruning
  <2>6. \A v \in Workers \ {w} : key'[v] = key[v]  BY <1>0, <2>2 DEF TypeOK
  <2> QED  BY <1>4, <2>3, <2>4, <2>5, <2>6, OthersOK DEF QueueOK
<1>5. CASE Recheck(w)
  <2>1. CASE list[key[w]] = <<>>
    BY <1>0, <1>4, <1>5, <2>1 DEF Recheck, TypeOK
  <2>2. CASE list[key[w]] # <<>>
    <3>1. /\ at[w] = "recheck" /\ at' = [at EXCEPT ![w] = "readd"]
          /\ UNCHANGED <<active, list, flight, hand, key, pass, batch, scanned, sent>>
      BY <1>5, <2>2 DEF Recheck, Goes
    <3>2. TypeOK'  BY <1>0, <3>1 DEF TypeOK, Steps, Pruning
    <3>3. WorkerOK(w)'  BY <1>0, <3>1 DEF TypeOK, WorkerOK, Moving, Pruning
    <3>4. \A v \in Workers \ {w} : at'[v] = at[v]  BY <1>0, <3>1 DEF TypeOK
    <3> QED  BY <3>1, <3>2, <3>3, <3>4, OthersOK DEF QueueOK
  <2> QED  BY <2>1, <2>2
<1>6. CASE Readd(w)
  <2>1. active \subseteq Keys /\ key[w] \in Keys
    BY <1>0, <1>6 DEF Readd, TypeOK, WorkerOK, Pruning
  <2> QED  BY <1>4, <1>6, <2>1 DEF Readd, Activate
<1>7. ASSUME NEW k \in Keys, Pop(w, k)  PROVE QueueOK'
  <2>1. /\ at[w] = "claim" /\ pass' = [pass EXCEPT ![w] = pass[w] \ {k}]
        /\ UNCHANGED <<active, flight, batch, scanned, sent>>
    BY <1>7 DEF Pop
  <2>2. pass' \in [Workers -> SUBSET Keys]  BY <1>0, <2>1 DEF TypeOK
  <2>3. CASE Miss(w, k)
    <3>1. /\ key' = [key EXCEPT ![w] = k] /\ at' = [at EXCEPT ![w] = "prune"]
          /\ UNCHANGED <<list, hand>>
      BY <2>3 DEF Miss, Goes
    <3>2. TypeOK'  BY <1>0, <2>1, <2>2, <3>1 DEF TypeOK, Steps, Pruning
    <3>3. WorkerOK(w)'  BY <1>0, <2>1, <3>1 DEF TypeOK, WorkerOK, Moving, Pruning
    <3>4. \A v \in Workers \ {w} : at'[v] = at[v] /\ key'[v] = key[v]  BY <1>0, <3>1 DEF TypeOK
    <3> QED  BY <2>1, <3>1, <3>2, <3>3, <3>4, OthersOK DEF QueueOK
  <2>4. CASE ~Miss(w, k)
    <3>1. /\ list[k] # <<>> /\ hand' = [hand EXCEPT ![w] = Head(list[k])]
          /\ list' = [list EXCEPT ![k] = Tail(list[k])]
          /\ at' = [at EXCEPT ![w] = "record"] /\ key' = key
      BY <1>7, <2>4 DEF Pop, Goes
    <3>2. Head(list[k]) \in Payloads /\ Tail(list[k]) \in Seq(Payloads)
      BY <1>0, <3>1, TailFacts DEF TypeOK
    <3>3. TypeOK'  BY <1>0, <2>1, <2>2, <3>1, <3>2 DEF TypeOK, Steps, Moving
    <3>4. WorkerOK(w)'
      BY <1>0, <2>1, <3>1, <3>2, NoneAssumption DEF TypeOK, WorkerOK, Moving, Pruning
    <3>5. \A v \in Workers \ {w} : at'[v] = at[v] /\ hand'[v] = hand[v]  BY <1>0, <3>1 DEF TypeOK
    <3> QED  BY <2>1, <3>1, <3>3, <3>4, <3>5, OthersOK DEF QueueOK
  <2> QED  BY <2>3, <2>4
<1> QED  BY <1>1, <1>2, <1>3, <1>5, <1>6, <1>7

\* Acknowledgements, nacks and what they put back.
LEMMA SettleStep ==
  ASSUME QueueOK, NEW w \in Workers, Ack(w) \/ Nack(w) \/ Requeue(w)
  PROVE  QueueOK'
<1>0. TypeOK /\ WorkerOK(w)  BY DEF QueueOK
<1>1. CASE Ack(w)
  <2>1. batch[w] # <<>> /\ batch[w] \in Seq(Payloads)  BY <1>0, <1>1 DEF Ack, TypeOK, WorkerOK
  <2>2. /\ at' \in [Workers -> Steps] /\ batch' \in [Workers -> Seq(Payloads)]
        /\ at'[w] \in {"idle", "work"} /\ (at'[w] = "work" => batch'[w] # <<>>)
        /\ \A v \in Workers \ {w} : at'[v] = at[v] /\ batch'[v] = batch[v]
    BY <1>0, <1>1, <2>1, LeftFacts DEF Ack
  <2>3. /\ at[w] = "work" /\ flight' = [flight EXCEPT ![Head(batch[w])] = "no"]
        /\ UNCHANGED <<active, list, hand, key, pass, scanned, sent>>  BY <1>1 DEF Ack
  <2>4. TypeOK'  BY <1>0, <2>2, <2>3 DEF TypeOK
  <2>5. WorkerOK(w)'  BY <1>0, <2>2, <2>3 DEF WorkerOK, Moving, Pruning
  <2> QED  BY <2>2, <2>3, <2>4, <2>5, OthersOK DEF QueueOK
<1>2. CASE Nack(w)
  <2>1. /\ at[w] = "work" /\ flight' = [flight EXCEPT ![Head(batch[w])] = "no"]
        /\ hand' = [hand EXCEPT ![w] = Head(batch[w])] /\ at' = [at EXCEPT ![w] = "requeue"]
        /\ UNCHANGED <<active, list, key, pass, batch, scanned, sent>>  BY <1>2 DEF Nack, Goes
  <2>2. batch[w] # <<>> /\ Head(batch[w]) \in Payloads
    BY <1>0, <2>1, TailFacts DEF TypeOK, WorkerOK
  <2>3. TypeOK'  BY <1>0, <2>1, <2>2 DEF TypeOK, Steps, Moving
  <2>4. WorkerOK(w)'
    BY <1>0, <2>1, <2>2, NoneAssumption DEF TypeOK, WorkerOK, Moving, Pruning
  <2>5. \A v \in Workers \ {w} : at'[v] = at[v] /\ hand'[v] = hand[v]  BY <1>0, <2>1 DEF TypeOK
  <2> QED  BY <2>1, <2>3, <2>4, <2>5, OthersOK DEF QueueOK
<1>3. CASE Requeue(w)
  <2>1. batch[w] # <<>> /\ hand[w] \in Payloads
    BY <1>0, <1>3 DEF Requeue, TypeOK, WorkerOK, Moving
  <2>2. /\ at' \in [Workers -> Steps] /\ batch' \in [Workers -> Seq(Payloads)]
        /\ at'[w] \in {"idle", "work"} /\ (at'[w] = "work" => batch'[w] # <<>>)
        /\ \A v \in Workers \ {w} : at'[v] = at[v] /\ batch'[v] = batch[v]
    BY <1>0, <1>3, <2>1, LeftFacts DEF Requeue
  <2>3. active' \subseteq Keys /\ list' \in [Keys -> Seq(Payloads)]
    BY <1>0, <1>3, <2>1, PushFacts DEF Requeue
  <2>4. /\ hand' = [hand EXCEPT ![w] = None]
        /\ UNCHANGED <<flight, key, pass, scanned, sent>>  BY <1>3 DEF Requeue
  <2>5. TypeOK'  BY <1>0, <2>2, <2>3, <2>4 DEF TypeOK
  <2>6. WorkerOK(w)'  BY <1>0, <2>2, <2>4 DEF TypeOK, WorkerOK, Moving, Pruning
  <2>7. \A v \in Workers \ {w} : hand'[v] = hand[v]  BY <1>0, <2>4 DEF TypeOK
  <2> QED  BY <2>2, <2>4, <2>5, <2>6, <2>7, OthersOK DEF QueueOK
<1> QED  BY <1>1, <1>2, <1>3

\* A reclaim.
LEMMA ReclaimStep ==
  ASSUME QueueOK, NEW w \in Workers,
         Scan(w) \/ Restore(w) \/ EndReclaim(w) \/ \E p \in Payloads : Reclaim(w, p)
  PROVE  QueueOK'
<1>0. TypeOK /\ WorkerOK(w)  BY DEF QueueOK
<1>1. CASE Scan(w)
  <2>1. /\ at[w] = "idle" /\ scanned' = [scanned EXCEPT ![w] = Stale]
        /\ at' = [at EXCEPT ![w] = "reclaim"]
        /\ UNCHANGED <<active, list, flight, hand, key, pass, batch, sent>>  BY <1>1 DEF Scan, Goes
  <2>2. TypeOK'  BY <1>0, <2>1 DEF TypeOK, Steps, Stale
  <2>3. WorkerOK(w)'  BY <1>0, <2>1 DEF TypeOK, WorkerOK, Moving, Pruning
  <2>4. \A v \in Workers \ {w} : at'[v] = at[v]  BY <1>0, <2>1 DEF TypeOK
  <2> QED  BY <2>1, <2>2, <2>3, <2>4, OthersOK DEF QueueOK
<1>2. CASE Restore(w)
  <2>1. at[w] = "restore" /\ hand[w] \in Payloads
    BY <1>0, <1>2 DEF Restore, TypeOK, WorkerOK, Moving
  <2>2. active' \subseteq Keys /\ list' \in [Keys -> Seq(Payloads)]
    BY <1>0, <1>2, <2>1, PushFacts DEF Restore
  <2>3. /\ hand' = [hand EXCEPT ![w] = None] /\ at' = [at EXCEPT ![w] = "reclaim"]
        /\ UNCHANGED <<flight, key, pass, batch, scanned, sent>>  BY <1>2 DEF Restore, Goes
  <2>4. TypeOK'  BY <1>0, <2>2, <2>3 DEF TypeOK, Steps
  <2>5. WorkerOK(w)'  BY <1>0, <2>3 DEF TypeOK, WorkerOK, Moving, Pruning
  <2>6. \A v \in Workers \ {w} : at'[v] = at[v] /\ hand'[v] = hand[v]  BY <1>0, <2>3 DEF TypeOK
  <2> QED  BY <2>3, <2>4, <2>5, <2>6, OthersOK DEF QueueOK
<1>3. CASE EndReclaim(w)
  <2>1. /\ at[w] = "reclaim" /\ at' = [at EXCEPT ![w] = "idle"]
        /\ UNCHANGED <<active, list, flight, hand, key, pass, batch, scanned, sent>>
    BY <1>3 DEF EndReclaim, Goes
  <2>2. TypeOK'  BY <1>0, <2>1 DEF TypeOK, Steps
  <2>3. WorkerOK(w)'  BY <1>0, <2>1 DEF TypeOK, WorkerOK, Moving, Pruning
  <2>4. \A v \in Workers \ {w} : at'[v] = at[v]  BY <1>0, <2>1 DEF TypeOK
  <2> QED  BY <2>1, <2>2, <2>3, <2>4, OthersOK DEF QueueOK
<1>4. ASSUME NEW p \in Payloads, Reclaim(w, p)  PROVE QueueOK'
  <2>1. /\ at[w] = "reclaim" /\ scanned' = [scanned EXCEPT ![w] = scanned[w] \ {p}]
        /\ flight' = [flight EXCEPT ![p] = "no"]
        /\ UNCHANGED <<active, list, key, pass, batch, sent>>
    BY <1>4 DEF Reclaim
  <2>2. \/ hand' = [hand EXCEPT ![w] = p] /\ at' = [at EXCEPT ![w] = "restore"]
        \/ UNCHANGED <<hand, at>>
    BY <1>4 DEF Reclaim, Goes
  <2>3. TypeOK'  BY <1>0, <2>1, <2>2 DEF TypeOK, Steps, Moving
  <2>4. WorkerOK(w)'
    BY <1>0, <2>1, <2>2, NoneAssumption DEF TypeOK, WorkerOK, Moving, Pruning
  <2>5. \A v \in Workers \ {w} : at'[v] = at[v] /\ hand'[v] = hand[v]
    BY <1>0, <2>2 DEF TypeOK
  <2> QED  BY <2>1, <2>3, <2>4, <2>5, OthersOK DEF QueueOK
<1> QED  BY <1>1, <1>2, <1>3, <1>4

LEMMA QueueStep == QueueOK /\ [Next]_vars => QueueOK'
<1> SUFFICES ASSUME QueueOK, [Next]_vars  PROVE QueueOK'  OBVIOUS
<1>0. TypeOK  BY DEF QueueOK
<1>1. ASSUME NEW p \in Payloads, Send(p)  PROVE QueueOK'
  <2>1. active' \subseteq Keys /\ list' \in [Keys -> Seq(Payloads)]
    BY <1>0, <1>1, PushFacts DEF Send
  <2>2. sent' = sent \cup {p} /\ UNCHANGED <<flight, worker>>  BY <1>1 DEF Send
  <2> QED  BY <2>1, <2>2 DEF QueueOK, TypeOK, WorkerOK, worker
<1>2. ASSUME NEW p \in Payloads, Age(p)  PROVE QueueOK'
  <2>1. flight' = [flight EXCEPT ![p] = "stale"] /\ UNCHANGED <<active, list, worker, sent>>
    BY <1>2 DEF Age
  <2> QED  BY <2>1 DEF QueueOK, TypeOK, WorkerOK, worker
<1>3. ASSUME NEW w \in Workers, Work(w) \/ Scan(w) \/ Nack(w)  PROVE QueueOK'
  BY <1>3, ClaimStep, SettleStep, ReclaimStep DEF Work
<1>4. ASSUME NEW w \in Workers, Die(w)  PROVE QueueOK'
  <2>1. /\ at' = [at EXCEPT ![w] = "idle"] /\ hand' = [hand EXCEPT ![w] = None]
        /\ key' = [key EXCEPT ![w] = None] /\ pass' = [pass EXCEPT ![w] = {}]
        /\ batch' = [batch EXCEPT ![w] = <<>>] /\ scanned' = [scanned EXCEPT ![w] = {}]
        /\ UNCHANGED <<active, list, flight, sent>>
    BY <1>4 DEF Die, Goes
  <2>2. TypeOK'  BY <1>0, <2>1 DEF TypeOK, Steps
  <2>3. WorkerOK(w)'  BY <1>0, <2>1 DEF TypeOK, WorkerOK, Moving, Pruning
  <2>4. \A v \in Workers \ {w} : /\ at'[v] = at[v] /\ hand'[v] = hand[v]
                                 /\ key'[v] = key[v] /\ batch'[v] = batch[v]
    BY <1>0, <2>1 DEF TypeOK
  <2> QED  BY <2>2, <2>3, <2>4, OthersOK DEF QueueOK
<1>5. CASE UNCHANGED vars
  BY <1>5 DEF vars, worker, QueueOK, TypeOK, WorkerOK
<1> QED  BY <1>1, <1>2, <1>3, <1>4, <1>5 DEF Next

\* A worker has a payload in its hand exactly between the two commands that
\* move it, a key while it prunes it, and a message while it handles one.
THEOREM TypeCorrect == Spec => []QueueOK
<1> QED  BY InitQueueOK, QueueStep, PTL DEF Spec
-----------------------------------------------------------------------------
(* No list is stranded.                                                    *)

Seeing(k) == \E w \in Workers : at[w] \in {"recheck", "readd"} /\ key[w] = k

\* Who sees to a key goes on doing so while it does not step.
LEMMA StillSeen ==
  ASSUME NEW w \in Workers, NEW k \in Keys, Seeing(k),
         at[w] \notin {"recheck", "readd"} \/ key[w] # k,
         \A v \in Workers \ {w} : at'[v] = at[v] /\ key'[v] = key[v]
  PROVE  Seeing(k)'
<1>1. PICK v \in Workers : at[v] \in {"recheck", "readd"} /\ key[v] = k  BY DEF Seeing
<1>2. v # w  BY <1>1
<1> QED  BY <1>1, <1>2 DEF Seeing

\* A worker that does nothing at a key, and takes nothing out of the active set.
LEMMA StrandedStep ==
  ASSUME TypeOK, NoneStranded, NEW w \in Workers,
         active \subseteq active', forsaken \subseteq forsaken' \cup active',
         \A k \in Keys : list'[k] # <<>> => list[k] # <<>> \/ k \in active',
         at[w] \in {"recheck", "readd"} => list'[key[w]] = <<>> \/ key[w] \in active' \cup forsaken',
         \A v \in Workers \ {w} : at'[v] = at[v] /\ key'[v] = key[v]
  PROVE  NoneStranded'
<1> SUFFICES ASSUME NEW k \in Keys, k \notin active' \cup forsaken', list'[k] # <<>>
             PROVE  Seeing(k)'
  BY DEF NoneStranded, Seeing
<1>1. Seeing(k)  BY DEF NoneStranded, Seeing
<1>2. at[w] \notin {"recheck", "readd"} \/ key[w] # k  OBVIOUS
<1> QED  BY <1>1, <1>2, StillSeen

LEMMA NoneStrandedStep ==
  QueueOK /\ NoneStranded /\ [Next]_vars => NoneStranded'
<1> SUFFICES ASSUME QueueOK, NoneStranded, [Next]_vars
             PROVE  NoneStranded'
  OBVIOUS
<1>0. TypeOK  BY DEF QueueOK
<1>1. ASSUME NEW p \in Payloads, NEW front \in BOOLEAN, Push(p, front)
      PROVE  /\ active \subseteq active' /\ forsaken \subseteq forsaken' \cup active'
             /\ \A k \in Keys : list'[k] # <<>> => list[k] # <<>> \/ k \in active'
  <2>1. /\ active' = active \cup {KeyOf[p]} /\ forsaken' = forsaken \ {KeyOf[p]}
        /\ \A k \in Keys \ {KeyOf[p]} : list'[k] = list[k]
    BY <1>0, <1>1, PushFacts
  <2> QED  BY <2>1
<1>2. ASSUME NEW p \in Payloads, Send(p)  PROVE NoneStranded'
  <2>1. Push(p, FALSE) /\ UNCHANGED <<at, key>>  BY <1>2 DEF Send, worker
  <2>2. /\ active \subseteq active' /\ forsaken \subseteq forsaken' \cup active'
        /\ \A k \in Keys : list'[k] # <<>> => list[k] # <<>> \/ k \in active'
    BY <1>1, <2>1
  <2> QED  BY <2>1, <2>2 DEF NoneStranded
<1>3. ASSUME NEW w \in Workers, Requeue(w) \/ Restore(w)  PROVE NoneStranded'
  <2>1. /\ Push(hand[w], TRUE) /\ at[w] \in {"requeue", "restore"} /\ UNCHANGED key
    BY <1>3 DEF Requeue, Restore
  <2>2. hand[w] \in Payloads  BY <2>1 DEF QueueOK, TypeOK, WorkerOK, Moving
  <2>3. /\ active \subseteq active' /\ forsaken \subseteq forsaken' \cup active'
        /\ \A k \in Keys : list'[k] # <<>> => list[k] # <<>> \/ k \in active'
    BY <1>1, <2>1, <2>2
  <2>4. \A v \in Workers \ {w} : at'[v] = at[v]
    BY <1>0, <1>3 DEF Requeue, Restore, Left, Goes, TypeOK
  <2> QED  BY <1>0, <2>1, <2>3, <2>4, StrandedStep
<1>4. ASSUME NEW w \in Workers, StartPass(w) \/ Record(w)  PROVE NoneStranded'
  <2>1. /\ at[w] \notin {"recheck", "readd"} /\ UNCHANGED <<active, forsaken, list, key>>
    BY <1>4 DEF StartPass, Record, deaths
  <2>2. \A v \in Workers \ {w} : at'[v] = at[v]
    BY <1>0, <1>4 DEF StartPass, Record, Claim, Goes, TypeOK
  <2> QED  BY <1>0, <2>1, <2>2, StrandedStep
<1>5. ASSUME NEW w \in Workers,
             Ack(w) \/ Nack(w) \/ Scan(w) \/ EndReclaim(w) \/ \E p \in Payloads : Reclaim(w, p)
      PROVE  NoneStranded'
  <2>1. /\ at[w] \notin {"recheck", "readd"} /\ UNCHANGED <<active, forsaken, list, key>>
    BY <1>5 DEF Ack, Nack, Scan, EndReclaim, Reclaim, deaths
  <2>2. \A v \in Workers \ {w} : at'[v] = at[v]
    BY <1>0, <1>5 DEF Ack, Nack, Scan, EndReclaim, Reclaim, Left, Goes, TypeOK
  <2> QED  BY <1>0, <2>1, <2>2, StrandedStep
<1>6. ASSUME NEW w \in Workers, NEW k \in Keys, Pop(w, k)  PROVE NoneStranded'
  <2>1. at[w] = "claim" /\ UNCHANGED <<active, forsaken>>  BY <1>6 DEF Pop, deaths
  <2>2. \A j \in Keys : list'[j] # <<>> => list[j] # <<>>
    BY <1>0, <1>6 DEF Pop, Miss, TypeOK
  <2>3. \A v \in Workers \ {w} : at'[v] = at[v] /\ key'[v] = key[v]
    BY <1>0, <1>6 DEF Pop, Miss, Goes, TypeOK
  <2> QED  BY <1>0, <2>1, <2>2, <2>3, StrandedStep
<1>7. ASSUME NEW w \in Workers, Prune(w)  PROVE NoneStranded'
  <2>1. /\ at[w] = "prune" /\ active' = active \ {key[w]} /\ UNCHANGED <<list, key, forsaken>>
        /\ at' = [at EXCEPT ![w] = "recheck"]
    BY <1>7 DEF Prune, Goes, deaths
  <2> SUFFICES ASSUME NEW k \in Keys, k \notin active' \cup forsaken, list[k] # <<>>
               PROVE  Seeing(k)'
    BY <2>1 DEF NoneStranded, Seeing
  <2>2. CASE k = key[w]
    <3>1. at'[w] = "recheck" /\ key'[w] = k  BY <1>0, <2>1, <2>2 DEF TypeOK
    <3> QED  BY <3>1 DEF Seeing
  <2>3. CASE k # key[w]
    <3>1. Seeing(k)  BY <2>1, <2>3 DEF NoneStranded, Seeing
    <3>2. \A v \in Workers \ {w} : at'[v] = at[v] /\ key'[v] = key[v]  BY <1>0, <2>1 DEF TypeOK
    <3> QED  BY <2>1, <3>1, <3>2, StillSeen
  <2> QED  BY <2>2, <2>3
<1>8. ASSUME NEW w \in Workers, Recheck(w)  PROVE NoneStranded'
  <2>1. at[w] = "recheck" /\ UNCHANGED <<active, forsaken, list>>
    BY <1>8 DEF Recheck, deaths
  <2>2. CASE list[key[w]] = <<>>
    <3>1. \A v \in Workers \ {w} : at'[v] = at[v] /\ key'[v] = key[v]
      BY <1>0, <1>8, <2>2 DEF Recheck, Pruned, Claim, Goes, TypeOK
    <3> QED  BY <1>0, <2>1, <2>2, <3>1, StrandedStep
  <2>3. CASE list[key[w]] # <<>>
    <3>1. at' = [at EXCEPT ![w] = "readd"] /\ UNCHANGED key  BY <1>8, <2>3 DEF Recheck, Goes
    <3>2. \A v \in Workers : at[v] \in {"recheck", "readd"} => at'[v] \in {"recheck", "readd"}
      BY <1>0, <3>1 DEF TypeOK
    <3> QED  BY <2>1, <3>1, <3>2 DEF NoneStranded
  <2> QED  BY <2>2, <2>3
<1>9. ASSUME NEW w \in Workers, Readd(w)  PROVE NoneStranded'
  <2>1. /\ active' = active \cup {key[w]} /\ forsaken' = forsaken \ {key[w]}
        /\ UNCHANGED list
    BY <1>9 DEF Readd, Activate
  <2>2. \A v \in Workers \ {w} : at'[v] = at[v] /\ key'[v] = key[v]
    BY <1>0, <1>9 DEF Readd, Pruned, Claim, Goes, TypeOK
  <2> QED  BY <1>0, <2>1, <2>2, StrandedStep
<1>10. ASSUME NEW w \in Workers, Die(w)  PROVE NoneStranded'
  <2>1. /\ UNCHANGED <<active, list>> /\ forsaken \subseteq forsaken'
        /\ at[w] \in {"recheck", "readd"} => key[w] \in forsaken'
    BY <1>10 DEF Die
  <2>2. \A v \in Workers \ {w} : at'[v] = at[v] /\ key'[v] = key[v]
    BY <1>0, <1>10 DEF Die, Goes, TypeOK
  <2> QED  BY <1>0, <2>1, <2>2, StrandedStep
<1>11. ASSUME NEW p \in Payloads, Age(p)  PROVE NoneStranded'
  BY <1>11 DEF Age, worker, deaths, NoneStranded
<1>12. CASE UNCHANGED vars
  BY <1>12 DEF vars, worker, deaths, NoneStranded
<1> QED
  BY <1>2, <1>3, <1>4, <1>5, <1>6, <1>7, <1>8, <1>9, <1>10, <1>11, <1>12 DEF Next, Work

\* A list that has payloads is on the active set, or a worker that took it off
\* is about to look again, or one died between the two (_claim_one,
\* redis_queue.py:171-174) and nothing was pushed to the list since.
THEOREM NoListStranded == Spec => []NoneStranded
<1>1. Init => NoneStranded  BY DEF Init, NoneStranded
<1>2. Init => QueueOK  BY InitQueueOK
<1>3. QueueOK /\ [Next]_vars => QueueOK'  BY QueueStep
<1>4. QueueOK /\ NoneStranded /\ [Next]_vars => NoneStranded'
  BY NoneStrandedStep
<1> QED  BY <1>1, <1>2, <1>3, <1>4, PTL DEF Spec
-----------------------------------------------------------------------------
(* No payload is lost.                                                     *)

\* A step that takes a payload from nowhere.
LEMMA HeldStep ==
  ASSUME TypeOK, AllHeld, sent' \ (done' \cup dropped') \subseteq sent \ (done \cup dropped),
         \A p \in sent' \ (done' \cup dropped') : Held(p) => Held(p)'
  PROVE  AllHeld'
BY DEF AllHeld

LEMMA AllHeldStep == QueueOK /\ AllHeld /\ [Next]_vars => AllHeld'
<1> SUFFICES ASSUME QueueOK, AllHeld, [Next]_vars  PROVE AllHeld'
  OBVIOUS
<1>0. TypeOK /\ sent \subseteq Payloads /\ None \notin Payloads
  BY NoneAssumption DEF QueueOK, TypeOK
<1>1. ASSUME NEW p \in Payloads, NEW front \in BOOLEAN, Push(p, front)
      PROVE  /\ p \in Elements(list'[KeyOf[p]])
             /\ \A q \in Payloads : q \in Elements(list[KeyOf[q]]) => q \in Elements(list'[KeyOf[q]])
  <2>1. /\ Elements(list'[KeyOf[p]]) = Elements(list[KeyOf[p]]) \cup {p}
        /\ \A k \in Keys \ {KeyOf[p]} : list'[k] = list[k]
    BY <1>0, <1>1, PushFacts
  <2>2. \A q \in Payloads : KeyOf[q] \in Keys  BY KeyAssumption
  <2> QED  BY <2>1, <2>2
<1>2. ASSUME NEW p \in Payloads, Send(p)  PROVE AllHeld'
  <2>1. /\ sent' = sent \cup {p} /\ UNCHANGED <<flight, hand, done, dropped>> /\ Push(p, FALSE)
    BY <1>2 DEF Send, worker
  <2>2. /\ p \in Elements(list'[KeyOf[p]])
        /\ \A q \in Payloads : q \in Elements(list[KeyOf[q]]) => q \in Elements(list'[KeyOf[q]])
    BY <1>1, <2>1
  <2> QED  BY <1>0, <2>1, <2>2 DEF AllHeld, Held
\* The second command of a nack or a reclaim.
<1>3. ASSUME NEW w \in Workers, Requeue(w) \/ Restore(w)  PROVE AllHeld'
  <2>1. /\ Push(hand[w], TRUE) /\ at[w] \in {"requeue", "restore"}
        /\ UNCHANGED <<flight, sent, done, dropped>> /\ hand' = [hand EXCEPT ![w] = None]
    BY <1>3 DEF Requeue, Restore
  <2>2. hand[w] \in Payloads  BY <2>1 DEF QueueOK, TypeOK, WorkerOK, Moving
  <2>3. /\ hand[w] \in Elements(list'[KeyOf[hand[w]]])
        /\ \A q \in Payloads : q \in Elements(list[KeyOf[q]]) => q \in Elements(list'[KeyOf[q]])
    BY <1>1, <2>1, <2>2
  <2>4. \A v \in Workers : hand'[v] = hand[v] \/ v = w  BY <1>0, <2>1 DEF TypeOK
  <2>5. ASSUME NEW p \in Payloads, Held(p)  PROVE Held(p)'
    <3>1. \A v \in Workers : hand[v] = p => hand'[v] = p \/ p \in Elements(list'[KeyOf[p]])
      BY <2>3, <2>4
    <3> QED  BY <2>1, <2>3, <2>5, <3>1 DEF Held
  <2> QED  BY <1>0, <2>1, <2>5, HeldStep
\* Steps that move nothing.
<1>4. ASSUME UNCHANGED <<list, flight, hand, sent, done, dropped>>  PROVE AllHeld'
  BY <1>4 DEF AllHeld, Held
<1>5. ASSUME NEW w \in Workers,
             StartPass(w) \/ Prune(w) \/ Recheck(w) \/ Readd(w) \/ Scan(w) \/ EndReclaim(w)
      PROVE  AllHeld'
  BY <1>4, <1>5 DEF StartPass, Prune, Recheck, Readd, Scan, EndReclaim, deaths
\* The two commands of a claim.
<1>6. ASSUME NEW w \in Workers, NEW k \in Keys, Pop(w, k)  PROVE AllHeld'
  <2>1. at[w] = "claim" /\ UNCHANGED <<flight, sent, done, dropped>>  BY <1>6 DEF Pop, deaths
  <2>2. hand[w] = None  BY <2>1 DEF QueueOK, WorkerOK, Moving
  <2>3. CASE Miss(w, k)
    BY <1>4, <2>1, <2>3 DEF Miss
  <2>4. CASE ~Miss(w, k)
    <3>1. /\ list[k] # <<>> /\ hand' = [hand EXCEPT ![w] = Head(list[k])]
          /\ list' = [list EXCEPT ![k] = Tail(list[k])]
      BY <1>6, <2>4 DEF Pop
    <3>2. Elements(list[k]) \subseteq Elements(Tail(list[k])) \cup {Head(list[k])}
      BY <1>0, <3>1, TailFacts DEF TypeOK
    <3>3. hand'[w] = Head(list[k]) /\ \A v \in Workers \ {w} : hand'[v] = hand[v]
      BY <1>0, <3>1 DEF TypeOK
    <3>4. list'[k] = Tail(list[k]) /\ \A j \in Keys \ {k} : list'[j] = list[j]
      BY <1>0, <3>1 DEF TypeOK
    <3>5. ASSUME NEW p \in Payloads, Held(p)  PROVE Held(p)'
      <4>1. p \in Elements(list[KeyOf[p]]) => p \in Elements(list'[KeyOf[p]]) \/ hand'[w] = p
        BY KeyAssumption, <3>2, <3>3, <3>4
      <4>2. \A v \in Workers : hand[v] = p => hand'[v] = p
        BY <1>0, <2>2, <3>3
      <4> QED  BY <2>1, <3>5, <4>1, <4>2 DEF Held
    <3> QED  BY <1>0, <2>1, <3>5, HeldStep
  <2> QED  BY <2>3, <2>4
<1>7. ASSUME NEW w \in Workers, Record(w)  PROVE AllHeld'
  <2>1. /\ flight' = [flight EXCEPT ![hand[w]] = "fresh"] /\ hand' = [hand EXCEPT ![w] = None]
        /\ UNCHANGED <<list, sent, done, dropped>>
    BY <1>7 DEF Record, deaths
  <2>2. ASSUME NEW p \in Payloads, Held(p)  PROVE Held(p)'
    <3>1. flight'[p] = flight[p] \/ flight'[p] = "fresh"  BY <1>0, <2>1 DEF TypeOK
    <3>2. \A v \in Workers : hand[v] = p => hand'[v] = p \/ flight'[p] = "fresh"
      BY <1>0, <2>1 DEF TypeOK
    <3> QED  BY <2>1, <2>2, <3>1, <3>2 DEF Held
  <2> QED  BY <1>0, <2>1, <2>2, HeldStep
\* The ends of a claim.
<1>8. ASSUME NEW w \in Workers, Ack(w)  PROVE AllHeld'
  <2>1. /\ flight' = [flight EXCEPT ![Head(batch[w])] = "no"]
        /\ done' = done \cup {Head(batch[w])} /\ UNCHANGED <<list, hand, sent, dropped>>
    BY <1>8 DEF Ack, deaths
  <2>2. ASSUME NEW p \in sent' \ (done' \cup dropped'), Held(p)  PROVE Held(p)'
    <3>1. flight'[p] = flight[p]  BY <1>0, <2>1 DEF TypeOK
    <3> QED  BY <2>1, <2>2, <3>1 DEF Held
  <2> QED  BY <1>0, <2>1, <2>2, HeldStep
<1>9. ASSUME NEW w \in Workers, NEW p \in Payloads, at[w] \notin Moving,
             flight' = [flight EXCEPT ![p] = "no"], UNCHANGED <<list, sent, done, dropped>>,
             hand' = [hand EXCEPT ![w] = p] \/ (flight[p] = "no" /\ UNCHANGED hand)
      PROVE  AllHeld'
  <2>1. hand[w] = None  BY <1>9 DEF QueueOK, WorkerOK
  <2>2. ASSUME NEW q \in Payloads, Held(q)  PROVE Held(q)'
    <3>1. CASE flight[q] # "no" /\ q = p
      <4>1. hand'[w] = q  BY <1>0, <1>9, <3>1 DEF TypeOK
      <4> QED  BY <4>1 DEF Held
    <3>2. CASE flight[q] = "no" \/ q # p
      <4>1. flight[q] # "no" => flight'[q] # "no"  BY <1>0, <1>9, <3>2 DEF TypeOK
      <4>2. \A v \in Workers : hand[v] = q => hand'[v] = q
        BY <1>0, <1>9, <2>1 DEF TypeOK
      <4> QED  BY <1>9, <2>2, <4>1, <4>2 DEF Held
    <3> QED  BY <3>1, <3>2
  <2> QED  BY <1>0, <1>9, <2>2, HeldStep
<1>10. ASSUME NEW w \in Workers, Nack(w)  PROVE AllHeld'
  <2>1. /\ at[w] = "work" /\ flight' = [flight EXCEPT ![Head(batch[w])] = "no"]
        /\ hand' = [hand EXCEPT ![w] = Head(batch[w])] /\ UNCHANGED <<list, sent, done, dropped>>
    BY <1>10 DEF Nack, deaths
  <2>2. batch[w] # <<>> /\ batch[w] \in Seq(Payloads)
    BY <1>0, <2>1 DEF QueueOK, WorkerOK, TypeOK
  <2>3. Head(batch[w]) \in Payloads  BY <2>2, TailFacts
  <2>4. at[w] \notin Moving  BY <2>1 DEF Moving
  <2> QED  BY <1>9, <2>1, <2>3, <2>4
<1>11. ASSUME NEW w \in Workers, NEW p \in Payloads, Reclaim(w, p)  PROVE AllHeld'
  <2>1. at[w] = "reclaim" /\ flight' = [flight EXCEPT ![p] = "no"] /\ UNCHANGED <<list, sent, done, dropped>>
    BY <1>11 DEF Reclaim, deaths
  <2>2. hand' = [hand EXCEPT ![w] = p] \/ (flight[p] = "no" /\ UNCHANGED hand)
    BY <1>11 DEF Reclaim
  <2>3. at[w] \notin Moving  BY <2>1 DEF Moving
  <2> QED  BY <1>9, <2>1, <2>2, <2>3
\* Time and deaths.
<1>12. ASSUME NEW p \in Payloads, Age(p)  PROVE AllHeld'
  <2>1. flight' = [flight EXCEPT ![p] = "stale"] /\ UNCHANGED <<list, hand, sent, done, dropped>>
    BY <1>12 DEF Age, worker, deaths
  <2>2. \A q \in Payloads : flight[q] # "no" => flight'[q] # "no"  BY <1>0, <2>1 DEF TypeOK
  <2> QED  BY <1>0, <2>1, <2>2 DEF AllHeld, Held
<1>13. ASSUME NEW w \in Workers, Die(w)  PROVE AllHeld'
  <2>1. /\ hand' = [hand EXCEPT ![w] = None] /\ dropped' = dropped \cup ({hand[w]} \ {None})
        /\ UNCHANGED <<list, flight, sent, done>>
    BY <1>13 DEF Die
  <2>2. \A v \in Workers \ {w} : hand'[v] = hand[v]  BY <1>0, <2>1 DEF TypeOK
  <2>3. ASSUME NEW p \in sent' \ (done' \cup dropped'), Held(p)  PROVE Held(p)'
    <3>1. p \in Payloads /\ hand[w] # p  BY <1>0, <2>1
    <3>2. \A v \in Workers : hand[v] = p => hand'[v] = p  BY <2>2, <3>1
    <3> QED  BY <2>1, <2>3, <3>2 DEF Held
  <2> QED  BY <1>0, <2>1, <2>3, HeldStep
<1>14. CASE UNCHANGED vars
  BY <1>4, <1>14 DEF vars, worker, deaths
<1> QED
  BY <1>2, <1>3, <1>5, <1>6, <1>7, <1>8, <1>10, <1>11, <1>12, <1>13, <1>14 DEF Next, Work

LEMMA InitAllHeld == Init => AllHeld
BY DEF Init, AllHeld, Held

\* No payload that was sent is lost before it is acknowledged, over any deaths,
\* slow workers, nacks and reclaims, but what a worker had in its hand when it
\* died between the two commands that move a payload (redis_queue.py:165 and
\* 189, 198 and 199, 216 and 217).
THEOREM NoPayloadLost == Spec => []NothingLost
<1>1. Init => QueueOK /\ AllHeld  BY InitQueueOK, InitAllHeld
<1>2. QueueOK /\ [Next]_vars => QueueOK'  BY QueueStep
<1>3. QueueOK /\ AllHeld /\ [Next]_vars => AllHeld'  BY AllHeldStep
<1>4. AllHeld => NothingLost  BY DEF AllHeld, Held, NothingLost, Carries
<1> QED  BY <1>1, <1>2, <1>3, <1>4, PTL DEF Spec
-----------------------------------------------------------------------------
(* Shares are fair.                                                        *)

\* What a worker has of a key in this receive, its turn in this pass included.
Level(w, k) == Share(w, k) + (IF k \in pass[w] THEN 1 ELSE 0)
Claiming == {"claim", "record"} \cup Pruning

\* While a receive claims, the keys that still had something are all at the same
\* level, and no key is above them; out of a claim nothing is left of the last.
LevelOK(w) ==
  /\ at[w] \in Claiming => \A j, k \in Keys : j \notin dry[w] => Level(w, k) <= Level(w, j)
  /\ at[w] \notin Claiming => pass[w] = {} /\ dry[w] = {}
  /\ at[w] \notin Claiming \cup {"work", "requeue"} => batch[w] = <<>>
FairOK ==
  /\ dry \in [Workers -> SUBSET Keys]
  /\ \A k \in Keys : \A p \in Elements(list[k]) : KeyOf[p] = k
  /\ \A w \in Workers : LevelOK(w)

LEMMA ClaimedFacts ==
  ASSUME NEW s \in Seq(Payloads), NEW k
  PROVE  /\ Claimed(s, k) \in Nat
         /\ \A e \in Payloads :
              Claimed(Append(s, e), k) = Claimed(s, k) + (IF KeyOf[e] = k THEN 1 ELSE 0)
<1> DEFINE Places(q) == {i \in DOMAIN q : KeyOf[q[i]] = k}
<1>1. DOMAIN s = 1..Len(s) /\ Len(s) \in Nat  OBVIOUS
<1>2. IsFiniteSet(Places(s))
  <2>1. IsFiniteSet(1..Len(s))  BY <1>1, FS_Interval
  <2>2. Places(s) \subseteq 1..Len(s)  BY <1>1
  <2> QED  BY <2>1, <2>2, FS_Subset
<1>3. Cardinality(Places(s)) \in Nat  BY <1>2, FS_CardinalityType
<1>4. ASSUME NEW e \in Payloads
      PROVE  Cardinality(Places(Append(s, e))) =
               Cardinality(Places(s)) + (IF KeyOf[e] = k THEN 1 ELSE 0)
  <2>1. /\ DOMAIN Append(s, e) = 1..(Len(s) + 1)
        /\ \A i \in 1..Len(s) : Append(s, e)[i] = s[i]
        /\ Append(s, e)[Len(s) + 1] = e
    <3>1. /\ Append(s, e) \in Seq(Payloads) /\ Len(Append(s, e)) = Len(s) + 1
          /\ \A i \in 1..Len(s) : Append(s, e)[i] = s[i]
          /\ Append(s, e)[Len(s) + 1] = e
      OBVIOUS
    <3> QED  BY <3>1
  <2>2. CASE KeyOf[e] = k
    <3>1. Places(Append(s, e)) = Places(s) \cup {Len(s) + 1}  BY <1>1, <2>1, <2>2
    <3>2. Len(s) + 1 \notin Places(s)  BY <1>1
    <3> HIDE DEF Places
    <3> QED  BY <1>2, <2>2, <3>1, <3>2, FS_AddElement
  <2>3. CASE KeyOf[e] # k
    <3>1. Places(Append(s, e)) = Places(s)  BY <1>1, <2>1, <2>3
    <3> HIDE DEF Places
    <3> QED  BY <1>3, <2>3, <3>1
  <2> QED  BY <2>2, <2>3
<1> QED  BY <1>3, <1>4 DEF Claimed

LEMMA LevelType ==
  ASSUME TypeOK, NEW w \in Workers, NEW k \in Keys
  PROVE  /\ Claimed(batch[w], k) \in Nat /\ Moved(w, k) \in {0, 1}
         /\ Share(w, k) \in Nat /\ Level(w, k) \in Nat
<1>0. batch[w] \in Seq(Payloads)  BY DEF TypeOK
<1>1. Claimed(batch[w], k) \in Nat  BY <1>0, ClaimedFacts
<1>2. Moved(w, k) \in {0, 1}  BY DEF Moved
<1> QED  BY <1>1, <1>2 DEF Share, Level

\* What a worker has is what its receive claimed.
LEMMA LevelSame ==
  ASSUME NEW w, NEW k, batch'[w] = batch[w], hand'[w] = hand[w], pass'[w] = pass[w]
  PROVE  Level(w, k)' = Level(w, k)
BY DEF Level, Share, Claimed, Moved

LEMMA TailElements ==
  ASSUME NEW T, NEW s \in Seq(T), s # <<>>
  PROVE  /\ Head(s) \in T /\ Head(s) \in Elements(s)
         /\ Elements(Tail(s)) \subseteq Elements(s)
         /\ Len(s) = 1 => Tail(s) = <<>>
<1>1. /\ Tail(s) \in Seq(T) /\ Head(s) \in T /\ Head(s) = s[1]
      /\ Len(Tail(s)) = Len(s) - 1 /\ Len(s) \in Nat \ {0}
      /\ \A i \in 1..(Len(s) - 1) : Tail(s)[i] = s[i + 1]
  OBVIOUS
<1>2. DOMAIN s = 1..Len(s) /\ DOMAIN Tail(s) = 1..(Len(s) - 1)
  BY <1>1
<1>3. s[1] \in Elements(s)  BY <1>1, <1>2 DEF Elements
<1>4. ASSUME NEW i \in 1..(Len(s) - 1)  PROVE Tail(s)[i] \in Elements(s)
  <2>1. i + 1 \in 1..Len(s) /\ Tail(s)[i] = s[i + 1]  BY <1>1
  <2> QED  BY <1>2, <2>1 DEF Elements
<1>5. Elements(Tail(s)) \subseteq Elements(s)  BY <1>2, <1>4 DEF Elements
<1>6. Len(s) = 1 => Tail(s) = <<>>
  <2>1. Len(s) = 1 => Len(Tail(s)) = 0  BY <1>1
  <2> QED  BY <1>1, <2>1, EmptySeq
<1> QED  BY <1>1, <1>3, <1>5, <1>6

\* What is left of a receive that is over is nothing.
LEMMA LeftClean ==
  ASSUME TypeOK, NEW w \in Workers, batch[w] # <<>>, Left(w)
  PROVE  /\ at'[w] \in {"idle", "work"} /\ (at'[w] = "idle" => batch'[w] = <<>>)
         /\ \A v \in Workers \ {w} : at'[v] = at[v] /\ batch'[v] = batch[v]
<1>1. at \in [Workers -> Steps] /\ batch \in [Workers -> Seq(Payloads)]
  BY DEF TypeOK
<1>2. Len(batch[w]) = 1 => Tail(batch[w]) = <<>>  BY <1>1, TailElements
<1>3. /\ at' = [at EXCEPT ![w] = IF Len(batch[w]) = 1 THEN "idle" ELSE "work"]
      /\ batch' = [batch EXCEPT ![w] = Tail(batch[w])]
  BY DEF Left, Goes
<1> QED  BY <1>1, <1>2, <1>3

\* A step of w leaves the levels of the others.
LEMMA OthersFair ==
  ASSUME FairOK, NEW w \in Workers, LevelOK(w)', dry' \in [Workers -> SUBSET Keys],
         \A k \in Keys : \A p \in Elements(list'[k]) : KeyOf[p] = k,
         \A v \in Workers \ {w} : /\ at'[v] = at[v] /\ hand'[v] = hand[v]
                                  /\ pass'[v] = pass[v] /\ batch'[v] = batch[v]
                                  /\ dry'[v] = dry[v]
  PROVE  FairOK'
<1>1. ASSUME NEW v \in Workers \ {w} PROVE LevelOK(v)'
  <2>1. LevelOK(v)  BY <1>1 DEF FairOK
  <2>2. \A k \in Keys : Level(v, k)' = Level(v, k)  BY LevelSame
  <2> QED  BY <1>1, <2>1, <2>2 DEF LevelOK
<1> QED  BY <1>1 DEF FairOK

\* Where a claim goes on, with all keys level, it goes on level or ends clean.
LEMMA ClaimLevel ==
  ASSUME TypeOK, FairOK, NEW w \in Workers, NEW p \in SUBSET Keys, NEW h, NEW d \in SUBSET Keys,
         NEW b \in Seq(Payloads), Claim(w, p, h, b, d),
         at'[w] = "claim" => \A j, k \in Keys : j \notin d => Level(w, k)' <= Level(w, j)'
  PROVE  LevelOK(w)' /\ dry' \in [Workers -> SUBSET Keys]
         /\ \A v \in Workers \ {w} : pass'[v] = pass[v] /\ dry'[v] = dry[v]
<1>1. PICK step \in {"claim", "idle", "work"} :
        /\ at' = [at EXCEPT ![w] = step]
        /\ step = "claim" => dry' = [dry EXCEPT ![w] = d]
        /\ step # "claim" => dry' = [dry EXCEPT ![w] = {}] /\ pass' = [pass EXCEPT ![w] = {}]
        /\ step = "idle" => b = <<>>
  BY DEF Claim, Goes
<1>2. PICK q : pass' = [pass EXCEPT ![w] = q]  BY DEF Claim
<1>3. batch' = [batch EXCEPT ![w] = b]  BY DEF Claim
<1>4. /\ at \in [Workers -> Steps] /\ pass \in [Workers -> SUBSET Keys]
      /\ batch \in [Workers -> Seq(Payloads)] /\ dry \in [Workers -> SUBSET Keys]
  BY DEF TypeOK, FairOK
<1>5. at'[w] = step  BY <1>1, <1>4
<1>6. /\ dry' \in [Workers -> SUBSET Keys]
      /\ \A v \in Workers \ {w} : pass'[v] = pass[v] /\ dry'[v] = dry[v]
  BY <1>1, <1>2, <1>4
<1>7. CASE step = "claim"
  <2>1. dry'[w] = d  BY <1>1, <1>4, <1>7
  <2> QED  BY <1>5, <1>6, <1>7, <2>1 DEF LevelOK, Claiming
<1>8. CASE step # "claim"
  <2>1. dry'[w] = {} /\ pass'[w] = {} /\ (step = "idle" => batch'[w] = <<>>)
    BY <1>1, <1>3, <1>4, <1>8
  <2> QED  BY <1>1, <1>5, <1>6, <1>8, <2>1 DEF LevelOK, Claiming, Pruning
<1> QED  BY <1>7, <1>8

\* A pass raises every key that can still have something.
LEMMA StartPassFair ==
  ASSUME QueueOK, FairOK, NEW w \in Workers, StartPass(w)  PROVE FairOK'
<1>0. TypeOK /\ WorkerOK(w) /\ LevelOK(w)  BY DEF QueueOK, FairOK
<1>1. /\ at[w] \in {"idle", "claim"} /\ pass[w] = {}
      /\ Claim(w, active, FALSE, batch[w], dry[w] \cup (Keys \ active))
      /\ UNCHANGED <<list, hand>>
  BY DEF StartPass
<1>2. active \in SUBSET Keys /\ batch[w] \in Seq(Payloads) /\ dry[w] \in SUBSET Keys
  BY <1>0 DEF TypeOK, FairOK
<1>3. /\ \A v \in Workers \ {w} : at'[v] = at[v] /\ batch'[v] = batch[v]
  BY <1>0, <1>1, <1>2, ClaimFacts
<1>4. at'[w] = "claim" => pass'[w] = active /\ batch'[w] = batch[w]
  BY <1>0, <1>1 DEF Claim, Goes, TypeOK
<1>5. hand[w] = None  BY <1>0, <1>1 DEF WorkerOK, Moving
<1>6. \A k \in Keys : Share(w, k) \in Nat /\ Level(w, k) = Share(w, k)
  BY <1>0, <1>1, LevelType DEF Level
<1>7. \A j, k \in Keys : j \notin dry[w] => Share(w, k) <= Share(w, j)
  <2>1. CASE at[w] = "claim"  BY <1>0, <1>6, <2>1 DEF LevelOK, Claiming
  <2>2. CASE at[w] = "idle"
    <3>1. batch[w] = <<>>  BY <1>0, <2>2 DEF LevelOK, Claiming, Pruning
    <3>2. \A k \in Keys : Share(w, k) = 0
      <4>1. ASSUME NEW k \in Keys PROVE Claimed(batch[w], k) = 0
        <5>1. {i \in DOMAIN batch[w] : KeyOf[batch[w][i]] = k} = {}  BY <3>1
        <5> QED  BY <5>1, FS_EmptySet DEF Claimed
      <4> QED  BY <1>5, <4>1 DEF Share, Moved
    <3> QED  BY <3>2
  <2> QED  BY <1>1, <2>1, <2>2
<1>8. ASSUME at'[w] = "claim", NEW j \in Keys, NEW k \in Keys, j \notin dry[w] \cup (Keys \ active)
      PROVE  Level(w, k)' <= Level(w, j)'
  <2>1. \A i \in Keys : Share(w, i)' = Share(w, i)
    BY <1>1, <1>4, <1>8 DEF Share, Claimed, Moved
  <2>2. Level(w, j)' = Share(w, j) + 1  BY <1>4, <1>8, <2>1 DEF Level
  <2>3. Level(w, k)' = Share(w, k) \/ Level(w, k)' = Share(w, k) + 1
    BY <1>6, <2>1 DEF Level
  <2> QED  BY <1>6, <1>7, <1>8, <2>2, <2>3
<1>9. /\ LevelOK(w)' /\ dry' \in [Workers -> SUBSET Keys]
      /\ \A v \in Workers \ {w} : pass'[v] = pass[v] /\ dry'[v] = dry[v]
  BY <1>0, <1>1, <1>2, <1>8, ClaimLevel
<1> QED  BY <1>1, <1>3, <1>9, OthersFair DEF FairOK

\* A key's turn is over when it has nothing, or becomes the payload it gave.
LEMMA PopFair ==
  ASSUME QueueOK, FairOK, NEW w \in Workers, NEW k \in Keys, Pop(w, k)  PROVE FairOK'
<1>0. TypeOK /\ WorkerOK(w) /\ LevelOK(w)  BY DEF QueueOK, FairOK
<1>1. /\ at[w] = "claim" /\ k \in pass[w] /\ pass' = [pass EXCEPT ![w] = pass[w] \ {k}]
      /\ UNCHANGED batch
  BY DEF Pop
<1>2. hand[w] = None  BY <1>0, <1>1 DEF WorkerOK, Moving
<1>3. /\ pass'[w] = pass[w] \ {k}
      /\ \A v \in Workers \ {w} : pass'[v] = pass[v]
  BY <1>0, <1>1 DEF TypeOK
<1>4. \A j, i \in Keys : j \notin dry[w] => Level(w, i) <= Level(w, j)
  BY <1>0, <1>1 DEF LevelOK, Claiming
<1>5. \A i \in Keys : Claimed(batch[w], i)' = Claimed(batch[w], i)  BY <1>1 DEF Claimed
<1>6. \A i \in Keys : Level(w, i) = Claimed(batch[w], i) + (IF i \in pass[w] THEN 1 ELSE 0)
                      /\ Claimed(batch[w], i) \in Nat
  BY <1>0, <1>2, LevelType DEF Level, Share, Moved
<1>7. CASE Miss(w, k)
  <2>1. /\ dry' = [dry EXCEPT ![w] = dry[w] \cup {k}] /\ at' = [at EXCEPT ![w] = "prune"]
        /\ UNCHANGED <<list, hand>>
    BY <1>7 DEF Miss, Goes
  <2>2. dry' \in [Workers -> SUBSET Keys] /\ dry'[w] = dry[w] \cup {k} /\ at'[w] = "prune"
        /\ \A v \in Workers \ {w} : at'[v] = at[v] /\ dry'[v] = dry[v]
    BY <1>0, <2>1 DEF TypeOK, FairOK
  <2>3. \A i \in Keys : Level(w, i)' = Claimed(batch[w], i) + (IF i \in pass[w] \ {k} THEN 1 ELSE 0)
    BY <1>2, <1>3, <1>5, <1>6, <2>1 DEF Level, Share, Moved
  <2>4. \A i \in Keys : Level(w, i)' = Level(w, i) \/ (i = k /\ Level(w, i)' = Level(w, i) - 1)
    BY <1>1, <1>6, <2>3
  <2>5. \A j, i \in Keys : j \notin dry'[w] => Level(w, i)' <= Level(w, j)'
    BY <1>4, <1>6, <2>2, <2>4
  <2>6. LevelOK(w)'  BY <2>2, <2>5 DEF LevelOK, Claiming, Pruning
  <2> QED  BY <1>1, <1>3, <2>1, <2>2, <2>6, OthersFair DEF FairOK
<1>8. CASE ~Miss(w, k)
  <2>1. /\ list[k] # <<>> /\ hand' = [hand EXCEPT ![w] = Head(list[k])]
        /\ list' = [list EXCEPT ![k] = Tail(list[k])]
        /\ at' = [at EXCEPT ![w] = "record"] /\ dry' = dry
    BY <1>8 DEF Pop, Goes
  <2>2. Head(list[k]) \in Payloads /\ Head(list[k]) \in Elements(list[k])
        /\ Elements(Tail(list[k])) \subseteq Elements(list[k])
    BY <1>0, <2>1, TailElements DEF TypeOK
  <2>3. KeyOf[Head(list[k])] = k  BY <2>2 DEF FairOK
  <2>4. /\ hand'[w] = Head(list[k]) /\ at'[w] = "record"
        /\ \A v \in Workers \ {w} : hand'[v] = hand[v] /\ at'[v] = at[v]
    BY <1>0, <2>1 DEF TypeOK
  <2>5. \A i \in Keys : Moved(w, i)' = IF i = k THEN 1 ELSE 0
    BY <2>2, <2>3, <2>4, NoneAssumption DEF Moved
  <2>6. \A i \in Keys : Level(w, i)' = Level(w, i)
    BY <1>1, <1>3, <1>5, <1>6, <2>5 DEF Level, Share
  <2>7. LevelOK(w)'  BY <1>4, <2>1, <2>4, <2>6 DEF LevelOK, Claiming, Pruning
  <2>8. \A i \in Keys : \A p \in Elements(list'[i]) : KeyOf[p] = i
    BY <1>0, <2>1, <2>2 DEF TypeOK, FairOK
  <2> QED  BY <1>1, <1>3, <2>1, <2>4, <2>7, <2>8, OthersFair DEF FairOK
<1> QED  BY <1>7, <1>8

\* What is recorded was in the hand.
LEMMA RecordFair ==
  ASSUME QueueOK, FairOK, NEW w \in Workers, Record(w)  PROVE FairOK'
<1>0. TypeOK /\ WorkerOK(w) /\ LevelOK(w)  BY DEF QueueOK, FairOK
<1>1. /\ at[w] = "record" /\ hand' = [hand EXCEPT ![w] = None] /\ UNCHANGED list
      /\ Claim(w, pass[w], TRUE, Append(batch[w], hand[w]), dry[w])
  BY DEF Record
<1>2. /\ hand[w] \in Payloads /\ pass[w] \in SUBSET Keys /\ dry[w] \in SUBSET Keys
      /\ batch[w] \in Seq(Payloads)
  BY <1>0, <1>1 DEF TypeOK, WorkerOK, Moving, FairOK
<1>3. Append(batch[w], hand[w]) \in Seq(Payloads)  BY <1>2, AppendFacts
<1>4. \A v \in Workers \ {w} : at'[v] = at[v] /\ batch'[v] = batch[v]
  BY <1>0, <1>1, <1>2, <1>3, ClaimFacts
<1>5. hand'[w] = None /\ \A v \in Workers \ {w} : hand'[v] = hand[v]
  BY <1>0, <1>1 DEF TypeOK
<1>6. batch'[w] = Append(batch[w], hand[w])  BY <1>0, <1>1 DEF Claim, TypeOK
<1>7. ASSUME at'[w] = "claim", NEW k \in Keys  PROVE Level(w, k)' = Level(w, k)
  <2>1. pass'[w] = pass[w]  BY <1>0, <1>1, <1>7 DEF Claim, Goes, TypeOK
  <2>2. Claimed(batch[w], k)' = Claimed(batch[w], k) + Moved(w, k) /\ Claimed(batch[w], k) \in Nat
    <3>1. /\ Claimed(batch[w], k)' = Claimed(batch[w], k) + (IF KeyOf[hand[w]] = k THEN 1 ELSE 0)
          /\ Claimed(batch[w], k) \in Nat
      BY <1>2, <1>6, ClaimedFacts
    <3> QED  BY <1>2, <3>1, NoneAssumption DEF Moved
  <2>3. Moved(w, k)' = 0 /\ Moved(w, k) \in {0, 1}  BY <1>5 DEF Moved
  <2>4. Share(w, k)' = Share(w, k)  BY <2>2, <2>3 DEF Share
  <2> QED  BY <2>1, <2>4 DEF Level
<1>8. \A j, k \in Keys : j \notin dry[w] => Level(w, k) <= Level(w, j)
  BY <1>0, <1>1 DEF LevelOK, Claiming
<1>9. /\ LevelOK(w)' /\ dry' \in [Workers -> SUBSET Keys]
      /\ \A v \in Workers \ {w} : pass'[v] = pass[v] /\ dry'[v] = dry[v]
  <2>1. at'[w] = "claim" =>
          \A j, k \in Keys : j \notin dry[w] => Level(w, k)' <= Level(w, j)'
    BY <1>7, <1>8
  <2> QED  BY <1>0, <1>1, <1>2, <1>3, <2>1, ClaimLevel
<1>10. \A k \in Keys : \A p \in Elements(list'[k]) : KeyOf[p] = k  BY <1>1 DEF FairOK
<1> QED  BY <1>4, <1>5, <1>9, <1>10, OthersFair

\* A key that was pruned leaves the levels as they are.
LEMMA PrunedFair ==
  ASSUME QueueOK, FairOK, NEW w \in Workers, at[w] \in Pruning, Pruned(w), UNCHANGED <<list, hand>>
  PROVE  FairOK'
<1>0. TypeOK /\ LevelOK(w)  BY DEF QueueOK, FairOK
<1>1. Claim(w, pass[w], hit[w], batch[w], dry[w])  BY DEF Pruned
<1>2. pass[w] \in SUBSET Keys /\ batch[w] \in Seq(Payloads) /\ dry[w] \in SUBSET Keys
  BY <1>0 DEF TypeOK, FairOK
<1>3. \A v \in Workers \ {w} : at'[v] = at[v] /\ batch'[v] = batch[v]
  BY <1>0, <1>1, <1>2, ClaimFacts
<1>4. at'[w] = "claim" => pass'[w] = pass[w] /\ batch'[w] = batch[w]
  BY <1>0, <1>1 DEF Claim, Goes, TypeOK
<1>5. at'[w] = "claim" => \A k \in Keys : Level(w, k)' = Level(w, k)
  BY <1>4 DEF Level, Share, Claimed, Moved
<1>6. \A j, k \in Keys : j \notin dry[w] => Level(w, k) <= Level(w, j)
  BY <1>0 DEF LevelOK, Claiming
<1>7. /\ LevelOK(w)' /\ dry' \in [Workers -> SUBSET Keys]
      /\ \A v \in Workers \ {w} : pass'[v] = pass[v] /\ dry'[v] = dry[v]
  <2>1. at'[w] = "claim" =>
          \A j, k \in Keys : j \notin dry[w] => Level(w, k)' <= Level(w, j)'
    BY <1>5, <1>6
  <2> QED  BY <1>0, <1>1, <1>2, <2>1, ClaimLevel
<1>8. \A k \in Keys : \A p \in Elements(list'[k]) : KeyOf[p] = k  BY DEF FairOK
<1>9. \A v \in Workers \ {w} : hand'[v] = hand[v]  OBVIOUS
<1> QED  BY <1>3, <1>7, <1>8, <1>9, OthersFair

\* Steps out of a claim, and those in it that touch neither batch nor hand.
LEMMA CleanFair ==
  ASSUME QueueOK, FairOK, NEW w \in Workers, UNCHANGED <<pass, dry>>,
         at[w] \notin Claiming, at'[w] \notin Claiming,
         at'[w] \in {"work", "requeue"} \/ batch'[w] = <<>>,
         \A k \in Keys : \A p \in Elements(list'[k]) : KeyOf[p] = k,
         \A v \in Workers \ {w} : at'[v] = at[v] /\ hand'[v] = hand[v] /\ batch'[v] = batch[v]
  PROVE  FairOK'
<1>1. LevelOK(w)' /\ dry' \in [Workers -> SUBSET Keys]  BY DEF FairOK, LevelOK
<1> QED  BY <1>1, OthersFair

LEMMA FairStep == QueueOK /\ FairOK /\ [Next]_vars => FairOK'
<1> SUFFICES ASSUME QueueOK, FairOK, [Next]_vars  PROVE FairOK'  OBVIOUS
<1>0. TypeOK  BY DEF QueueOK
<1>1. ASSUME NEW p \in Payloads, NEW front \in BOOLEAN, Push(p, front)
      PROVE  \A k \in Keys : \A q \in Elements(list'[k]) : KeyOf[q] = k
  <2>1. /\ Elements(list'[KeyOf[p]]) = Elements(list[KeyOf[p]]) \cup {p}
        /\ \A k \in Keys \ {KeyOf[p]} : list'[k] = list[k]
    BY <1>0, <1>1, PushFacts
  <2> QED  BY <2>1, KeyAssumption DEF FairOK
<1>2. ASSUME NEW p \in Payloads, Send(p)  PROVE FairOK'
  <2>1. UNCHANGED <<at, hand, pass, batch, dry>>  BY <1>2 DEF Send, worker
  <2>2. \A k \in Keys : \A q \in Elements(list'[k]) : KeyOf[q] = k  BY <1>1, <1>2 DEF Send
  <2>3. \A w \in Workers : LevelOK(w)'
    BY <2>1, LevelSame DEF FairOK, LevelOK
  <2> QED  BY <2>1, <2>2, <2>3 DEF FairOK
<1>3. ASSUME UNCHANGED <<list, at, hand, pass, batch, dry>>  PROVE FairOK'
  <2>1. \A w \in Workers : LevelOK(w)'
    BY <1>3, LevelSame DEF FairOK, LevelOK
  <2> QED  BY <1>3, <2>1 DEF FairOK
<1>4. ASSUME NEW w \in Workers, Prune(w)  PROVE FairOK'
  <2>1. /\ at[w] = "prune" /\ at' = [at EXCEPT ![w] = "recheck"]
        /\ UNCHANGED <<list, hand, pass, batch, dry>>
    BY <1>4 DEF Prune, Goes
  <2>2. at'[w] = "recheck" /\ \A v \in Workers \ {w} : at'[v] = at[v]  BY <1>0, <2>1 DEF TypeOK
  <2>3. LevelOK(w)'  BY <2>1, <2>2, LevelSame DEF FairOK, LevelOK, Claiming, Pruning
  <2> QED  BY <2>1, <2>2, <2>3, OthersFair DEF FairOK
<1>5. ASSUME NEW w \in Workers, Recheck(w)  PROVE FairOK'
  <2>1. CASE list[key[w]] = <<>>
    BY <1>5, <2>1, PrunedFair DEF Recheck, Pruning
  <2>2. CASE list[key[w]] # <<>>
    <3>1. /\ at[w] = "recheck" /\ at' = [at EXCEPT ![w] = "readd"]
          /\ UNCHANGED <<list, hand, pass, batch, dry>>
      BY <1>5, <2>2 DEF Recheck, Goes
    <3>2. at'[w] = "readd" /\ \A v \in Workers \ {w} : at'[v] = at[v]  BY <1>0, <3>1 DEF TypeOK
    <3>3. LevelOK(w)'  BY <3>1, <3>2, LevelSame DEF FairOK, LevelOK, Claiming, Pruning
    <3> QED  BY <3>1, <3>2, <3>3, OthersFair DEF FairOK
  <2> QED  BY <2>1, <2>2
<1>6. ASSUME NEW w \in Workers, Readd(w)  PROVE FairOK'
  BY <1>6, PrunedFair DEF Readd, Pruning
<1>7. ASSUME NEW w \in Workers, Ack(w)  PROVE FairOK'
  <2>1. at[w] = "work" /\ Left(w) /\ UNCHANGED <<list, hand, pass, dry>>  BY <1>7 DEF Ack
  <2>2. /\ at'[w] \in {"idle", "work"} /\ (at'[w] = "idle" => batch'[w] = <<>>)
        /\ \A v \in Workers \ {w} : at'[v] = at[v] /\ batch'[v] = batch[v]
    BY <1>0, <2>1, LeftClean DEF QueueOK, WorkerOK
  <2> QED  BY <2>1, <2>2, CleanFair DEF Claiming, Pruning, FairOK
<1>8. ASSUME NEW w \in Workers, Nack(w)  PROVE FairOK'
  <2>1. /\ at[w] = "work" /\ at' = [at EXCEPT ![w] = "requeue"]
        /\ hand' = [hand EXCEPT ![w] = Head(batch[w])] /\ UNCHANGED <<list, pass, batch, dry>>
    BY <1>8 DEF Nack, Goes
  <2>2. at'[w] = "requeue" /\ \A v \in Workers \ {w} : at'[v] = at[v] /\ hand'[v] = hand[v]
    BY <1>0, <2>1 DEF TypeOK
  <2> QED  BY <2>1, <2>2, CleanFair DEF Claiming, Pruning, FairOK
<1>9. ASSUME NEW w \in Workers, Requeue(w)  PROVE FairOK'
  <2>1. /\ at[w] = "requeue" /\ Left(w) /\ Push(hand[w], TRUE) /\ UNCHANGED <<pass, dry>>
        /\ hand' = [hand EXCEPT ![w] = None]
    BY <1>9 DEF Requeue
  <2>2. /\ at'[w] \in {"idle", "work"} /\ (at'[w] = "idle" => batch'[w] = <<>>)
        /\ \A v \in Workers \ {w} : at'[v] = at[v] /\ batch'[v] = batch[v]
    BY <1>0, <2>1, LeftClean DEF QueueOK, WorkerOK
  <2>3. hand[w] \in Payloads  BY <2>1 DEF QueueOK, TypeOK, WorkerOK, Moving
  <2>4. \A v \in Workers \ {w} : hand'[v] = hand[v]  BY <1>0, <2>1 DEF TypeOK
  <2>5. \A k \in Keys : \A q \in Elements(list'[k]) : KeyOf[q] = k  BY <1>1, <2>1, <2>3
  <2> QED  BY <2>1, <2>2, <2>4, <2>5, CleanFair DEF Claiming, Pruning
<1>10. ASSUME NEW w \in Workers,
              Scan(w) \/ EndReclaim(w) \/ \E p \in Payloads : Reclaim(w, p)
       PROVE  FairOK'
  <2>1. /\ at[w] \in {"idle", "reclaim"} /\ UNCHANGED <<list, pass, batch, dry>>
        /\ \E step \in {"idle", "reclaim", "restore"} : at' = [at EXCEPT ![w] = step]
        /\ (hand' = hand \/ \E p \in Payloads : hand' = [hand EXCEPT ![w] = p])
    <3>1. CASE Scan(w)  BY <3>1 DEF Scan, Goes
    <3>2. CASE EndReclaim(w)  BY <3>2 DEF EndReclaim, Goes
    <3>3. ASSUME NEW p \in Payloads, Reclaim(w, p)
          PROVE  /\ at[w] \in {"idle", "reclaim"} /\ UNCHANGED <<list, pass, batch, dry>>
                 /\ \E step \in {"idle", "reclaim", "restore"} : at' = [at EXCEPT ![w] = step]
                 /\ (hand' = hand \/ \E q \in Payloads : hand' = [hand EXCEPT ![w] = q])
      <4>1. at = [at EXCEPT ![w] = at[w]]  BY <1>0 DEF TypeOK
      <4> QED  BY <3>3, <4>1 DEF Reclaim, Goes
    <3> QED  BY <1>10, <3>1, <3>2, <3>3
  <2>2. /\ at'[w] \in {"idle", "reclaim", "restore"}
        /\ \A v \in Workers \ {w} : at'[v] = at[v] /\ hand'[v] = hand[v]
    BY <1>0, <2>1 DEF TypeOK
  <2>3. batch[w] = <<>>  BY <2>1 DEF FairOK, LevelOK, Claiming, Pruning
  <2> QED  BY <2>1, <2>2, <2>3, CleanFair DEF Claiming, Pruning, FairOK
<1>11. ASSUME NEW w \in Workers, Restore(w)  PROVE FairOK'
  <2>1. /\ at[w] = "restore" /\ at' = [at EXCEPT ![w] = "reclaim"] /\ Push(hand[w], TRUE)
        /\ hand' = [hand EXCEPT ![w] = None] /\ UNCHANGED <<pass, batch, dry>>
    BY <1>11 DEF Restore, Goes
  <2>2. hand[w] \in Payloads  BY <2>1 DEF QueueOK, TypeOK, WorkerOK, Moving
  <2>3. at'[w] = "reclaim" /\ \A v \in Workers \ {w} : at'[v] = at[v] /\ hand'[v] = hand[v]
    BY <1>0, <2>1 DEF TypeOK
  <2>4. \A k \in Keys : \A q \in Elements(list'[k]) : KeyOf[q] = k  BY <1>1, <2>1, <2>2
  <2>5. batch[w] = <<>>  BY <2>1 DEF FairOK, LevelOK, Claiming, Pruning
  <2> QED  BY <2>1, <2>3, <2>4, <2>5, CleanFair DEF Claiming, Pruning
<1>12. ASSUME NEW w \in Workers, Die(w)  PROVE FairOK'
  <2>1. /\ at' = [at EXCEPT ![w] = "idle"] /\ hand' = [hand EXCEPT ![w] = None]
        /\ pass' = [pass EXCEPT ![w] = {}] /\ batch' = [batch EXCEPT ![w] = <<>>]
        /\ dry' = [dry EXCEPT ![w] = {}] /\ UNCHANGED list
    BY <1>12 DEF Die, Goes
  <2>2. /\ at'[w] = "idle" /\ pass'[w] = {} /\ batch'[w] = <<>> /\ dry'[w] = {}
        /\ dry' \in [Workers -> SUBSET Keys]
        /\ \A v \in Workers \ {w} : /\ at'[v] = at[v] /\ hand'[v] = hand[v]
                                    /\ pass'[v] = pass[v] /\ batch'[v] = batch[v]
                                    /\ dry'[v] = dry[v]
    BY <1>0, <2>1 DEF TypeOK, FairOK
  <2>3. LevelOK(w)'  BY <2>2 DEF LevelOK, Claiming, Pruning
  <2> QED  BY <2>1, <2>2, <2>3, OthersFair DEF FairOK
<1>13. ASSUME NEW p \in Payloads, Age(p)  PROVE FairOK'
  BY <1>3, <1>13 DEF Age, worker
<1>14. CASE UNCHANGED vars
  BY <1>3, <1>14 DEF vars, worker
<1> QED
  BY <1>2, <1>4, <1>5, <1>6, <1>7, <1>8, <1>9, <1>10, <1>11, <1>12, <1>13, <1>14,
     StartPassFair, PopFair, RecordFair DEF Next, Work

LEMMA InitFair == Init => FairOK
<1> SUFFICES ASSUME Init PROVE FairOK  OBVIOUS
<1>1. \A w \in Workers : LevelOK(w)
  BY DEF Init, LevelOK, Claiming, Pruning
<1>2. \A k \in Keys : \A p \in Elements(list[k]) : KeyOf[p] = k
  BY BacklogAssumption DEF Init, Elements
<1> QED  BY <1>1, <1>2 DEF Init, FairOK

\* However many workers claim, die, nack and reclaim in between, one receive takes
\* from a key once more than from another only if that one had its turn or had
\* nothing (_claim_batch, redis_queue.py:141-159).
THEOREM SharesAreFair == Spec => []FairShare
<1>1. QueueOK /\ FairOK => FairShare
  <2> SUFFICES ASSUME TypeOK, NEW w \in Workers, LevelOK(w), at[w] \in Claiming,
                      NEW j \in Keys, NEW k \in Keys, j \notin dry[w]
               PROVE  Share(w, k) <= Share(w, j) + 1
    BY DEF QueueOK, FairOK, FairShare, Claiming
  <2>1. Level(w, k) <= Level(w, j)  BY DEF LevelOK
  <2>2. Share(w, k) \in Nat /\ Share(w, j) \in Nat  BY LevelType
  <2> QED  BY <2>1, <2>2 DEF Level
<1>2. Init => QueueOK /\ FairOK  BY InitQueueOK, InitFair
<1>3. QueueOK /\ [Next]_vars => QueueOK'  BY QueueStep
<1>4. QueueOK /\ FairOK /\ [Next]_vars => FairOK'  BY FairStep
<1> QED  BY <1>1, <1>2, <1>3, <1>4, PTL DEF Spec
=============================================================================
