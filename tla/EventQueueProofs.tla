-------------------------- MODULE EventQueueProofs --------------------------
(***************************************************************************)
(* Proofs about the event queue of ScheduledTasks: for any number of       *)
(* events, any size of the queue and any number of attempts, also across   *)
(* crashes, no event is lost sight of and the order of arrival is kept.    *)
(***************************************************************************)
EXTENDS ScheduledTasksProofs, SequenceTheorems

-----------------------------------------------------------------------------
(***************************************************************************)
(* Sequences of events in the order of arrival                             *)
(***************************************************************************)

Increasing(s) == \A i, j \in DOMAIN s : i < j => s[i] < s[j]

\* Every event of s came before every event of t.
Precedes(s, t) == \A x \in Elements(s), y \in Elements(t) : x < y

LEMMA NoEvents ==
  Increasing(<<>>) /\ Elements(<<>>) = {} /\ DOMAIN <<>> = {} /\ <<>> \in Seq(Nat)
<1>1. <<>> \in Seq(Nat) /\ Len(<<>>) = 0
  BY EmptySeq, Zenon
<1>2. DOMAIN <<>> = 1..0
  BY <1>1, LenProperties, Zenon
<1>3. DOMAIN <<>> = {}
  BY <1>2
<1>4. QED
  BY <1>1, <1>3 DEF Increasing, Elements

\* One event by itself.
LEMMA OneEvent ==
  ASSUME NEW n \in Nat
  PROVE  Increasing(<<n>>) /\ Elements(<<n>>) = {n} /\ <<n>> \in Seq(Nat)
<1>1. DOMAIN <<n>> = {1} /\ <<n>>[1] = n /\ <<n>> \in Seq(Nat)
  OBVIOUS
<1>2. QED
  BY <1>1 DEF Increasing, Elements

\* A later event is added at the end.
LEMMA Appended ==
  ASSUME NEW s \in Seq(Nat), NEW n \in Nat
  PROVE  /\ Append(s, n) \in Seq(Nat)
         /\ Elements(Append(s, n)) = Elements(s) \cup {n}
         /\ Increasing(s) /\ (\A x \in Elements(s) : x < n) => Increasing(Append(s, n))
<1>0. /\ Append(s, n) \in Seq(Nat)
      /\ Append(s, n) # <<>>
      /\ Len(Append(s, n)) = Len(s) + 1
      /\ \A i \in 1..Len(s) : Append(s, n)[i] = s[i]
      /\ Append(s, n)[Len(s) + 1] = n
  BY AppendProperties, Zenon
<1> DEFINE t == Append(s, n)
<1>1. /\ t \in Seq(Nat)
      /\ Len(t) = Len(s) + 1
      /\ \A i \in 1..Len(s) : t[i] = s[i]
      /\ t[Len(s) + 1] = n
  BY <1>0
<1> HIDE DEF t
<1>2. DOMAIN s = 1..Len(s) /\ DOMAIN t = 1..Len(t) /\ Len(s) \in Nat
  BY <1>1, LenProperties, Zenon
<1>3. DOMAIN t = DOMAIN s \cup {Len(s) + 1}
  BY <1>1, <1>2
<1>4. Elements(t) = Elements(s) \cup {n}
  BY <1>1, <1>2, <1>3 DEF Elements
<1>5. ASSUME Increasing(s), \A x \in Elements(s) : x < n PROVE Increasing(t)
  <2>1. SUFFICES ASSUME NEW i \in DOMAIN t, NEW j \in DOMAIN t, i < j PROVE t[i] < t[j]
    BY DEF Increasing
  <2>2. i \in DOMAIN s /\ t[i] = s[i] /\ s[i] \in Elements(s)
    BY <1>1, <1>2, <1>3, <2>1 DEF Elements
  <2>3. CASE j \in DOMAIN s
    BY <1>1, <1>2, <1>5, <2>1, <2>2, <2>3 DEF Increasing
  <2>4. CASE j = Len(s) + 1
    BY <1>1, <1>5, <2>2, <2>4
  <2>5. QED
    BY <1>3, <2>3, <2>4
<1>6. QED
  BY <1>1, <1>4, <1>5 DEF t

\* The oldest make room.
LEMMA OldestGone ==
  ASSUME NEW s \in Seq(Nat), NEW k \in 0..Len(s), NEW m \in Nat, m = k + 1
  PROVE  /\ SubSeq(s, m, Len(s)) \in Seq(Nat)
         /\ Elements(s) = {s[i] : i \in 1..k} \cup Elements(SubSeq(s, m, Len(s)))
         /\ Increasing(s) => Increasing(SubSeq(s, m, Len(s)))
<1>1. Len(s) \in Nat /\ DOMAIN s = 1..Len(s)
  BY LenProperties, Zenon
<1>2. \A i \in DOMAIN s : s[i] \in Nat
  BY <1>1, ElementOfSeq
<1>3. m \in Int /\ Len(s) \in Int /\ \A i \in m .. Len(s) : s[i] \in Nat
  BY <1>1, <1>2
<1>4. /\ SubSeq(s, m, Len(s)) \in Seq(Nat)
      /\ Len(SubSeq(s, m, Len(s))) = IF m <= Len(s) THEN Len(s) - m + 1 ELSE 0
      /\ \A i \in 1 .. Len(s) - m + 1 : SubSeq(s, m, Len(s))[i] = s[m + i - 1]
  BY <1>3, SubSeqProperties
<1> DEFINE t == SubSeq(s, m, Len(s))
<1>5. t \in Seq(Nat) /\ DOMAIN t = 1..Len(t)
  BY <1>4, LenProperties, Zenon
<1>6. Len(t) = Len(s) - k
  <2>1. Len(t) = IF m <= Len(s) THEN Len(s) - m + 1 ELSE 0
    BY <1>4
  <2> HIDE DEF t
  <2>2. Len(s) \in Nat /\ k \in 0..Len(s)
    BY <1>1
  <2>3. m <= Len(s) => Len(t) = Len(s) - k
    BY <2>1, <2>2
  <2>4. ~(m <= Len(s)) => k = Len(s) /\ Len(t) = 0
    BY <2>1, <2>2
  <2>5. QED
    BY <2>2, <2>3, <2>4
<1>7. \A i \in 1..(Len(s) - k) : k + i \in DOMAIN s /\ t[i] = s[k + i]
  <2> SUFFICES ASSUME NEW i \in 1..(Len(s) - k) PROVE k + i \in DOMAIN s /\ t[i] = s[k + i]
    OBVIOUS
  <2>1. k + i = m + i - 1 /\ k + i \in DOMAIN s /\ i \in 1 .. Len(s) - m + 1
    BY <1>1
  <2>2. t[i] = s[m + i - 1]
    BY <1>4, <2>1
  <2>3. QED
    BY <2>1, <2>2
<1> HIDE DEF t
<1>8. DOMAIN t = 1..(Len(s) - k)
  BY <1>5, <1>6
<1>9. Elements(s) = {s[i] : i \in 1..k} \cup Elements(t)
  <2>1. \A i \in DOMAIN s : i \in 1..k \/ (i - k \in DOMAIN t /\ t[i - k] = s[i])
    <3> SUFFICES ASSUME NEW i \in DOMAIN s, i \notin 1..k
                 PROVE  i - k \in DOMAIN t /\ t[i - k] = s[i]
      OBVIOUS
    <3>1. i - k \in 1..(Len(s) - k) /\ k + (i - k) = i
      BY <1>1
    <3>2. QED
      BY <1>7, <1>8, <3>1
  <2>2. 1..k \subseteq DOMAIN s
    BY <1>1
  <2>3. Elements(s) \subseteq {s[i] : i \in 1..k} \cup Elements(t)
    BY <2>1 DEF Elements
  <2>4. {s[i] : i \in 1..k} \cup Elements(t) \subseteq Elements(s)
    BY <1>7, <1>8, <2>2 DEF Elements
  <2>5. QED
    BY <2>3, <2>4
<1>10. Increasing(s) => Increasing(t)
  <2> SUFFICES ASSUME Increasing(s), NEW i \in DOMAIN t, NEW j \in DOMAIN t, i < j
               PROVE  t[i] < t[j]
    BY DEF Increasing
  <2>1. k + i < k + j
    BY <1>1, <1>8
  <2>2. QED
    BY <1>7, <1>8, <2>1 DEF Increasing
<1>11. QED
  BY <1>5, <1>9, <1>10 DEF t

\* The first is taken.
LEMMA FirstTaken ==
  ASSUME NEW s \in Seq(Nat), s # <<>>
  PROVE  /\ Head(s) \in Nat /\ Tail(s) \in Seq(Nat)
         /\ Elements(s) = {Head(s)} \cup Elements(Tail(s))
         /\ Increasing(s) => /\ Increasing(Tail(s))
                             /\ \A y \in Elements(Tail(s)) : Head(s) < y
<1>1. Len(s) \in Nat \ {0} /\ DOMAIN s = 1..Len(s)
  BY EmptySeq, LenProperties, Zenon
<1>2. Head(s) \in Nat /\ Tail(s) = SubSeq(s, 2, Len(s))
  BY HeadTailProperties, TailIsSubSeq, Zenon
<1>3. Head(s) = s[1]
  OBVIOUS
<1>4. /\ Tail(s) \in Seq(Nat)
      /\ Len(Tail(s)) = Len(s) - 1
      /\ \A i \in 1 .. Len(Tail(s)) : Tail(s)[i] = s[i + 1]
  BY HeadTailProperties, Zenon
<1>5. 1 \in 0..Len(s) /\ 2 \in Nat /\ 2 = 1 + 1
  BY <1>1
<1>6. /\ Elements(s) = {s[i] : i \in 1..1} \cup Elements(Tail(s))
      /\ Increasing(s) => Increasing(Tail(s))
  <2>1. /\ Elements(s) = {s[i] : i \in 1..1} \cup Elements(SubSeq(s, 2, Len(s)))
        /\ Increasing(s) => Increasing(SubSeq(s, 2, Len(s)))
    BY <1>5, OldestGone, Zenon
  <2>2. QED
    BY <1>2, <2>1, Zenon
<1>7. Elements(s) = {Head(s)} \cup Elements(Tail(s))
  <2>1. {s[i] : i \in 1..1} = {s[1]}
    OBVIOUS
  <2>2. QED
    BY <1>3, <1>6, <2>1
<1>8. DOMAIN Tail(s) = 1..Len(Tail(s))
  BY <1>4, LenProperties, Zenon
<1>9. ASSUME Increasing(s), NEW y \in Elements(Tail(s)) PROVE Head(s) < y
  <2>1. PICK i \in DOMAIN Tail(s) : y = Tail(s)[i]
    BY <1>9 DEF Elements
  <2>2. y = s[i + 1] /\ 1 \in DOMAIN s /\ i + 1 \in DOMAIN s /\ 1 < i + 1
    BY <1>1, <1>4, <1>8, <2>1
  <2>3. QED
    BY <1>3, <1>9, <2>2 DEF Increasing
<1>10. QED
  BY <1>2, <1>4, <1>6, <1>7, <1>9

\* Two sequences, one after the other.
LEMMA Joined ==
  ASSUME NEW s \in Seq(Nat), NEW t \in Seq(Nat)
  PROVE  /\ s \o t \in Seq(Nat)
         /\ Elements(s \o t) = Elements(s) \cup Elements(t)
         /\ Increasing(s) /\ Increasing(t) /\ Precedes(s, t) => Increasing(s \o t)
<1> DEFINE u == s \o t
<1>1. /\ u \in Seq(Nat)
      /\ Len(u) = Len(s) + Len(t)
      /\ \A i \in 1 .. Len(s) + Len(t) : u[i] = IF i <= Len(s) THEN s[i] ELSE t[i - Len(s)]
  BY ConcatProperties, Zenon
<1> HIDE DEF u
<1>2. /\ DOMAIN s = 1..Len(s) /\ DOMAIN t = 1..Len(t) /\ DOMAIN u = 1..Len(u)
      /\ Len(s) \in Nat /\ Len(t) \in Nat
  BY <1>1, LenProperties, Zenon
<1>3. \A i \in DOMAIN u :
        IF i \in DOMAIN s THEN u[i] = s[i]
        ELSE i > Len(s) /\ i - Len(s) \in DOMAIN t /\ u[i] = t[i - Len(s)]
  BY <1>1, <1>2
<1>4. /\ \A i \in DOMAIN s : i \in DOMAIN u
      /\ \A i \in DOMAIN t : i + Len(s) \in DOMAIN u /\ i + Len(s) \notin DOMAIN s
                             /\ (i + Len(s)) - Len(s) = i
  <2> DEFINE m == Len(s)
  <2> DEFINE n == Len(t)
  <2>1. /\ m \in Nat /\ n \in Nat
        /\ DOMAIN s = 1..m /\ DOMAIN t = 1..n /\ DOMAIN u = 1..(m + n)
    BY <1>1, <1>2, Zenon
  <2> HIDE DEF m, n
  <2>2. /\ \A i \in 1..m : i \in 1..(m + n)
        /\ \A i \in 1..n : i + m \in 1..(m + n) /\ i + m \notin 1..m /\ (i + m) - m = i
    BY <2>1
  <2>3. QED
    BY <2>1, <2>2, Zenon DEF m
<1>5. Elements(u) = Elements(s) \cup Elements(t)
  <2>1. Elements(u) \subseteq Elements(s) \cup Elements(t)
    BY <1>3 DEF Elements
  <2>2. Elements(s) \subseteq Elements(u)
    BY <1>3, <1>4 DEF Elements
  <2>3. Elements(t) \subseteq Elements(u)
    <3>1. \A i \in DOMAIN t : u[i + Len(s)] = t[i]
      BY <1>3, <1>4
    <3>2. QED
      BY <1>4, <3>1 DEF Elements
  <2>4. QED
    BY <2>1, <2>2, <2>3
<1>6. ASSUME Increasing(s), Increasing(t), Precedes(s, t) PROVE Increasing(u)
  <2> SUFFICES ASSUME NEW i \in DOMAIN u, NEW j \in DOMAIN u, i < j PROVE u[i] < u[j]
    BY DEF Increasing
  <2>1. CASE i \in DOMAIN s /\ j \in DOMAIN s
    BY <1>3, <1>6, <2>1 DEF Increasing
  <2>2. CASE i \in DOMAIN s /\ j \notin DOMAIN s
    <3>1. u[i] \in Elements(s) /\ u[j] \in Elements(t)
      BY <1>3, <2>2 DEF Elements
    <3>2. QED
      BY <1>6, <3>1 DEF Precedes
  <2>3. CASE i \notin DOMAIN s
    <3>1. j \notin DOMAIN s
      BY <1>1, <1>2, <2>3
    <3>2. i - Len(s) < j - Len(s)
      BY <1>2
    <3>3. QED
      BY <1>3, <1>6, <2>3, <3>1, <3>2 DEF Increasing
  <2>4. QED
    BY <2>1, <2>2, <2>3
<1>7. QED
  BY <1>1, <1>5, <1>6 DEF u

-----------------------------------------------------------------------------
(***************************************************************************)
(* The inductive invariant                                                 *)
(***************************************************************************)

\* The event that the drain goroutine has still to fire.
Hand == IF drain.pc \in {"fire", "claiming"} THEN {drain.event} ELSE {}

\* Nothing is lost sight of, and nothing waits without a drain goroutine.
KeptInv ==
  /\ 1..accepted = Elements(fired) \cup Hand \cup Elements(queue) \cup dropped
  /\ queue # <<>> => Draining

\* What was fired, what is in hand and what waits came in this order.
OrderInv ==
  /\ Increasing(fired) /\ Increasing(queue)
  /\ \A x \in Elements(fired), y \in Elements(queue) : x < y
  /\ \A x \in Elements(fired), h \in Hand : x < h
  /\ \A h \in Hand, y \in Elements(queue) : h < y

QueueInv == QueueTypeOK /\ KeptInv /\ OrderInv

-----------------------------------------------------------------------------
(***************************************************************************)
(* One step of the queue                                                   *)
(***************************************************************************)

\* The next number is later than everything that is known.
LEMMA NextIsLatest ==
  ASSUME QueueTypeOK, KeptInv
  PROVE  /\ accepted + 1 \in Nat /\ 1..(accepted + 1) = 1..accepted \cup {accepted + 1}
         /\ \A x \in Elements(fired) \cup Hand \cup Elements(queue) : x < accepted + 1
<1>1. accepted \in Nat
  BY DEF QueueTypeOK
<1>2. accepted + 1 \in Nat /\ 1..(accepted + 1) = 1..accepted \cup {accepted + 1}
  BY <1>1
<1>3. \A x \in 1..accepted : x < accepted + 1
  BY <1>1
<1>4. QED
  BY <1>2, <1>3 DEF KeptInv

LEMMA EnqueueKeeps == ASSUME QueueInv, Enqueue PROVE KeptInv' /\ OrderInv'
<1> USE DEF QueueInv
<1> DEFINE q == Append(queue, accepted + 1)
           over == IF Len(q) > MaxQueue THEN Len(q) - MaxQueue ELSE 0
           gone == {q[i] : i \in 1..over}
<1>1. /\ queue' = SubSeq(q, over + 1, Len(q)) /\ dropped' = dropped \cup gone
      /\ accepted' = accepted + 1 /\ drain' = drain /\ fired' = fired /\ Draining
  BY DEF Enqueue
<1>2. queue \in Seq(Nat) /\ accepted + 1 \in Nat
  BY NextIsLatest DEF QueueTypeOK
<1>3. /\ q \in Seq(Nat)
      /\ Elements(q) = Elements(queue) \cup {accepted + 1}
      /\ Increasing(queue) /\ (\A x \in Elements(queue) : x < accepted + 1) => Increasing(q)
  BY <1>2, Appended
<1>4. Increasing(q)
  BY <1>3, NextIsLatest DEF OrderInv
<1> HIDE DEF q
<1>5. Len(q) \in Nat
  BY <1>3, LenProperties, Zenon
<1>6. over \in 0..Len(q) /\ over + 1 \in Nat
  BY <1>5, QueueAssumption
<1> HIDE DEF over
<1>7. Elements(q) = gone \cup Elements(queue') /\ (Increasing(q) => Increasing(queue'))
  BY <1>1, <1>3, <1>6, OldestGone
<1> HIDE DEF gone
<1>8. Hand' = Hand
  BY <1>1 DEF Hand
<1>9. Elements(queue') \subseteq Elements(queue) \cup {accepted + 1}
  BY <1>3, <1>7
<1>10. KeptInv'
  <2>1. 1..accepted' = Elements(fired) \cup Hand \cup Elements(queue) \cup dropped \cup {accepted + 1}
    BY <1>1, NextIsLatest DEF KeptInv
  <2>2. 1..accepted' = Elements(fired') \cup Hand' \cup Elements(queue') \cup dropped'
    BY <1>1, <1>3, <1>7, <1>8, <2>1
  <2>3. QED
    BY <1>1, <2>2 DEF KeptInv, Draining
<1>11. OrderInv'
  <2>1. Increasing(fired') /\ Increasing(queue')
    BY <1>1, <1>4, <1>7 DEF OrderInv
  <2>2. \A x \in Elements(fired) \cup Hand, y \in Elements(queue') : x < y
    BY <1>9, NextIsLatest DEF OrderInv
  <2>3. QED
    BY <1>1, <1>8, <2>1, <2>2 DEF OrderInv
<1>12. QED
  BY <1>10, <1>11

\* The first event of a drain goroutine: nothing waits.
LEMMA StartDrainKeeps == ASSUME QueueInv, StartDrain PROVE KeptInv' /\ OrderInv'
<1> USE DEF QueueInv
<1>1. /\ accepted' = accepted + 1 /\ queue' = queue /\ fired' = fired /\ dropped' = dropped
      /\ drain'.pc = "fire" /\ drain'.event = accepted + 1
      /\ drain.pc = "idle"
  BY DEF StartDrain, Draining
<1>2. queue = <<>> /\ Elements(queue) = {}
  BY <1>1, NoEvents DEF KeptInv, Draining
<1>3. Hand = {} /\ Hand' = {accepted + 1}
  BY <1>1 DEF Hand
<1>4. 1..accepted' = Elements(fired) \cup {accepted + 1} \cup Elements(queue) \cup dropped
  BY <1>1, <1>3, NextIsLatest DEF KeptInv
<1>5. KeptInv'
  BY <1>1, <1>2, <1>3, <1>4 DEF KeptInv
<1>6. OrderInv'
  BY <1>1, <1>2, <1>3, NextIsLatest DEF OrderInv
<1>7. QED
  BY <1>5, <1>6

\* The event in hand stays there, is given up, or was fired before.
LEMMA HandKeeps ==
  ASSUME QueueInv, FireNothing \/ FireRead \/ FireReturns \/ FireBusy
  PROVE  KeptInv' /\ OrderInv'
<1> USE DEF QueueInv
<1>1. drain \in [pc : {"idle", "fire", "claiming", "executing", "next"}, event : Nat, attempts : Nat]
  BY DEF QueueTypeOK
<1>2. accepted' = accepted /\ queue' = queue /\ fired' = fired
  BY DEF FireNothing, FireRead, FireReturns, FireBusy
<1>3. drain'.pc # "idle" /\ Hand' \subseteq Hand /\ dropped' \cup Hand' = dropped \cup Hand
  <2>1. CASE FireNothing
    BY <1>1, <2>1 DEF FireNothing, Hand
  <2>2. CASE FireRead
    BY <1>1, <2>2 DEF FireRead, Hand
  <2>3. CASE FireReturns
    BY <1>1, <2>3 DEF FireReturns, Hand
  <2>4. CASE FireBusy
    <3>1. drain.pc = "claiming" /\ drain' \in {[drain EXCEPT !.pc = "next"],
            [drain EXCEPT !.pc = "fire", !.attempts = @ + 1]}
      BY <2>4 DEF FireBusy
    <3>2. CASE drain' = [drain EXCEPT !.pc = "next"] /\ dropped' = dropped \cup {drain.event}
      BY <1>1, <3>1, <3>2 DEF Hand
    <3>3. CASE drain' = [drain EXCEPT !.pc = "fire", !.attempts = @ + 1] /\ dropped' = dropped
      <4>1. drain'.pc = "fire" /\ drain'.event = drain.event
        BY <1>1, <3>3
      <4>2. QED
        BY <3>1, <3>3, <4>1 DEF Hand
    <3>4. QED
      BY <2>4, <3>2, <3>3 DEF FireBusy
  <2>5. QED
    BY <2>1, <2>2, <2>3, <2>4
<1>4. KeptInv'
  <2>1. 1..accepted' = Elements(fired') \cup Hand' \cup Elements(queue') \cup dropped'
    BY <1>2, <1>3 DEF KeptInv
  <2>2. QED
    BY <1>3, <2>1 DEF KeptInv, Draining
<1>5. OrderInv'
  BY <1>2, <1>3 DEF OrderInv
<1>6. QED
  BY <1>4, <1>5

\* The event in hand is the latest that was fired, and nothing older waits.
LEMMA FireBeginsKeeps == ASSUME QueueInv, FireBegins PROVE KeptInv' /\ OrderInv'
<1> USE DEF QueueInv
<1>1. drain \in [pc : {"idle", "fire", "claiming", "executing", "next"}, event : Nat, attempts : Nat]
  BY DEF QueueTypeOK
<1>2. /\ accepted' = accepted /\ queue' = queue /\ dropped' = dropped
      /\ fired' = Append(fired, drain.event)
      /\ drain.pc = "claiming" /\ drain'.pc = "executing"
  BY <1>1 DEF FireBegins
<1>3. Hand = {drain.event} /\ Hand' = {}
  BY <1>2 DEF Hand
<1>4. fired \in Seq(Nat) /\ drain.event \in Nat
  BY <1>1 DEF QueueTypeOK
<1>5. /\ Elements(fired') = Elements(fired) \cup Hand
      /\ Increasing(fired) /\ (\A x \in Elements(fired) : x < drain.event) => Increasing(fired')
  BY <1>2, <1>3, <1>4, Appended
<1>6. KeptInv'
  <2>1. 1..accepted' = Elements(fired') \cup Hand' \cup Elements(queue') \cup dropped'
    BY <1>2, <1>3, <1>5 DEF KeptInv
  <2>2. QED
    BY <1>2, <2>1 DEF KeptInv, Draining
<1>7. OrderInv'
  BY <1>2, <1>3, <1>5 DEF OrderInv
<1>8. QED
  BY <1>6, <1>7

\* The first of those that wait is taken, or the goroutine ends with none left.
LEMMA DrainNextKeeps == ASSUME QueueInv, DrainNext PROVE KeptInv' /\ OrderInv'
<1> USE DEF QueueInv
<1>1. accepted' = accepted /\ fired' = fired /\ dropped' = dropped /\ Hand = {}
  BY DEF DrainNext, Hand
<1>2. CASE queue = <<>>
  <2>1. queue' = queue /\ drain'.pc = "idle" /\ Hand' = {}
    BY <1>2 DEF DrainNext, NoDrain, Hand
  <2>2. KeptInv'
    BY <1>1, <1>2, <2>1 DEF KeptInv
  <2>3. OrderInv'
    BY <1>1, <2>1 DEF OrderInv
  <2>4. QED
    BY <2>2, <2>3
<1>3. CASE queue # <<>>
  <2>1. queue' = Tail(queue) /\ drain' = [pc |-> "fire", event |-> Head(queue), attempts |-> 0]
    BY <1>3 DEF DrainNext
  <2>2. Hand' = {Head(queue)} /\ drain'.pc = "fire"
    BY <2>1 DEF Hand
  <2>3. queue \in Seq(Nat)
    BY DEF QueueTypeOK
  <2>4. /\ Elements(queue) = {Head(queue)} \cup Elements(queue')
        /\ Increasing(queue) => /\ Increasing(queue')
                                /\ \A y \in Elements(queue') : Head(queue) < y
    BY <1>3, <2>1, <2>3, FirstTaken
  <2>5. KeptInv'
    <3>1. 1..accepted' = Elements(fired') \cup Hand' \cup Elements(queue') \cup dropped'
      BY <1>1, <2>2, <2>4 DEF KeptInv
    <3>2. QED
      BY <2>2, <3>1 DEF KeptInv, Draining
  <2>6. OrderInv'
    BY <1>1, <2>2, <2>4 DEF OrderInv
  <2>7. QED
    BY <2>5, <2>6
<1>4. QED
  BY <1>2, <1>3

\* A dead process gives up what it had in memory.
LEMMA QueueLostKeeps == ASSUME QueueInv, QueueLost PROVE KeptInv' /\ OrderInv'
<1> USE DEF QueueInv
<1>1. /\ accepted' = accepted /\ fired' = fired /\ queue' = <<>> /\ drain' = NoDrain
      /\ dropped' = dropped \cup Elements(queue) \cup Hand
  BY DEF QueueLost, Elements, Hand
<1>2. Hand' = {} /\ Elements(queue') = {} /\ Increasing(queue')
  BY <1>1, NoEvents DEF Hand, NoDrain
<1>3. KeptInv'
  <2>1. 1..accepted' = Elements(fired') \cup Hand' \cup Elements(queue') \cup dropped'
    BY <1>1, <1>2 DEF KeptInv
  <2>2. QED
    BY <1>1, <2>1 DEF KeptInv
<1>4. OrderInv'
  BY <1>1, <1>2 DEF OrderInv
<1>5. QED
  BY <1>3, <1>4

-----------------------------------------------------------------------------
(***************************************************************************)
(* The whole                                                               *)
(***************************************************************************)

QueueSteps ==
  \/ Enqueue \/ StartDrain \/ FireNothing \/ FireRead \/ FireBegins \/ FireReturns
  \/ FireBusy \/ DrainNext \/ QueueLost \/ UNCHANGED queueVars

\* Whatever happens to the task, the queue takes one of its own steps.
LEMMA StepsOfTheQueue == ASSUME [Next]_vars PROVE QueueSteps
<1>1. CASE UNCHANGED vars
  BY <1>1 DEF vars, QueueSteps
<1>2. CASE Crash \/ Restart
  BY <1>2 DEF Crash, Restart, QueueSteps
<1>3. CASE (Requests \/ Cancels) /\ UNCHANGED <<execVars, queueVars>>
  BY <1>3 DEF QueueSteps
<1>4. CASE EventArrives \/ EventNext \/ EventGone
  BY <1>4 DEF EventArrives, EventNext, EventGone, QueueSteps
<1>5. CASE Triggers
  BY <1>5 DEF Triggers, Tick, Manual, Mail, EventRead, EventBegins, EventBusy, EventReturns,
              TriggerRefused, ExecStep, QueueSteps
<1>6. QED
  BY <1>1, <1>2, <1>3, <1>4, <1>5 DEF Next

LEMMA QueueInitInv == ASSUME Init PROVE QueueInv
<1>1. QueueTypeOK
  BY InitInv DEF IInv, TypeOK
<1>2. /\ accepted = 0 /\ queue = <<>> /\ fired = <<>> /\ dropped = {} /\ drain = NoDrain
  BY DEF Init, QueueInit
<1>3. Hand = {} /\ Elements(queue) = {} /\ Elements(fired) = {} /\ 1..0 = {}
      /\ Increasing(queue) /\ Increasing(fired)
  BY <1>2, NoEvents DEF Hand, NoDrain
<1>4. QED
  BY <1>1, <1>2, <1>3 DEF QueueInv, KeptInv, OrderInv

LEMMA QueueNextInv == ASSUME QueueInv, [Next]_vars PROVE QueueInv'
<1>1. QueueSteps
  BY StepsOfTheQueue
<1>2. QueueTypeOK'
  BY <1>1, QueueTyped DEF QueueInv, QueueSteps
<1>3. KeptInv' /\ OrderInv'
  <2>1. CASE UNCHANGED queueVars
    BY <2>1 DEF QueueInv, queueVars, KeptInv, OrderInv, Hand, Draining
  <2>2. QED
    BY <1>1, <2>1, EnqueueKeeps, StartDrainKeeps, HandKeeps, FireBeginsKeeps, DrainNextKeeps,
       QueueLostKeeps DEF QueueSteps
<1>4. QED
  BY <1>2, <1>3 DEF QueueInv

LEMMA AlwaysQueueInv == Spec => []QueueInv
  BY QueueInitInv, QueueNextInv, PTL DEF Spec

\* What is in hand, as a sequence.
LEMMA HandIsInHand ==
  ASSUME QueueTypeOK
  PROVE  InHand \in Seq(Nat) /\ Elements(InHand) = Hand /\ Increasing(InHand)
<1>1. drain.event \in Nat
  BY DEF QueueTypeOK
<1>2. CASE drain.pc \in {"fire", "claiming"}
  BY <1>1, <1>2, OneEvent DEF InHand, Hand
<1>3. CASE drain.pc \notin {"fire", "claiming"}
  BY <1>3, NoEvents DEF InHand, Hand
<1>4. QED
  BY <1>2, <1>3

\* However many events arrive, and wherever a crash finds them, each is waiting,
\* in hand, fired, or given up for one of the stated reasons.
THEOREM NoEventIsForgotten == Spec => []EventsAreKept
<1>1. QueueInv => EventsAreKept
  BY HandIsInHand DEF QueueInv, KeptInv, EventsAreKept
<1>2. QED
  BY <1>1, AlwaysQueueInv, PTL

\* Events are fired in the order of their arrival and none is fired twice,
\* whatever the size of the queue and however often the task was busy.
THEOREM OrderIsKept == Spec => []EventsInOrder
<1>1. ASSUME QueueInv PROVE EventsInOrder
  <2>1. fired \in Seq(Nat) /\ queue \in Seq(Nat) /\ InHand \in Seq(Nat)
    BY <1>1, HandIsInHand DEF QueueInv, QueueTypeOK
  <2>2. /\ Elements(InHand) = Hand /\ Increasing(InHand)
        /\ Increasing(fired) /\ Increasing(queue)
    BY <1>1, HandIsInHand DEF QueueInv, OrderInv
  <2>3. Precedes(fired, InHand)
    BY <1>1, <2>2 DEF QueueInv, OrderInv, Precedes
  <2>4. /\ fired \o InHand \in Seq(Nat) /\ Increasing(fired \o InHand)
        /\ Elements(fired \o InHand) = Elements(fired) \cup Hand
    BY <2>1, <2>2, <2>3, Joined
  <2>5. Precedes(fired \o InHand, queue)
    BY <1>1, <2>4 DEF QueueInv, OrderInv, Precedes
  <2>6. Increasing((fired \o InHand) \o queue)
    BY <2>1, <2>2, <2>4, <2>5, Joined
  <2>7. QED
    BY <2>6 DEF Increasing, EventsInOrder
<1>2. QED
  BY <1>1, AlwaysQueueInv, PTL
=============================================================================
