------------------------- MODULE MarketPath_proofs -------------------------
(***************************************************************************)
(* Proofs about the market path, for any prices, settings, batches, buffer *)
(* size and number of events: the time-series writer keeps the order of    *)
(* the events and loses none unaccounted for, the classification of the    *)
(* live path and that of the reports agree, from ClassifiersAgree, the two *)
(* live views count the same moves, a report gives the labels published    *)
(* live, and its tables add up, from TablesOfEveryReport.                  *)
(***************************************************************************)
EXTENDS MarketPath, MarketStats_proofs, SequenceTheorems

Tasks == {"off", "waiting", "writing", "cancelled", "last"}
Writer == [on : BOOLEAN, task : Tasks, buffer : Seq(Nat), inflight : Seq(Nat),
           accepted : Nat, dropped : Nat]

LastOf(s, n) == \A i \in 1..Len(s) : s[i] = n - Len(s) + i

(* What waits is the newest of what was accepted; what is in flight is a   *)
(* stretch of older events, next to what waits unless the buffer is full.  *)
BufferOK(w) == Len(w.buffer) <= MaxBuffer /\ LastOf(w.buffer, w.accepted)
InflightOK(w) ==
    \E e \in 0..w.accepted :
      /\ LastOf(w.inflight, e)
      /\ e <= w.accepted - Len(w.buffer)
      /\ e = w.accepted - Len(w.buffer) \/ Len(w.buffer) = MaxBuffer
TaskOK(w) ==
    /\ w.on <=> w.task # "off"
    /\ w.task \in {"off", "waiting"} => w.inflight = <<>>
    /\ w.task = "last" => w.buffer = <<>>

Shape(w) == w \in Writer /\ BufferOK(w) /\ (w.inflight # <<>> => InflightOK(w)) /\ TaskOK(w)

(* No event is lost, and none overtakes one that is stored. *)
Held(w) == Elements(w.inflight) \cup (IF w.on THEN Elements(w.buffer) ELSE {})
Accounted(w, d, k) ==
    \A e \in 1..w.accepted :
      e \in Elements(d) \/ e \in Held(w) \/ e \in k \/ e + MaxBuffer <= w.accepted
InOrder(w, d) ==
    /\ Increasing(d)
    /\ \A x \in Elements(d) : /\ x <= w.accepted
                              /\ \A y \in Elements(w.inflight) \cup Elements(w.buffer) : x < y

(* The inductive invariant. *)
TheWriterOK ==
    /\ Shape(tw) /\ db \in Seq(Nat)
    /\ Accounted(tw, db, cut)
    /\ ~doubt => InOrder(tw, db)
WriterInv == TheWriterOK /\ (~database => tw.task = "off")

-----------------------------------------------------------------------------
(* Sequences. *)
LEMMA SeqFacts ==
    ASSUME NEW s \in Seq(Nat)
    PROVE  /\ Len(s) \in Nat /\ DOMAIN s = 1..Len(s)
           /\ \A i \in 1..Len(s) : s[i] \in Nat /\ s[i] \in Elements(s)
           /\ \A x \in Elements(s) : \E i \in 1..Len(s) : x = s[i]
           /\ Elements(s) \subseteq Nat
BY DEF Elements

LEMMA NoElements == <<>> \in Seq(Nat) /\ Elements(<<>>) = {} /\ Increasing(<<>>) /\ Len(<<>>) = 0
BY DEF Elements, Increasing

LEMMA Joined ==
    ASSUME NEW s \in Seq(Nat), NEW t \in Seq(Nat)
    PROVE  /\ s \o t \in Seq(Nat) /\ Elements(s \o t) = Elements(s) \cup Elements(t)
           /\ Increasing(s) /\ Increasing(t)
                /\ (\A x \in Elements(s), y \in Elements(t) : x < y) => Increasing(s \o t)
<1>1. /\ s \o t \in Seq(Nat) /\ Len(s \o t) = Len(s) + Len(t)
      /\ \A i \in 1..(Len(s) + Len(t)) :
           (s \o t)[i] = IF i <= Len(s) THEN s[i] ELSE t[i - Len(s)]
      /\ DOMAIN (s \o t) = 1..(Len(s) + Len(t))
  BY ConcatProperties, LenProperties
<1>2. /\ Len(s) \in Nat /\ DOMAIN s = 1..Len(s) /\ Len(t) \in Nat /\ DOMAIN t = 1..Len(t)
  OBVIOUS
<1>3. \A i \in 1..Len(s) : (s \o t)[i] = s[i] /\ i \in DOMAIN (s \o t)
  BY <1>1, <1>2
<1>4. \A j \in 1..Len(t) : (s \o t)[Len(s) + j] = t[j] /\ Len(s) + j \in DOMAIN (s \o t)
  BY <1>1, <1>2
<1>5. \A k \in DOMAIN (s \o t) : k \in 1..Len(s) \/ \E j \in 1..Len(t) : k = Len(s) + j
  <2> SUFFICES ASSUME NEW k \in 1..(Len(s) + Len(t)), k \notin 1..Len(s)
               PROVE  k - Len(s) \in 1..Len(t) /\ k = Len(s) + (k - Len(s))
    BY <1>1
  <2> QED BY <1>2
<1> DEFINE u == s \o t
<1> HIDE DEF u
<1>6. Elements(u) = Elements(s) \cup Elements(t)
  <2>1. ASSUME NEW x \in Elements(u) PROVE x \in Elements(s) \cup Elements(t)
    <3>1. PICK k \in DOMAIN u : x = u[k]
      BY DEF Elements
    <3>2. CASE k \in 1..Len(s)
      BY <1>2, <1>3, <3>1, <3>2 DEF Elements, u
    <3>3. CASE \E j \in 1..Len(t) : k = Len(s) + j
      BY <1>2, <1>4, <3>1, <3>3 DEF Elements, u
    <3> QED BY <1>5, <3>2, <3>3 DEF u
  <2>2. ASSUME NEW x \in Elements(s) PROVE x \in Elements(u)
    BY <1>2, <1>3 DEF Elements, u
  <2>3. ASSUME NEW x \in Elements(t) PROVE x \in Elements(u)
    BY <1>2, <1>4 DEF Elements, u
  <2> QED BY <2>1, <2>2, <2>3
<1>7. ASSUME Increasing(s), Increasing(t), \A x \in Elements(s), y \in Elements(t) : x < y
      PROVE  Increasing(u)
  <2> SUFFICES ASSUME NEW i \in DOMAIN u, NEW k \in DOMAIN u, i < k
               PROVE  u[i] < u[k]
    BY DEF Increasing
  <2>1. CASE i \in 1..Len(s) /\ k \in 1..Len(s)
    BY <1>2, <1>3, <1>7, <2>1 DEF Increasing, u
  <2>2. CASE i \in 1..Len(s) /\ \E j \in 1..Len(t) : k = Len(s) + j
    BY <1>2, <1>3, <1>4, <1>7, <2>2 DEF Elements, u
  <2>3. CASE \E j \in 1..Len(t), l \in 1..Len(t) : i = Len(s) + j /\ k = Len(s) + l
    <3>1. PICK j \in 1..Len(t), l \in 1..Len(t) : i = Len(s) + j /\ k = Len(s) + l
      BY <2>3
    <3>2. u[i] = t[j] /\ u[k] = t[l]
      BY <1>4, <3>1 DEF u
    <3>3. j < l
      BY <1>2, <3>1
    <3> QED BY <1>2, <1>7, <3>2, <3>3 DEF Increasing
  <2>4. CASE k \in 1..Len(s) /\ \E j \in 1..Len(t) : i = Len(s) + j
    BY <1>2, <2>4
  <2> QED BY <1>5, <2>1, <2>2, <2>3, <2>4 DEF u
<1> QED BY <1>1, <1>6, <1>7 DEF u

(* The end of a sequence: what is left without its first k elements. *)
EndOf(r, s, k) ==
    /\ r \in Seq(Nat) /\ k <= Len(s) /\ Len(r) = Len(s) - k
    /\ \A i \in 1..Len(r) : r[i] = s[k + i]

LEMMA EndElements ==
    ASSUME NEW r, NEW s \in Seq(Nat), NEW k \in Nat, EndOf(r, s, k)
    PROVE  /\ Elements(r) \subseteq Elements(s)
           /\ \A i \in 1..Len(s) : i <= k \/ s[i] \in Elements(r)
<1>1. Len(s) \in Nat /\ Len(r) \in Nat /\ DOMAIN r = 1..Len(r) /\ DOMAIN s = 1..Len(s)
  BY DEF EndOf
<1>2. ASSUME NEW x \in Elements(r) PROVE x \in Elements(s)
  <2>1. PICK i \in 1..Len(r) : x = r[i]
    BY <1>1 DEF Elements
  <2>2. x = s[k + i] /\ k + i \in 1..Len(s)
    BY <1>1, <2>1 DEF EndOf
  <2> QED BY <1>1, <2>2 DEF Elements
<1>3. ASSUME NEW i \in 1..Len(s), ~(i <= k) PROVE s[i] \in Elements(r)
  <2>1. PICK j \in 1..Len(r) : i = k + j
    <3>1. i - k \in 1..Len(r) /\ i = k + (i - k)
      BY <1>1, <1>3 DEF EndOf
    <3> QED BY <3>1
  <2>2. r[j] = s[i]
    BY <2>1 DEF EndOf
  <2> QED BY <1>1, <2>1, <2>2 DEF Elements
<1> QED BY <1>2, <1>3

LEMMA NewestIs ==
    ASSUME NEW s \in Seq(Nat)
    PROVE  \E k \in Nat : /\ EndOf(Newest(s), s, k)
                          /\ Len(Newest(s)) <= MaxBuffer
                          /\ k = 0 \/ Len(Newest(s)) = MaxBuffer
<1>1. Len(s) \in Nat /\ MaxBuffer \in Nat /\ MaxBuffer > 0
  BY BufferAssumption
<1>2. CASE Len(s) <= MaxBuffer
  <2>1. Newest(s) = s
    BY <1>2 DEF Newest
  <2>2. EndOf(s, s, 0)
    BY <1>1 DEF EndOf
  <2> QED BY <1>2, <2>1, <2>2
<1>3. CASE ~(Len(s) <= MaxBuffer)
  <2>1. PICK k \in Nat : k = Len(s) - MaxBuffer /\ k > 0 /\ k < Len(s)
    <3>1. Len(s) - MaxBuffer \in Nat /\ Len(s) - MaxBuffer > 0 /\ Len(s) - MaxBuffer < Len(s)
      BY <1>1, <1>3
    <3> QED BY <3>1
  <2>2. Newest(s) = SubSeq(s, k + 1, Len(s))
    BY <1>3, <2>1 DEF Newest
  <2>3. \A i \in (k + 1)..Len(s) : s[i] \in Nat
    BY <1>1, <2>1
  <2>4. Len(s) - (k + 1) + 1 = MaxBuffer /\ Len(s) - k = MaxBuffer
    BY <1>1, <2>1
  <2>5. /\ SubSeq(s, k + 1, Len(s)) \in Seq(Nat)
        /\ Len(SubSeq(s, k + 1, Len(s))) = MaxBuffer
        /\ \A i \in 1..MaxBuffer : SubSeq(s, k + 1, Len(s))[i] = s[k + i]
    <3>1. k + 1 \in Int /\ Len(s) \in Int /\ k + 1 <= Len(s) + 1
      BY <1>1, <2>1
    <3>2. /\ SubSeq(s, k + 1, Len(s)) \in Seq(Nat)
          /\ Len(SubSeq(s, k + 1, Len(s))) = IF k + 1 <= Len(s) THEN Len(s) - (k + 1) + 1 ELSE 0
          /\ \A i \in 1..(Len(s) - (k + 1) + 1) : SubSeq(s, k + 1, Len(s))[i] = s[(k + 1) + i - 1]
      BY <2>3, <3>1, SubSeqProperties
    <3>3. \A i \in 1..MaxBuffer : (k + 1) + i - 1 = k + i
      BY <1>1
    <3>4. Len(SubSeq(s, k + 1, Len(s))) = MaxBuffer
      BY <1>1, <2>1, <2>4, <3>2
    <3>5. ASSUME NEW i \in 1..MaxBuffer PROVE SubSeq(s, k + 1, Len(s))[i] = s[k + i]
      <4>1. SubSeq(s, k + 1, Len(s))[i] = s[(k + 1) + i - 1]
        BY <2>4, <3>2
      <4> QED BY <3>3, <4>1
    <3> QED BY <3>2, <3>4, <3>5
  <2> DEFINE r == SubSeq(s, k + 1, Len(s))
  <2>6. EndOf(r, s, k)
    <3>1. r \in Seq(Nat) /\ Len(r) = MaxBuffer /\ \A i \in 1..MaxBuffer : r[i] = s[k + i]
      BY <2>5
    <3> HIDE DEF r
    <3> QED BY <1>1, <2>1, <2>4, <3>1 DEF EndOf
  <2>7. Len(r) <= MaxBuffer /\ Len(r) = MaxBuffer
    BY <1>1, <2>5
  <2>8. Newest(s) = r
    BY <2>2
  <2> HIDE DEF r
  <2> QED BY <2>6, <2>7, <2>8
<1> QED BY <1>2, <1>3

LEMMA EndOfLast ==
    ASSUME NEW s \in Seq(Nat), NEW n \in Nat, LastOf(s, n),
           NEW r, NEW k \in Nat, EndOf(r, s, k), k = 0 \/ Len(r) = MaxBuffer
    PROVE  /\ LastOf(r, n)
           /\ \A x \in Elements(s) : x \in Elements(r) \/ x + MaxBuffer <= n
<1>1. Len(s) \in Nat /\ Len(r) \in Nat /\ Len(r) = Len(s) - k /\ MaxBuffer \in Nat
  BY BufferAssumption DEF EndOf
<1>2. ASSUME NEW i \in 1..Len(r) PROVE r[i] = n - Len(r) + i
  <2>1. r[i] = s[k + i] /\ k + i \in 1..Len(s)
    BY <1>1 DEF EndOf
  <2>2. s[k + i] = n - Len(s) + (k + i)
    BY <2>1 DEF LastOf
  <2>3. n - Len(s) + (k + i) = n - Len(r) + i
    BY <1>1
  <2> QED BY <2>1, <2>2, <2>3
<1>3. ASSUME NEW x \in Elements(s), x \notin Elements(r) PROVE x + MaxBuffer <= n
  <2>1. PICK i \in 1..Len(s) : x = s[i]
    BY SeqFacts
  <2>2. i <= k
    BY <1>3, <2>1, EndElements
  <2>3. Len(r) = MaxBuffer /\ x = n - Len(s) + i
    BY <1>1, <2>1, <2>2 DEF LastOf
  <2> QED BY <1>1, <2>1, <2>2, <2>3
<1> QED BY <1>2, <1>3 DEF LastOf

LEMMA JoinedLast ==
    ASSUME NEW f \in Seq(Nat), NEW b \in Seq(Nat), NEW n \in Nat,
           LastOf(f, n - Len(b)), LastOf(b, n)
    PROVE  LastOf(f \o b, n)
<1>1. /\ Len(f) \in Nat /\ Len(b) \in Nat /\ Len(f \o b) = Len(f) + Len(b)
      /\ \A i \in 1..(Len(f) + Len(b)) : (f \o b)[i] = IF i <= Len(f) THEN f[i] ELSE b[i - Len(f)]
  BY ConcatProperties, LenProperties
<1>2. ASSUME NEW i \in 1..(Len(f) + Len(b)), i <= Len(f)
      PROVE  (f \o b)[i] = n - (Len(f) + Len(b)) + i
  <2>1. (f \o b)[i] = f[i] /\ i \in 1..Len(f)
    BY <1>1, <1>2
  <2>2. f[i] = (n - Len(b)) - Len(f) + i
    BY <2>1 DEF LastOf
  <2>3. (n - Len(b)) - Len(f) + i = n - (Len(f) + Len(b)) + i
    BY <1>1
  <2> QED BY <2>1, <2>2, <2>3
<1>3. ASSUME NEW i \in 1..(Len(f) + Len(b)), ~(i <= Len(f))
      PROVE  (f \o b)[i] = n - (Len(f) + Len(b)) + i
  <2>1. (f \o b)[i] = b[i - Len(f)] /\ i - Len(f) \in 1..Len(b)
    BY <1>1, <1>3
  <2>2. b[i - Len(f)] = n - Len(b) + (i - Len(f))
    BY <2>1 DEF LastOf
  <2>3. n - Len(b) + (i - Len(f)) = n - (Len(f) + Len(b)) + i
    BY <1>1
  <2> QED BY <2>1, <2>2, <2>3
<1> QED BY <1>1, <1>2, <1>3 DEF LastOf

LEMMA LastIncreases ==
    ASSUME NEW s \in Seq(Nat), NEW n \in Nat, LastOf(s, n)
    PROVE  /\ Increasing(s)
           /\ \A x \in Elements(s) : x <= n /\ n - Len(s) < x
<1>1. Len(s) \in Nat /\ DOMAIN s = 1..Len(s)
  OBVIOUS
<1>2. Increasing(s)
  <2> SUFFICES ASSUME NEW i \in 1..Len(s), NEW j \in 1..Len(s), i < j PROVE s[i] < s[j]
    BY <1>1 DEF Increasing
  <2>1. s[i] = n - Len(s) + i /\ s[j] = n - Len(s) + j
    BY DEF LastOf
  <2> QED BY <1>1, <2>1
<1>3. ASSUME NEW x \in Elements(s) PROVE x <= n /\ n - Len(s) < x
  <2>1. PICK i \in 1..Len(s) : x = s[i]
    BY SeqFacts
  <2>2. x = n - Len(s) + i
    BY <2>1 DEF LastOf
  <2> QED BY <1>1, <2>2
<1> QED BY <1>2, <1>3

(* What is in flight was accepted before what waits. *)
LEMMA WindowFacts ==
    ASSUME NEW w, Shape(w)
    PROVE  /\ w.inflight \in Seq(Nat) /\ w.buffer \in Seq(Nat) /\ w.accepted \in Nat
           /\ Increasing(w.inflight) /\ Increasing(w.buffer)
           /\ \A x \in Elements(w.inflight), y \in Elements(w.buffer) : x < y
           /\ \A x \in Elements(w.inflight) \cup Elements(w.buffer) : x <= w.accepted
<1>1. /\ w.inflight \in Seq(Nat) /\ w.buffer \in Seq(Nat) /\ w.accepted \in Nat
      /\ LastOf(w.buffer, w.accepted) /\ Len(w.buffer) \in Nat
  BY DEF Shape, Writer, BufferOK
<1>2. /\ Increasing(w.buffer)
      /\ \A y \in Elements(w.buffer) : /\ y \in Nat /\ y <= w.accepted
                                       /\ w.accepted - Len(w.buffer) < y
  BY <1>1, LastIncreases, SeqFacts
<1>3. CASE w.inflight = <<>>
  BY <1>1, <1>2, <1>3, NoElements
<1>4. CASE w.inflight # <<>>
  <2>1. PICK e \in 0..w.accepted : LastOf(w.inflight, e) /\ e <= w.accepted - Len(w.buffer)
    BY <1>4 DEF Shape, InflightOK
  <2>2. e \in Nat /\ e <= w.accepted
    BY <1>1
  <2>3. /\ Increasing(w.inflight)
        /\ \A x \in Elements(w.inflight) : x \in Nat /\ x <= e
    BY <1>1, <2>1, <2>2, LastIncreases, SeqFacts
  <2> QED BY <1>1, <1>2, <2>1, <2>2, <2>3
<1> QED BY <1>3, <1>4

(* A failed flush: the end of what was in flight and what waits is again   *)
(* the newest that was accepted; what leaves is older than MaxBuffer events.*)
LEMMA RequeuedIs ==
    ASSUME NEW w, Shape(w)
    PROVE  /\ Requeued(w) \in Seq(Nat) /\ Len(Requeued(w)) <= MaxBuffer
           /\ LastOf(Requeued(w), w.accepted)
           /\ Elements(Requeued(w)) \subseteq Elements(w.inflight) \cup Elements(w.buffer)
           /\ \A x \in Elements(w.inflight) \cup Elements(w.buffer) :
                x \in Elements(Requeued(w)) \/ x + MaxBuffer <= w.accepted
<1>1. PICK f \in Seq(Nat), b \in Seq(Nat), n \in Nat, u \in Seq(Nat), r \in Seq(Nat) :
        /\ f = w.inflight /\ b = w.buffer /\ n = w.accepted
        /\ u = f \o b /\ r = Requeued(w) /\ r = Newest(u)
  <2>1. w.inflight \in Seq(Nat) /\ w.buffer \in Seq(Nat) /\ w.accepted \in Nat
    BY WindowFacts
  <2>2. w.inflight \o w.buffer \in Seq(Nat)
    BY <2>1
  <2>3. Newest(w.inflight \o w.buffer) \in Seq(Nat)
    BY <2>2, NewestIs DEF EndOf
  <2> QED BY <2>1, <2>2, <2>3 DEF Requeued
<1>2. /\ Len(f) \in Nat /\ Len(b) \in Nat /\ Len(r) \in Nat /\ MaxBuffer \in Nat
      /\ Len(u) = Len(f) + Len(b) /\ Len(b) <= MaxBuffer /\ LastOf(b, n)
  BY <1>1, BufferAssumption DEF Shape, BufferOK
<1>3. Elements(u) = Elements(f) \cup Elements(b)
  BY <1>1, Joined
<1>4. PICK k \in Nat : EndOf(r, u, k) /\ Len(r) <= MaxBuffer /\ (k = 0 \/ Len(r) = MaxBuffer)
  BY <1>1, NewestIs
<1>5. Elements(r) \subseteq Elements(u)
  BY <1>4, EndElements
<1>6. CASE LastOf(f, n - Len(b))
  <2>1. LastOf(u, n)
    BY <1>1, <1>2, <1>6, JoinedLast
  <2>2. LastOf(r, n) /\ \A x \in Elements(u) : x \in Elements(r) \/ x + MaxBuffer <= n
    BY <1>4, <2>1, EndOfLast
  <2> QED BY <1>1, <1>3, <1>4, <1>5, <2>2
<1>7. CASE ~LastOf(f, n - Len(b))
  <2>1. f # <<>>
    <3>1. ASSUME f = <<>> PROVE LastOf(f, n - Len(b))
      BY <3>1 DEF LastOf
    <3> QED BY <1>7, <3>1
  <2>2. PICK e \in 0..n : LastOf(f, e) /\ e <= n - Len(b)
                          /\ (e = n - Len(b) \/ Len(b) = MaxBuffer)
    BY <1>1, <2>1 DEF Shape, InflightOK
  <2>3. Len(b) = MaxBuffer
    BY <1>7, <2>2
  <2>4. Len(f) > 0
    BY <1>2, <2>1, EmptySeq
  <2>5. k = Len(f) /\ Len(r) = Len(b)
    <3>1. Len(r) = Len(f) + Len(b) - k
      BY <1>2, <1>4 DEF EndOf
    <3> QED BY <1>2, <1>4, <2>3, <2>4, <3>1
  <2>6. ASSUME NEW i \in 1..Len(b) PROVE r[i] = b[i]
    <3>1. r[i] = u[Len(f) + i]
      BY <1>4, <2>5 DEF EndOf
    <3>2. /\ Len(f) + i \in 1..(Len(f) + Len(b))
          /\ ~(Len(f) + i <= Len(f)) /\ (Len(f) + i) - Len(f) = i
      BY <1>2
    <3>3. u[Len(f) + i] = b[(Len(f) + i) - Len(f)]
      BY <1>1, <3>2, ConcatProperties
    <3> QED BY <3>1, <3>2, <3>3
  <2>7. LastOf(r, n)
    BY <1>2, <2>5, <2>6 DEF LastOf
  <2>8. ASSUME NEW x \in Elements(b) PROVE x \in Elements(r)
    <3>1. PICK i \in 1..Len(b) : x = b[i]
      BY SeqFacts
    <3>2. r[i] \in Elements(r)
      BY <2>5, SeqFacts
    <3> QED BY <2>6, <3>1, <3>2
  <2>9. ASSUME NEW x \in Elements(f) PROVE x + MaxBuffer <= n
    <3>1. e \in Nat /\ x \in Nat /\ x <= e
      BY <2>2, LastIncreases, SeqFacts
    <3> QED BY <1>2, <2>2, <2>3, <3>1
  <2> QED BY <1>1, <1>3, <1>4, <1>5, <2>7, <2>8, <2>9
<1> QED BY <1>6, <1>7

(* An event is accepted: a full buffer loses its oldest.                   *)
LEMMA AppendedIs ==
    ASSUME NEW w, Shape(w), w.task \notin {"off", "last"}
    PROVE  LET v == Appended(w) IN
           /\ Shape(v) /\ v.task = w.task /\ v.inflight = w.inflight /\ v.on = w.on
           /\ v.accepted = w.accepted + 1
           /\ Elements(v.buffer) \subseteq Elements(w.buffer) \cup {w.accepted + 1}
           /\ \A x \in Elements(w.buffer) \cup {w.accepted + 1} :
                x \in Elements(v.buffer) \/ x + MaxBuffer <= v.accepted
<1>1. w \in Writer /\ w.buffer \in Seq(Nat) /\ w.accepted \in Nat /\ w.dropped \in Nat
      /\ Len(w.buffer) \in Nat /\ Len(w.buffer) <= MaxBuffer /\ LastOf(w.buffer, w.accepted)
      /\ MaxBuffer \in Nat
  BY BufferAssumption DEF Shape, Writer, BufferOK
<1>2. PICK n \in Nat, s \in Seq(Nat), r \in Seq(Nat) :
        n = w.accepted + 1 /\ s = Append(w.buffer, n) /\ r = Newest(s)
  <2>1. w.accepted + 1 \in Nat
    BY <1>1
  <2>2. Append(w.buffer, w.accepted + 1) \in Seq(Nat)
    BY <1>1, <2>1
  <2>3. Newest(Append(w.buffer, w.accepted + 1)) \in Seq(Nat)
    BY <2>2, NewestIs DEF EndOf
  <2> QED BY <2>1, <2>2, <2>3
<1>3. /\ Len(s) = Len(w.buffer) + 1 /\ s[Len(w.buffer) + 1] = n
      /\ \A i \in 1..Len(w.buffer) : s[i] = w.buffer[i]
  BY <1>1, <1>2
<1>4. LastOf(s, n)
  <2> SUFFICES ASSUME NEW i \in 1..Len(s) PROVE s[i] = n - Len(s) + i
    BY DEF LastOf
  <2>1. CASE i = Len(w.buffer) + 1
    BY <1>1, <1>3, <2>1
  <2>2. CASE i # Len(w.buffer) + 1
    <3>1. i \in 1..Len(w.buffer)
      BY <1>1, <1>3, <2>2
    <3>2. s[i] = w.accepted - Len(w.buffer) + i
      BY <1>1, <1>3, <3>1 DEF LastOf
    <3>3. n - Len(s) + i = w.accepted - Len(w.buffer) + i
      BY <1>1, <1>2, <1>3
    <3> QED BY <3>2, <3>3
  <2> QED BY <2>1, <2>2
<1>5. Elements(s) = Elements(w.buffer) \cup {n}
  <2>1. ASSUME NEW x \in Elements(s) PROVE x \in Elements(w.buffer) \cup {n}
    <3>1. PICK i \in 1..Len(s) : x = s[i]
      BY SeqFacts
    <3>2. i = Len(w.buffer) + 1 \/ i \in 1..Len(w.buffer)
      BY <1>1, <1>3
    <3> QED BY <1>1, <1>3, <3>1, <3>2, SeqFacts
  <2>2. ASSUME NEW x \in Elements(w.buffer) PROVE x \in Elements(s)
    <3>1. PICK i \in 1..Len(w.buffer) : x = w.buffer[i]
      BY <1>1, SeqFacts
    <3>2. i \in 1..Len(s)
      BY <1>1, <1>3
    <3> QED BY <1>3, <3>1, <3>2, SeqFacts
  <2>3. n \in Elements(s)
    <3>1. Len(w.buffer) + 1 \in 1..Len(s)
      BY <1>1, <1>3
    <3> QED BY <1>3, <3>1, SeqFacts
  <2> QED BY <2>1, <2>2, <2>3
<1>6. PICK k \in Nat : EndOf(r, s, k) /\ Len(r) <= MaxBuffer /\ (k = 0 \/ Len(r) = MaxBuffer)
  BY <1>2, NewestIs
<1>7. LastOf(r, n) /\ \A x \in Elements(s) : x \in Elements(r) \/ x + MaxBuffer <= n
  BY <1>4, <1>6, EndOfLast
<1>8. Elements(r) \subseteq Elements(s)
  BY <1>6, EndElements
<1> DEFINE v == Appended(w)
<1>9. /\ v \in Writer /\ v.buffer = r /\ v.accepted = n
      /\ v.task = w.task /\ v.on = w.on /\ v.inflight = w.inflight
  <2>1. ASSUME NEW d \in Nat, v = [w EXCEPT !.buffer = r, !.accepted = n, !.dropped = d]
        PROVE  /\ v \in Writer /\ v.buffer = r /\ v.accepted = n
               /\ v.task = w.task /\ v.on = w.on /\ v.inflight = w.inflight
    BY <1>1, <2>1 DEF Writer
  <2>2. v = [w EXCEPT !.buffer = r, !.accepted = n,
                      !.dropped = w.dropped + (IF Len(s) > MaxBuffer THEN 1 ELSE 0)]
    BY <1>1, <1>2 DEF Appended, Writer
  <2>3. w.dropped + (IF Len(s) > MaxBuffer THEN 1 ELSE 0) \in Nat
    BY <1>1
  <2> QED BY <2>1, <2>2, <2>3
<1> HIDE DEF v
<1>10. ASSUME w.inflight # <<>> PROVE InflightOK(v)
  <2>1. PICK e \in 0..w.accepted :
          /\ LastOf(w.inflight, e) /\ e <= w.accepted - Len(w.buffer)
          /\ e = w.accepted - Len(w.buffer) \/ Len(w.buffer) = MaxBuffer
    BY <1>10 DEF Shape, InflightOK
  <2>2. Len(r) \in Nat /\ Len(r) = Len(w.buffer) + 1 - k
    BY <1>3, <1>6 DEF EndOf
  <2> DEFINE B == Len(w.buffer)
             R == Len(r)
             a == w.accepted
  <2> HIDE DEF B, R, a
  <2>0. /\ a \in Nat /\ B \in Nat /\ R \in Nat /\ n = a + 1 /\ R = B + 1 - k /\ MaxBuffer \in Nat
        /\ B <= MaxBuffer /\ R <= MaxBuffer /\ (k = 0 \/ R = MaxBuffer)
        /\ e \in 0..a /\ e <= a - B /\ (e = a - B \/ B = MaxBuffer)
    BY <1>1, <1>2, <1>6, <2>1, <2>2 DEF B, R, a
  <2>3. e \in 0..n /\ e <= n - Len(r)
    BY <2>0 DEF R
  <2>4. e = n - Len(r) \/ Len(r) = MaxBuffer
    BY <2>0 DEF R
  <2> QED BY <1>9, <2>1, <2>3, <2>4 DEF InflightOK
<1>11. Shape(v)
  <2>1. BufferOK(v)
    BY <1>6, <1>7, <1>9 DEF BufferOK
  <2>2. TaskOK(v)
    BY <1>9 DEF TaskOK, Shape
  <2> QED BY <1>9, <1>10, <2>1, <2>2 DEF Shape
<1> QED BY <1>2, <1>5, <1>7, <1>8, <1>9, <1>11 DEF v

-----------------------------------------------------------------------------
(* What a step has to show about the events it moves. *)
LEMMA NothingCommits ==
    ASSUME NEW w, Shape(w), NEW d \in Seq(Nat), NEW k, NEW l, NEW v, k \subseteq l,
           v.accepted = w.accepted,
           Elements(v.inflight) \cup Elements(v.buffer)
             \subseteq Elements(w.inflight) \cup Elements(w.buffer),
           \A x \in Held(w) : x \in Held(v) \/ x \in l \/ x + MaxBuffer <= w.accepted
    PROVE  /\ InOrder(w, d) => InOrder(v, d)
           /\ Accounted(w, d, k) => Accounted(v, d, l)
<1>1. InOrder(w, d) => InOrder(v, d)
  BY DEF InOrder
<1>2. Accounted(w, d, k) => Accounted(v, d, l)
  BY DEF Accounted
<1> QED BY <1>1, <1>2

LEMMA EventsCommit ==
    ASSUME NEW w, Shape(w), NEW d \in Seq(Nat), NEW k, NEW l, NEW v, k \subseteq l,
           v.accepted = w.accepted,
           Elements(v.inflight) \cup Elements(v.buffer) \subseteq Elements(w.buffer),
           w.on => Elements(w.buffer) \subseteq Held(v)
    PROVE  /\ d \o w.inflight \in Seq(Nat)
           /\ InOrder(w, d) => InOrder(v, d \o w.inflight)
           /\ Accounted(w, d, k) => Accounted(v, d \o w.inflight, l)
<1>1. PICK f \in Seq(Nat), b \in Seq(Nat) :
        /\ f = w.inflight /\ b = w.buffer
        /\ Increasing(f) /\ \A x \in Elements(f), y \in Elements(b) : x < y
        /\ \A x \in Elements(f) : x <= w.accepted
  BY WindowFacts
<1>2. /\ d \o f \in Seq(Nat) /\ Elements(d \o f) = Elements(d) \cup Elements(f)
      /\ Increasing(d) /\ (\A x \in Elements(d), y \in Elements(f) : x < y) => Increasing(d \o f)
  BY <1>1, Joined
<1>3. InOrder(w, d) => InOrder(v, d \o f)
  <2> SUFFICES ASSUME InOrder(w, d) PROVE InOrder(v, d \o f)
    OBVIOUS
  <2>1. Increasing(d \o f)
    BY <1>1, <1>2 DEF InOrder
  <2>2. ASSUME NEW x \in Elements(d \o f)
        PROVE  /\ x <= v.accepted
               /\ \A y \in Elements(v.inflight) \cup Elements(v.buffer) : x < y
    <3>1. x \in Elements(d) \/ x \in Elements(f)
      BY <1>2
    <3>2. CASE x \in Elements(d)
      BY <1>1, <3>2 DEF InOrder
    <3>3. CASE x \in Elements(f)
      BY <1>1, <3>3
    <3> QED BY <3>1, <3>2, <3>3
  <2> QED BY <2>1, <2>2 DEF InOrder
<1>4. Accounted(w, d, k) => Accounted(v, d \o f, l)
  <2> SUFFICES ASSUME Accounted(w, d, k), NEW e \in 1..v.accepted
               PROVE  \/ e \in Elements(d \o f) \/ e \in Held(v) \/ e \in l
                      \/ e + MaxBuffer <= v.accepted
    BY DEF Accounted
  <2>1. \/ e \in Elements(d) \/ e \in Held(w) \/ e \in k \/ e + MaxBuffer <= w.accepted
    BY DEF Accounted
  <2>2. e \in Held(w) => e \in Elements(f) \/ (w.on /\ e \in Elements(b))
    BY <1>1 DEF Held
  <2> QED BY <1>1, <1>2, <2>1, <2>2
<1> QED BY <1>1, <1>2, <1>3, <1>4

LEMMA EventAdded ==
    ASSUME NEW w, Shape(w), w.on, w.task # "last", NEW d \in Seq(Nat), NEW k
    PROVE  LET v == Appended(w) IN
           /\ Shape(v) /\ v.on /\ v.task = w.task
           /\ InOrder(w, d) => InOrder(v, d)
           /\ Accounted(w, d, k) => Accounted(v, d, k)
<1>1. w.task \notin {"off", "last"} /\ w.accepted \in Nat /\ MaxBuffer \in Nat
  BY BufferAssumption DEF Shape, Writer, TaskOK
<1> DEFINE v == Appended(w)
<1>2. /\ Shape(v) /\ v.task = w.task /\ v.inflight = w.inflight /\ v.on = w.on
      /\ v.accepted = w.accepted + 1
      /\ Elements(v.buffer) \subseteq Elements(w.buffer) \cup {w.accepted + 1}
      /\ \A x \in Elements(w.buffer) \cup {w.accepted + 1} :
           x \in Elements(v.buffer) \/ x + MaxBuffer <= v.accepted
  BY <1>1, AppendedIs
<1> HIDE DEF v
<1>3. InOrder(w, d) => InOrder(v, d)
  <2> SUFFICES ASSUME InOrder(w, d), NEW x \in Elements(d)
               PROVE  /\ x <= v.accepted
                      /\ \A y \in Elements(v.inflight) \cup Elements(v.buffer) : x < y
    BY DEF InOrder
  <2>1. x \in Nat /\ x <= w.accepted
        /\ \A y \in Elements(w.inflight) \cup Elements(w.buffer) : x < y
    BY SeqFacts DEF InOrder
  <2> QED BY <1>1, <1>2, <2>1
<1>4. Accounted(w, d, k) => Accounted(v, d, k)
  <2> SUFFICES ASSUME Accounted(w, d, k), NEW e \in 1..(w.accepted + 1)
               PROVE  \/ e \in Elements(d) \/ e \in Held(v) \/ e \in k
                      \/ e + MaxBuffer <= w.accepted + 1
    BY <1>2 DEF Accounted
  <2>1. Held(v) = Elements(w.inflight) \cup Elements(v.buffer)
        /\ Held(w) = Elements(w.inflight) \cup Elements(w.buffer)
    BY <1>2 DEF Held
  <2>2. CASE e = w.accepted + 1
    BY <1>2, <2>1, <2>2
  <2>3. CASE e # w.accepted + 1
    <3>1. e \in 1..w.accepted
      BY <1>1, <2>3
    <3>2. e \in Elements(d) \/ e \in Held(w) \/ e \in k \/ e + MaxBuffer <= w.accepted
      BY <3>1 DEF Accounted
    <3>3. e + MaxBuffer <= w.accepted => e + MaxBuffer <= w.accepted + 1
      BY <1>1, <3>1
    <3> QED BY <1>2, <2>1, <3>2, <3>3
  <2> QED BY <2>2, <2>3
<1> QED BY <1>2, <1>3, <1>4 DEF v

(* A transaction takes what waits, or the writer ends. *)
LEMMA FlushTakes ==
    ASSUME NEW w, Shape(w), w.on, NEW t \in {"writing", "last"}, NEW v,
           v = [w EXCEPT !.task = t, !.inflight = w.buffer, !.buffer = <<>>]
    PROVE  /\ Shape(v) /\ v.on /\ v.accepted = w.accepted
           /\ v.inflight = w.buffer /\ v.buffer = <<>> /\ Held(v) = Elements(w.buffer)
<1>1. w \in Writer /\ LastOf(w.buffer, w.accepted) /\ w.accepted \in Nat
  BY DEF Shape, BufferOK, Writer
<1>2. /\ v \in Writer /\ v.on /\ v.accepted = w.accepted /\ v.task = t
      /\ v.inflight = w.buffer /\ v.buffer = <<>>
  BY <1>1, NoElements DEF Writer, Tasks
<1>3. BufferOK(v) /\ TaskOK(v)
  BY <1>2, NoElements, BufferAssumption DEF BufferOK, TaskOK, LastOf
<1>4. InflightOK(v)
  BY <1>1, <1>2, NoElements DEF InflightOK
<1>5. Held(v) = Elements(w.buffer)
  BY <1>2, NoElements DEF Held
<1> QED BY <1>2, <1>3, <1>4, <1>5 DEF Shape

LEMMA WriterRests ==
    ASSUME NEW w, NEW v \in Writer, v.accepted = w.accepted, v.inflight = <<>>,
           Len(v.buffer) <= MaxBuffer, LastOf(v.buffer, w.accepted),
           v.task \in {"off", "waiting"}, v.on <=> v.task = "waiting"
    PROVE  Shape(v) /\ (v.on => Held(v) = Elements(v.buffer))
<1>1. BufferOK(v) /\ TaskOK(v)
  BY DEF BufferOK, TaskOK
<1>2. v.on => Held(v) = Elements(v.buffer)
  BY NoElements DEF Held
<1> QED BY <1>1, <1>2 DEF Shape

(* The last flush of a cancelled loop, or no more to flush. *)
LEMMA LastFlushIs ==
    ASSUME NEW w, Shape(w), w.on
    PROVE  LET v == LastFlush(w) IN
           /\ Shape(v) /\ v.accepted = w.accepted
           /\ Elements(v.inflight) \cup Elements(v.buffer) \subseteq Elements(w.buffer)
           /\ Elements(w.buffer) \subseteq Held(v)
<1> DEFINE v == LastFlush(w)
<1>1. w \in Writer /\ LastOf(w.buffer, w.accepted) /\ Len(w.buffer) <= MaxBuffer
      /\ w.buffer \in Seq(Nat)
  BY DEF Shape, BufferOK, Writer
<1>2. CASE w.buffer = <<>>
  <2>1. v = [w EXCEPT !.task = "off", !.on = FALSE, !.inflight = <<>>]
    BY <1>2 DEF LastFlush
  <2> HIDE DEF v
  <2>2. /\ v \in Writer /\ v.accepted = w.accepted /\ v.inflight = <<>> /\ v.buffer = w.buffer
        /\ v.task = "off" /\ ~v.on /\ Shape(v)
    <3>1. /\ v \in Writer /\ v.accepted = w.accepted /\ v.inflight = <<>>
          /\ v.buffer = w.buffer /\ v.task = "off" /\ ~v.on
      BY <1>1, <2>1, NoElements DEF Writer, Tasks
    <3> QED BY <1>1, <3>1, WriterRests
  <2> QED BY <1>2, <2>2, NoElements DEF v
<1>3. CASE w.buffer # <<>>
  <2>1. v = [w EXCEPT !.task = "last", !.inflight = w.buffer, !.buffer = <<>>]
    BY <1>3 DEF LastFlush
  <2> HIDE DEF v
  <2>2. /\ Shape(v) /\ v.accepted = w.accepted /\ v.inflight = w.buffer
        /\ v.buffer = <<>> /\ Held(v) = Elements(w.buffer)
    BY <2>1, FlushTakes
  <2> QED BY <2>2, NoElements DEF v
<1> QED BY <1>2, <1>3

-----------------------------------------------------------------------------
(* The steps. *)
LEMMA FlushStartKeeps == ASSUME TheWriterOK, FlushStart PROVE TheWriterOK'
<1>1. Shape(tw) /\ db \in Seq(Nat) /\ tw.on /\ tw.inflight = <<>>
  BY DEF TheWriterOK, FlushStart, Shape, TaskOK
<1>2. /\ Shape(tw') /\ tw'.accepted = tw.accepted /\ tw'.inflight = tw.buffer
      /\ tw'.buffer = <<>> /\ Held(tw') = Elements(tw.buffer)
  <2>1. tw' = [tw EXCEPT !.task = "writing", !.inflight = tw.buffer, !.buffer = <<>>]
    BY DEF FlushStart
  <2> QED BY <1>1, <2>1, FlushTakes
<1>3. Held(tw) = Elements(tw.buffer)
  BY <1>1, NoElements DEF Held
<1>4. /\ InOrder(tw, db) => InOrder(tw', db)
      /\ Accounted(tw, db, cut) => Accounted(tw', db, cut)
  BY <1>1, <1>2, <1>3, NoElements, NothingCommits
<1> QED BY <1>2, <1>4 DEF TheWriterOK, FlushStart

LEMMA CommitsKeep == ASSUME TheWriterOK, FlushCommits \/ LastFlushCommits PROVE TheWriterOK'
<1>1. /\ Shape(tw) /\ db \in Seq(Nat) /\ tw.on /\ tw.buffer \in Seq(Nat)
      /\ Len(tw.buffer) <= MaxBuffer /\ LastOf(tw.buffer, tw.accepted) /\ tw \in Writer
  BY DEF TheWriterOK, FlushCommits, LastFlushCommits, Shape, TaskOK, BufferOK, Writer
<1>2. /\ tw' \in Writer /\ tw'.accepted = tw.accepted /\ tw'.inflight = <<>>
      /\ tw'.buffer = tw.buffer /\ tw'.task \in {"off", "waiting"}
      /\ tw'.on <=> tw'.task = "waiting"
      /\ tw'.on \/ Elements(tw.buffer) = {}
  <2>1. CASE FlushCommits
    BY <1>1, <2>1, NoElements DEF FlushCommits, Writer, Tasks
  <2>2. CASE LastFlushCommits
    <3>1. tw.buffer = <<>>
      BY <1>1, <2>2 DEF LastFlushCommits, Shape, TaskOK
    <3> QED BY <1>1, <2>2, <3>1, NoElements DEF LastFlushCommits, Writer, Tasks
  <2> QED BY <2>1, <2>2
<1>5. Shape(tw') /\ Elements(tw.buffer) \subseteq Held(tw')
  <2>1. Shape(tw') /\ (tw'.on => Held(tw') = Elements(tw'.buffer))
    BY <1>1, <1>2, WriterRests
  <2> QED BY <1>2, <2>1
<1>3. db' = db \o tw.inflight /\ cut' = cut /\ doubt' = doubt
  BY DEF FlushCommits, LastFlushCommits
<1>4. /\ db \o tw.inflight \in Seq(Nat)
      /\ InOrder(tw, db) => InOrder(tw', db \o tw.inflight)
      /\ Accounted(tw, db, cut) => Accounted(tw', db \o tw.inflight, cut)
  BY <1>1, <1>2, <1>5, NoElements, EventsCommit
<1> QED BY <1>2, <1>3, <1>4, <1>5 DEF TheWriterOK

LEMMA FailsKeep ==
    ASSUME TheWriterOK, NEW tookEffect \in BOOLEAN, FlushFails(tookEffect) PROVE TheWriterOK'
<1>1. /\ Shape(tw) /\ db \in Seq(Nat) /\ tw.on /\ tw \in Writer /\ tw.inflight \in Seq(Nat)
      /\ tw.task \in {"writing", "last"} /\ (tw.task = "last" => tw.buffer = <<>>)
      /\ tw.accepted \in Nat
  BY WindowFacts DEF TheWriterOK, FlushFails, Shape, TaskOK
<1> DEFINE b == Requeued(tw)
<1>2. /\ b \in Seq(Nat) /\ Len(b) <= MaxBuffer /\ LastOf(b, tw.accepted)
      /\ Elements(b) \subseteq Elements(tw.inflight) \cup Elements(tw.buffer)
      /\ \A x \in Elements(tw.inflight) \cup Elements(tw.buffer) :
           x \in Elements(b) \/ x + MaxBuffer <= tw.accepted
  BY <1>1, RequeuedIs
<1>3. /\ tw' = [tw EXCEPT !.inflight = <<>>, !.buffer = b,
                          !.task = IF @ = "last" THEN "off" ELSE "waiting",
                          !.on = (tw.task = "writing")]
      /\ db' = IF tookEffect THEN db \o tw.inflight ELSE db
      /\ doubt' = (doubt \/ tookEffect)
      /\ cut' = IF tw.task = "last" THEN cut \cup Elements(tw.inflight) ELSE cut
  BY DEF FlushFails
<1> HIDE DEF b
<1>4. /\ Shape(tw') /\ tw'.accepted = tw.accepted /\ tw'.inflight = <<>> /\ tw'.buffer = b
      /\ tw.task = "writing" => Held(tw') = Elements(b)
  <2>1. /\ tw' \in Writer /\ tw'.accepted = tw.accepted /\ tw'.inflight = <<>>
        /\ tw'.buffer = b /\ tw'.task \in {"off", "waiting"}
        /\ tw'.on <=> tw'.task = "waiting"
        /\ tw.task = "writing" => tw'.on
    <3>1. CASE tw.task = "writing"
      BY <1>1, <1>2, <1>3, <3>1, NoElements DEF Writer, Tasks
    <3>2. CASE tw.task = "last"
      BY <1>1, <1>2, <1>3, <3>2, NoElements DEF Writer, Tasks
    <3> QED BY <1>1, <3>1, <3>2
  <2>2. Shape(tw') /\ (tw'.on => Held(tw') = Elements(tw'.buffer))
    BY <1>2, <2>1, WriterRests
  <2> QED BY <2>1, <2>2
<1>5. Held(tw) = Elements(tw.inflight) \cup Elements(tw.buffer)
  BY <1>1 DEF Held
<1>6. \A x \in Held(tw) : x \in Held(tw') \/ x \in cut' \/ x + MaxBuffer <= tw.accepted
  <2>1. CASE tw.task = "writing"
    BY <1>2, <1>4, <1>5, <2>1
  <2>2. CASE tw.task = "last"
    BY <1>1, <1>3, <1>5, <2>2, NoElements
  <2> QED BY <1>1, <2>1, <2>2
<1>7. cut \subseteq cut'
  BY <1>3
<1>8. /\ InOrder(tw, db) => InOrder(tw', db)
      /\ Accounted(tw, db, cut) => Accounted(tw', db, cut')
  BY <1>1, <1>2, <1>4, <1>6, <1>7, NoElements, NothingCommits
<1>9. db' \in Seq(Nat) /\ Elements(db) \subseteq Elements(db')
  BY <1>1, <1>3, Joined
<1>10. Accounted(tw', db, cut') => Accounted(tw', db', cut')
  BY <1>9 DEF Accounted
<1>11. ~doubt' => ~doubt /\ db' = db
  BY <1>3
<1> QED BY <1>4, <1>8, <1>9, <1>10, <1>11 DEF TheWriterOK

LEMMA StopKeeps == ASSUME TheWriterOK, WriterStop PROVE TheWriterOK'
<1>1. /\ Shape(tw) /\ db \in Seq(Nat) /\ tw.on /\ tw \in Writer
      /\ tw.task \in {"writing", "waiting"} /\ (tw.task = "waiting" => tw.inflight = <<>>)
  BY DEF TheWriterOK, WriterStop, Shape, TaskOK
<1>2. /\ Shape(tw') /\ tw'.accepted = tw.accepted
      /\ Elements(tw'.inflight) \cup Elements(tw'.buffer)
           \subseteq Elements(tw.inflight) \cup Elements(tw.buffer)
      /\ Held(tw) \subseteq Held(tw')
  <2>1. CASE tw.task = "waiting"
    <3>1. tw' = LastFlush(tw)
      BY <2>1 DEF WriterStop
    <3>2. Held(tw) = Elements(tw.buffer)
      BY <1>1, <2>1, NoElements DEF Held
    <3> QED BY <1>1, <3>1, <3>2, LastFlushIs
  <2>2. CASE tw.task = "writing"
    <3>1. tw' = [tw EXCEPT !.task = "cancelled"]
      BY <2>2 DEF WriterStop
    <3>2. /\ tw' \in Writer /\ tw'.on = tw.on /\ tw'.task = "cancelled"
          /\ tw'.buffer = tw.buffer /\ tw'.inflight = tw.inflight
          /\ tw'.accepted = tw.accepted
      BY <1>1, <3>1 DEF Writer, Tasks
    <3>3. Shape(tw')
      BY <1>1, <3>2 DEF Shape, BufferOK, InflightOK, TaskOK
    <3> QED BY <3>2, <3>3 DEF Held
  <2> QED BY <1>1, <2>1, <2>2
<1>3. /\ InOrder(tw, db) => InOrder(tw', db)
      /\ Accounted(tw, db, cut) => Accounted(tw', db, cut)
  BY <1>1, <1>2, NothingCommits
<1> QED BY <1>1, <1>2, <1>3 DEF TheWriterOK, WriterStop

LEMMA CancelKeeps ==
    ASSUME TheWriterOK, NEW tookEffect \in BOOLEAN, CancelArrives(tookEffect) PROVE TheWriterOK'
<1>1. /\ Shape(tw) /\ db \in Seq(Nat) /\ tw.on /\ tw' = LastFlush(tw) /\ doubt' = doubt
      /\ db' = IF tookEffect THEN db \o tw.inflight ELSE db
      /\ cut' = cut \cup Elements(tw.inflight)
  BY DEF TheWriterOK, CancelArrives, Shape, TaskOK
<1>2. /\ Shape(tw') /\ tw'.accepted = tw.accepted
      /\ Elements(tw'.inflight) \cup Elements(tw'.buffer) \subseteq Elements(tw.buffer)
      /\ Elements(tw.buffer) \subseteq Held(tw')
  BY <1>1, LastFlushIs
<1>3. CASE tookEffect
  <2>1. /\ db \o tw.inflight \in Seq(Nat)
        /\ InOrder(tw, db) => InOrder(tw', db \o tw.inflight)
        /\ Accounted(tw, db, cut) => Accounted(tw', db \o tw.inflight, cut')
    <3>1. cut \subseteq cut'
      BY <1>1
    <3> QED BY <1>1, <1>2, <3>1, EventsCommit
  <2> QED BY <1>1, <1>2, <1>3, <2>1 DEF TheWriterOK
<1>4. CASE ~tookEffect
  <2>1. /\ InOrder(tw, db) => InOrder(tw', db)
        /\ Accounted(tw, db, cut) => Accounted(tw', db, cut')
    <3>1. cut \subseteq cut' /\ \A x \in Held(tw) : x \in Held(tw') \/ x \in cut'
      BY <1>1, <1>2 DEF Held
    <3> QED BY <1>1, <1>2, <3>1, NothingCommits
  <2> QED BY <1>1, <1>2, <1>4, <2>1 DEF TheWriterOK
<1> QED BY <1>3, <1>4

LEMMA AddKeeps ==
    ASSUME TheWriterOK, NEW n, AddEvents(n), tw.task \notin {"cancelled", "last"}
    PROVE  TheWriterOK' /\ tw'.task = tw.task
<1>1. Shape(tw) /\ db \in Seq(Nat) /\ UNCHANGED <<db, cut, doubt>>
  BY DEF TheWriterOK, AddEvents
<1>2. CASE ~tw.on
  BY <1>1, <1>2 DEF AddEvents, TheWriterOK
<1>3. CASE tw.on
  <2>1. PICK v : v = Appended(tw)
    OBVIOUS
  <2>2. /\ Shape(v) /\ v.on /\ v.task = tw.task
        /\ InOrder(tw, db) => InOrder(v, db)
        /\ Accounted(tw, db, cut) => Accounted(v, db, cut)
    BY <1>1, <1>3, <2>1, EventAdded
  <2>3. PICK u : u = Appended(v)
    OBVIOUS
  <2>4. /\ Shape(u) /\ u.on /\ u.task = v.task
        /\ InOrder(v, db) => InOrder(u, db)
        /\ Accounted(v, db, cut) => Accounted(u, db, cut)
    BY <1>1, <2>2, <2>3, EventAdded
  <2>5. tw' = v \/ tw' = u
    BY <1>3, <2>1, <2>3 DEF AddEvents
  <2> QED BY <1>1, <2>2, <2>4, <2>5 DEF TheWriterOK
<1> QED BY <1>2, <1>3

LEMMA WriterInvHolds == MarketSpec => []WriterInv
<1>1. MarketInit => WriterInv
  <2> SUFFICES ASSUME MarketInit PROVE WriterInv
    OBVIOUS
  <2>1. /\ tw = IF database THEN [NoWriter EXCEPT !.on = TRUE, !.task = "waiting"] ELSE NoWriter
        /\ db = <<>> /\ cut = {} /\ doubt = FALSE
    BY DEF MarketInit, WriterInit
  <2>2. /\ tw \in Writer /\ tw.buffer = <<>> /\ tw.inflight = <<>> /\ tw.accepted = 0
        /\ TaskOK(tw) /\ (~database => tw.task = "off")
    BY <2>1, NoElements DEF NoWriter, Writer, Tasks, TaskOK
  <2>3. Shape(tw)
    BY <2>2, NoElements, BufferAssumption DEF Shape, BufferOK, LastOf
  <2>4. Accounted(tw, db, cut) /\ InOrder(tw, db)
    BY <2>1, <2>2, NoElements DEF Accounted, InOrder
  <2> QED BY <2>1, <2>2, <2>3, <2>4, NoElements DEF TheWriterOK, WriterInv
<1>2. WriterInv /\ [MarketNext]_marketVars => WriterInv'
  <2> SUFFICES ASSUME WriterInv, [MarketNext]_marketVars PROVE WriterInv'
    OBVIOUS
  <2>1. database' = database
    BY DEF MarketNext, marketVars
  <2>2. CASE Market \/ MarketWithDatabase
    <3>1. PICK n : AddEvents(n)
      BY <2>2 DEF Market, MarketWithDatabase, Receive
    <3>2. tw.task \notin {"cancelled", "last"}
      BY <2>2 DEF Market, MarketWithDatabase, WriterInv
    <3> QED BY <2>1, <3>1, <3>2, AddKeeps DEF WriterInv
  <2>3. CASE UNCHANGED twVars
    BY <2>1, <2>3 DEF twVars, TheWriterOK, WriterInv
  <2>4. CASE tw.task # "off" /\ WriterStop
    BY <2>1, <2>4, StopKeeps DEF WriterInv
  <2>5. CASE WriterNext
    <3>1. tw.task # "off"
      BY <2>5 DEF WriterNext, FlushStart, FlushCommits, LastFlushCommits, FlushFails, CancelArrives
    <3>2. TheWriterOK'
      BY <2>5, FlushStartKeeps, CommitsKeep, FailsKeep, CancelKeeps DEF WriterNext, WriterInv
    <3> QED BY <2>1, <3>1, <3>2 DEF WriterInv
  <2>6. Start \/ Stop \/ (WriterNext /\ UNCHANGED liveVars) \/ UNCHANGED marketVars
        => UNCHANGED twVars \/ (tw.task # "off" /\ WriterStop) \/ WriterNext
    BY DEF Start, Stop, marketVars, twVars
  <2> QED BY <2>2, <2>3, <2>4, <2>5, <2>6 DEF MarketNext
<1> QED BY <1>1, <1>2, PTL DEF MarketSpec

-----------------------------------------------------------------------------
(* Events are stored in the order of their acceptance, and what waits is   *)
(* the newest of what was accepted (TimescaleWriter._append and flush).    *)
THEOREM StoredInOrderHolds == MarketSpec => []StoredInOrder
<1>1. TheWriterOK => StoredInOrder
  <2> SUFFICES ASSUME TheWriterOK PROVE StoredInOrder
    OBVIOUS
  <2>1. PICK f \in Seq(Nat), b \in Seq(Nat) :
          /\ f = tw.inflight /\ b = tw.buffer /\ Increasing(f) /\ Increasing(b)
          /\ \A x \in Elements(f), y \in Elements(b) : x < y
    BY WindowFacts DEF TheWriterOK
  <2>2. db \in Seq(Nat) /\ Shape(tw)
    BY DEF TheWriterOK
  <2>3. ASSUME ~doubt PROVE Increasing(db \o f \o b)
    <3>1. InOrder(tw, db)
      BY <2>3 DEF TheWriterOK
    <3>2. /\ db \o f \in Seq(Nat) /\ Increasing(db \o f)
          /\ Elements(db \o f) = Elements(db) \cup Elements(f)
      BY <2>1, <2>2, <3>1, Joined DEF InOrder
    <3>3. \A x \in Elements(db \o f), y \in Elements(b) : x < y
      BY <2>1, <3>1, <3>2 DEF InOrder
    <3> QED BY <2>1, <3>2, <3>3, Joined
  <2>4. \A i \in DOMAIN b : b[i] = tw.accepted - Len(b) + i
    <3>1. LastOf(b, tw.accepted) /\ DOMAIN b = 1..Len(b)
      BY <2>1, <2>2 DEF Shape, BufferOK
    <3> QED BY <3>1 DEF LastOf
  <2>5. Len(b) <= MaxBuffer
    BY <2>1, <2>2 DEF Shape, BufferOK
  <2> QED BY <2>1, <2>3, <2>4, <2>5 DEF StoredInOrder
<1>2. WriterInv => TheWriterOK
  BY DEF WriterInv
<1> QED BY <1>1, <1>2, WriterInvHolds, PTL

(* Every accepted event is stored, in flight or waiting, or one of the     *)
(* three losses of TimescaleWriter took it.                                *)
THEOREM EventsAccountedHolds == MarketSpec => []EventsAccounted
<1>1. TheWriterOK => EventsAccounted
  <2> SUFFICES ASSUME TheWriterOK PROVE EventsAccounted
    OBVIOUS
  <2> DEFINE b == IF tw.on THEN tw.buffer ELSE <<>>
  <2>1. db \in Seq(Nat) /\ tw.inflight \in Seq(Nat) /\ b \in Seq(Nat)
    BY WindowFacts, NoElements DEF TheWriterOK
  <2>2. Held(tw) = Elements(tw.inflight) \cup Elements(b)
    BY NoElements DEF Held
  <2> HIDE DEF b
  <2>3. Elements(db \o tw.inflight \o b) = Elements(db) \cup Held(tw)
    <3>1. /\ db \o tw.inflight \in Seq(Nat)
          /\ Elements(db \o tw.inflight) = Elements(db) \cup Elements(tw.inflight)
      BY <2>1, Joined
    <3>2. Elements((db \o tw.inflight) \o b) = Elements(db \o tw.inflight) \cup Elements(b)
      BY <2>1, <3>1, Joined
    <3> QED BY <2>2, <3>1, <3>2
  <2> QED BY <2>3 DEF TheWriterOK, Accounted, EventsAccounted, b
<1>2. WriterInv => TheWriterOK
  BY DEF WriterInv
<1> QED BY <1>1, <1>2, WriterInvHolds, PTL

-----------------------------------------------------------------------------
(* The rows of the stream and their classification. *)
RowsOK ==
    /\ mode \in Settings
    /\ rows \in Seq(Rows)
    /\ batch \in Nat
    /\ clock \in Nat

(* What MarketPath hands to Snapshot(). *)
Quote(q, obi, pause) == q \in Prices /\ obi \in -10..10 /\ pause \in Nat

LEMMA QuotesReceived ==
    ASSUME Market \/ MarketWithDatabase
    PROVE  \E q, obi, pause : Quote(q, obi, pause) /\ Receive(q, obi, pause)
<1>1. CASE \E x \in Core, pause \in Pauses : Receive(x.q, x.obi, pause)
  <2>1. PICK x \in Core, pause \in Pauses : Receive(x.q, x.obi, pause)
    BY <1>1
  <2>2. Quote(x.q, x.obi, pause)
    BY QuotesAssumption DEF Quote
  <2> QED BY <2>1, <2>2
<1>2. CASE \E q \in Quotes \cup DbQuotes : Receive(q, 0, 1)
  <2>1. PICK q \in Quotes \cup DbQuotes : Receive(q, 0, 1)
    BY <1>2
  <2>2. Quote(q, 0, 1)
    BY QuotesAssumption DEF Quote
  <2> QED BY <2>1, <2>2
<1> QED BY <1>1, <1>2 DEF Market, MarketWithDatabase

LEMMA InBatchFinite ==
    ASSUME rows \in Seq(Rows)
    PROVE  LET inBatch == {i \in DOMAIN rows : rows[i].batch = batch} IN
           /\ IsFiniteSet(inBatch) /\ Cardinality(inBatch) \in Nat
           /\ NextSeq = 1 + Cardinality(inBatch) /\ NextSeq \in Nat
<1> DEFINE inBatch == {i \in DOMAIN rows : rows[i].batch = batch}
<1>1. inBatch \in SUBSET 1..Len(rows) /\ IsFiniteSet(1..Len(rows))
  BY UpTo
<1>2. NextSeq = 1 + Cardinality(inBatch)
  BY DEF NextSeq
<1> HIDE DEF inBatch
<1>3. IsFiniteSet(inBatch)
  BY <1>1, FS_Subset
<1>4. Cardinality(inBatch) \in Nat
  BY <1>3, FS_CardinalityType
<1> QED BY <1>2, <1>3, <1>4 DEF inBatch

(* Only Snapshot() adds a row, and MarketPath hands it prices.             *)
LEMMA SnapshotRow ==
    ASSUME RowsOK, NEW q, NEW obi, NEW pause, Quote(q, obi, pause), Snapshot(q, obi, pause)
    PROVE  /\ RowsOK'
           /\ Len(rows) \in Nat /\ Len(rows') = Len(rows) + 1
           /\ \A i \in 1..Len(rows) : rows'[i] = rows[i]
           /\ rows'[Len(rows) + 1]
              = [q |-> q, obi |-> obi, t |-> clock + pause, batch |-> batch, seq |-> NextSeq]
<1> DEFINE r == [q |-> q, obi |-> obi, t |-> clock + pause, batch |-> batch, seq |-> NextSeq]
<1>1. /\ rows' = Append(rows, r) /\ mode' = mode /\ batch' = batch /\ clock' = clock + pause
      /\ rows \in Seq(Rows) /\ clock' \in Nat
  BY DEF Snapshot, RowsOK, Quote
<1>2. r \in Rows
  BY <1>1, InBatchFinite DEF RowsOK, Rows, Quote
<1> HIDE DEF r
<1>3. rows' \in Seq(Rows) /\ Len(rows) \in Nat /\ Len(rows') = Len(rows) + 1
      /\ rows'[Len(rows) + 1] = r /\ \A i \in 1..Len(rows) : rows'[i] = rows[i]
  BY <1>1, <1>2
<1> QED BY <1>1, <1>3 DEF RowsOK, r

LEMMA RowsOKHolds == MarketSpec => []RowsOK
<1>1. MarketInit => RowsOK
  BY LiveAssumption DEF MarketInit, LiveInit, RowsOK
<1>2. RowsOK /\ [MarketNext]_marketVars => RowsOK'
  <2> SUFFICES ASSUME RowsOK, [MarketNext]_marketVars PROVE RowsOK'
    OBVIOUS
  <2>0. ASSUME UNCHANGED <<mode, rows, clock, batch>> PROVE RowsOK'
    BY <2>0 DEF RowsOK
  <2>1. CASE Market \/ MarketWithDatabase
    BY <2>1, QuotesReceived, SnapshotRow DEF Receive
  <2>2. CASE StartStream
    BY <2>2 DEF StartStream, RowsOK
  <2>3. CASE StopStream \/ UNCHANGED liveVars
    BY <2>0, <2>3 DEF StopStream, liveVars
  <2> QED BY <2>1, <2>2, <2>3 DEF MarketNext, Start, Stop, marketVars
<1> QED BY <1>1, <1>2, PTL DEF MarketSpec

(* The report's classifier gives each pair of received snapshots the label *)
(* the live one gives ("must match classify_pair exactly",                 *)
(* jump_classifier.py:264), whatever the prices, settings and batches are. *)
THEOREM VectorisedMatchesPairwiseHolds == MarketSpec => []VectorisedMatchesPairwise
<1>1. RowsOK => VectorisedMatchesPairwise
  <2> SUFFICES ASSUME RowsOK, Len(rows) > 1
               PROVE  ClassifyArrays(mode, rows[Len(rows) - 1].q, rows[Len(rows)].q)
                      = ClassifyPair(mode, rows[Len(rows) - 1].q, rows[Len(rows)].q)
    BY DEF VectorisedMatchesPairwise
  <2>1. rows[Len(rows) - 1] \in Rows /\ rows[Len(rows)] \in Rows
    BY DEF RowsOK
  <2>2. rows[Len(rows) - 1].q \in Prices /\ rows[Len(rows)].q \in Prices
    BY <2>1 DEF Rows
  <2> QED BY <2>2, ClassifiersAgree DEF RowsOK
<1> QED BY <1>1, RowsOKHolds, PTL

(* The tables of any report a deployment makes of its stored rows add up:  *)
(* every row and pair of rows is counted once, next moves and what precedes*)
(* a move are looked for in the same stretch of data (core/statistics),    *)
(* for any quotes, pauses, batches and number of rows.                     *)
THEOREM ReportTablesHolds == MarketSpec => []ReportTables
<1>1. RowsOK => ReportTables
  BY TablesOfEveryReport DEF RowsOK, ReportTables
<1> QED BY <1>1, RowsOKHolds, PTL

-----------------------------------------------------------------------------
(* Counting moves. *)
One(b) == IF b THEN 1 ELSE 0

(* A set of places, and the same places k further on.                      *)
LEMMA Shifted ==
    ASSUME NEW U \in SUBSET Nat, IsFiniteSet(U), NEW k \in Nat
    PROVE  Cardinality({i + k : i \in U}) = Cardinality(U)
<1> DEFINE V == {i + k : i \in U}
           f == [i \in U |-> i + k]
<1>1. f \in Bijection(U, V)
  <2>1. f \in [U -> V] /\ \A x, y \in U : f[x] = f[y] => x = y
    OBVIOUS
  <2>2. \A v \in V : \E x \in U : f[x] = v
    OBVIOUS
  <2> HIDE DEF f
  <2> QED BY <2>1, <2>2 DEF Bijection, Injection, Surjection, IsInjective
<1>2. ExistsBijection(U, V)
  BY <1>1 DEF ExistsBijection
<1> QED BY <1>2, FS_Bijection

LEMMA CountedMore ==
    ASSUME NEW U, IsFiniteSet(U), NEW n, n \notin U, NEW b,
           NEW V, V = IF b THEN U \cup {n} ELSE U
    PROVE  Cardinality(U) \in Nat /\ Cardinality(V) = Cardinality(U) + One(b)
<1>1. Cardinality(U) \in Nat /\ Cardinality(U \cup {n}) = Cardinality(U) + 1
  BY FS_CardinalityType, FS_AddElement
<1> QED BY <1>1 DEF One

(* One more move is counted. *)
LEMMA MetricsOfMore ==
    ASSUME NEW s, NEW t, NEW P, IsFiniteSet(P), NEW n, n \notin P,
           \A i \in P : t[i] = s[i]
    PROVE  LET old == MetricsAt(s, P)
               e == t[n]
           IN /\ old.oneTick \in Nat /\ old.bounce \in Nat /\ old.genuine \in Nat
              /\ MetricsAt(t, P \cup {n})
                 = [oneTick |-> old.oneTick + One(e.unit),
                    bounce  |-> old.bounce + One(e.unit /\ e.label \in BounceLabels),
                    genuine |-> old.genuine + One(e.unit /\ e.label \in GenuineLabels)]
              /\ MetricsAt(t, P) = old
<1> DEFINE e == t[n]
           Units(m, Q) == {i \in Q : m[i].unit}
           Bounces(m, Q) == {i \in Units(m, Q) : m[i].label \in BounceLabels}
           Genuines(m, Q) == {i \in Units(m, Q) : m[i].label \in GenuineLabels}
           move == e.unit
           bounce == e.unit /\ e.label \in BounceLabels
           genuine == e.unit /\ e.label \in GenuineLabels
<1>1. \A m, Q : MetricsAt(m, Q) = [oneTick |-> Cardinality(Units(m, Q)),
                                   bounce  |-> Cardinality(Bounces(m, Q)),
                                   genuine |-> Cardinality(Genuines(m, Q))]
  BY DEF MetricsAt
<1>2. /\ Units(t, P) = Units(s, P) /\ Bounces(t, P) = Bounces(s, P)
      /\ Genuines(t, P) = Genuines(s, P)
  OBVIOUS
<1>3. /\ IsFiniteSet(Units(s, P)) /\ IsFiniteSet(Bounces(s, P)) /\ IsFiniteSet(Genuines(s, P))
      /\ n \notin Units(s, P) /\ n \notin Bounces(s, P) /\ n \notin Genuines(s, P)
  BY FS_Subset
<1>4. /\ Units(t, P \cup {n}) = IF move THEN Units(s, P) \cup {n} ELSE Units(s, P)
      /\ Bounces(t, P \cup {n}) = IF bounce THEN Bounces(s, P) \cup {n} ELSE Bounces(s, P)
      /\ Genuines(t, P \cup {n}) = IF genuine THEN Genuines(s, P) \cup {n} ELSE Genuines(s, P)
  OBVIOUS
<1> HIDE DEF e, Units, Bounces, Genuines, move, bounce, genuine
<1>5. /\ Cardinality(Units(s, P)) \in Nat
      /\ Cardinality(Units(t, P \cup {n})) = Cardinality(Units(s, P)) + One(move)
  BY <1>3, <1>4, CountedMore
<1>6. /\ Cardinality(Bounces(s, P)) \in Nat
      /\ Cardinality(Bounces(t, P \cup {n})) = Cardinality(Bounces(s, P)) + One(bounce)
  BY <1>3, <1>4, CountedMore
<1>7. /\ Cardinality(Genuines(s, P)) \in Nat
      /\ Cardinality(Genuines(t, P \cup {n})) = Cardinality(Genuines(s, P)) + One(genuine)
  BY <1>3, <1>4, CountedMore
<1> QED BY <1>1, <1>2, <1>5, <1>6, <1>7 DEF e, move, bounce, genuine

(* The window of the realtime metrics: a bounded deque, which loses at the *)
(* front what is appended at the end.                                      *)
Window(L, n) == IF L <= n THEN L ELSE n

LEMMA WindowIs ==
    ASSUME NEW L \in Nat, NEW n \in Nat \ {0}
    PROVE  /\ Window(L, n) \in Nat /\ Window(L, n) <= L /\ Window(L, n) <= n
           /\ Window(L + 1, n) = Window(Window(L, n) + 1, n)
           /\ Window(L + 1, n) <= Window(L, n) + 1
BY DEF Window

LEMMA LastNIs ==
    ASSUME NEW S, NEW s \in Seq(S), NEW n \in Nat \ {0}
    PROVE  /\ LastN(s, n) \in Seq(S) /\ Len(LastN(s, n)) = Window(Len(s), n)
           /\ \A i \in 1..Window(Len(s), n) :
                LastN(s, n)[i] = s[Len(s) - Window(Len(s), n) + i]
<1>1. PICK L \in Nat, m \in Nat : L = Len(s) /\ m = Window(Len(s), n)
  <2>1. Len(s) \in Nat
    OBVIOUS
  <2> QED BY <2>1, WindowIs
<1>2. CASE L <= n
  <2>1. m = L
    BY <1>1, <1>2 DEF Window
  <2>2. \A i \in 1..m : L - m + i = i
    BY <2>1
  <2>3. LastN(s, n) = s
    BY <1>1, <1>2 DEF LastN
  <2>4. \A i \in 1..m : s[i] = s[L - m + i]
    BY <2>2
  <2> QED BY <1>1, <2>1, <2>3, <2>4
<1>3. CASE ~(L <= n)
  <2>1. PICK a \in Nat : a = L - n
    BY <1>3
  <2>2. m = n
    BY <1>1, <1>3 DEF Window
  <2>3. a + 1 <= L /\ a + 1 <= L + 1 /\ L - (a + 1) + 1 = m
    BY <1>3, <2>1, <2>2
  <2>4. \A i \in 1..m : (a + 1) + i - 1 = L - m + i
    BY <2>1, <2>2
  <2>5. PICK r : r = SubSeq(s, a + 1, L)
    OBVIOUS
  <2>6. LastN(s, n) = r
    BY <1>1, <1>3, <2>1, <2>5 DEF LastN
  <2>7. /\ r \in Seq(S)
        /\ Len(r) = IF a + 1 <= L THEN L - (a + 1) + 1 ELSE 0
        /\ \A i \in 1..(L - (a + 1) + 1) : r[i] = s[(a + 1) + i - 1]
    <3>1. \A i \in (a + 1)..L : s[i] \in S
      BY <1>1
    <3>2. a + 1 \in Int /\ L \in Int
      OBVIOUS
    <3> QED BY <2>3, <2>5, <3>1, <3>2, SubSeqProperties
  <2>8. Len(r) = m /\ \A i \in 1..m : r[i] = s[L - m + i]
    BY <2>3, <2>4, <2>7
  <2> QED BY <1>1, <2>6, <2>7, <2>8
<1> QED BY <1>2, <1>3

LEMMA LastNAppend ==
    ASSUME NEW S, NEW s \in Seq(S), NEW e \in S, NEW n \in Nat \ {0}
    PROVE  LastN(Append(LastN(s, n), e), n) = LastN(Append(s, e), n)
<1> DEFINE L == Len(s)
           m == Window(L, n)
           d == Window(L + 1, n)
           a == LastN(s, n)
           u == Append(a, e)
           v == Append(s, e)
<1>1. /\ L \in Nat /\ m \in Nat /\ m <= L /\ L + 1 \in Nat /\ m + 1 \in Nat
      /\ d \in Nat /\ d <= m + 1 /\ d = Window(m + 1, n)
  <2>1. Len(s) \in Nat
    OBVIOUS
  <2>2. Len(s) + 1 \in Nat
    BY <2>1
  <2>3. m \in Nat /\ m <= L /\ d \in Nat /\ d <= m + 1 /\ d = Window(m + 1, n)
    BY <2>1, <2>2, WindowIs
  <2> QED BY <2>1, <2>2, <2>3
<1>2. a \in Seq(S) /\ Len(a) = m /\ \A i \in 1..m : a[i] = s[L - m + i]
  BY LastNIs
<1> HIDE DEF a
<1>3. u \in Seq(S) /\ Len(u) = m + 1 /\ u[m + 1] = e /\ \A i \in 1..m : u[i] = a[i]
  BY <1>2
<1>4. v \in Seq(S) /\ Len(v) = L + 1 /\ v[L + 1] = e /\ \A i \in 1..L : v[i] = s[i]
  OBVIOUS
<1> HIDE DEF u, v
<1>5. /\ LastN(u, n) \in Seq(S) /\ Len(LastN(u, n)) = d
      /\ \A i \in 1..d : LastN(u, n)[i] = u[(m + 1) - d + i]
  <2>1. /\ LastN(u, n) \in Seq(S) /\ Len(LastN(u, n)) = Window(Len(u), n)
        /\ \A i \in 1..Window(Len(u), n) :
             LastN(u, n)[i] = u[Len(u) - Window(Len(u), n) + i]
    BY <1>3, LastNIs
  <2>2. Len(u) = m + 1 /\ Window(Len(u), n) = d
    BY <1>1, <1>3
  <2> HIDE DEF d, m
  <2> QED BY <2>1, <2>2
<1>6. /\ LastN(v, n) \in Seq(S) /\ Len(LastN(v, n)) = d
      /\ \A i \in 1..d : LastN(v, n)[i] = v[(L + 1) - d + i]
  <2>1. /\ LastN(v, n) \in Seq(S) /\ Len(LastN(v, n)) = Window(Len(v), n)
        /\ \A i \in 1..Window(Len(v), n) :
             LastN(v, n)[i] = v[Len(v) - Window(Len(v), n) + i]
    BY <1>4, LastNIs
  <2>2. Len(v) = L + 1 /\ Window(Len(v), n) = d
    BY <1>4
  <2> HIDE DEF d, L
  <2> QED BY <2>1, <2>2
<1> HIDE DEF L, m, d
<1>7. ASSUME NEW i \in 1..d PROVE u[(m + 1) - d + i] = v[(L + 1) - d + i]
  <2>1. CASE i = d
    <3>1. (m + 1) - d + i = m + 1 /\ (L + 1) - d + i = L + 1
      BY <1>1, <2>1
    <3> QED BY <1>3, <1>4, <3>1
  <2>2. CASE i # d
    <3>1. /\ (m + 1) - d + i \in 1..m /\ (L + 1) - d + i \in 1..L
          /\ L - m + ((m + 1) - d + i) = (L + 1) - d + i
      BY <1>1, <2>2
    <3>2. u[(m + 1) - d + i] = s[L - m + ((m + 1) - d + i)]
      BY <1>2, <1>3, <3>1
    <3> QED BY <1>4, <3>1, <3>2
  <2> QED BY <2>1, <2>2
<1>8. \A i \in 1..d : LastN(u, n)[i] = LastN(v, n)[i]
  BY <1>5, <1>6, <1>7
<1>9. LastN(u, n) = LastN(v, n)
  BY <1>5, <1>6, <1>8, SeqEqual
<1> QED BY <1>9 DEF a, u, v

(* A move of one tick of the last price is seen only between two usable    *)
(* quotes, so a snapshot the normaliser skips is none.                     *)
LEMMA UnitMoveUsable ==
    ASSUME NEW p \in Prices, NEW c \in Prices
    PROVE  /\ OneTick(LastMove(p, c)) \in BOOLEAN
           /\ OneTick(LastMove(p, c)) => Usable(p) /\ Usable(c)
<1>1. /\ Change(p, c).ok = (/\ \A x \in {p.bid, p.ask, c.bid, c.ask} : Valid(x)
                            /\ ~Crossed(p) /\ ~Crossed(c))
      /\ Change(p, c).dl = IF Valid(p.last) /\ Valid(c.last) THEN c.last - p.last ELSE 0
  BY DEF Change
<1>2. ~OneTick(0)
  BY DEF OneTick, Abs, Tick
<1>3. OneTick(LastMove(p, c)) =>
        /\ \A x \in {p.bid, p.ask, c.bid, c.ask} : Valid(x)
        /\ Valid(p.last) /\ Valid(c.last)
  BY <1>1, <1>2 DEF LastMove
<1>4. OneTick(LastMove(p, c)) \in BOOLEAN
  BY DEF OneTick
<1> QED BY <1>3, <1>4 DEF Usable

(* The legacy run of a program state, and one snapshot of it.              *)
LegacyRun == [prev : Prices, labels : [Labels -> Nat], oneTick : Nat, units : [Labels -> Nat]]
Shown(run) ==
    [oneTick |-> run.oneTick,
     bounce  |-> run.units[High(1)] + run.units[High(-1)]
                 + run.units[Likely(1)] + run.units[Likely(-1)],
     genuine |-> run.units[Genuine(1)] + run.units[Genuine(-1)]]

LEMMA ShownIs ==
    ASSUME NEW run \in LegacyRun
    PROVE  /\ Shown(run).oneTick \in Nat /\ Shown(run).bounce \in Nat
           /\ Shown(run).genuine \in Nat
           /\ Shown(run) = [oneTick |-> Shown(run).oneTick, bounce |-> Shown(run).bounce,
                            genuine |-> Shown(run).genuine]
<1>1. run.oneTick \in Nat /\ run.units \in [Labels -> Nat]
  BY DEF LegacyRun
<1> QED BY <1>1 DEF Shown, Labels, BounceLabels, GenuineLabels, HighLabels, LikelyLabels

LEMMA LabelNames ==
    /\ High(1) = "HIGH_CONFIDENCE_BOUNCE_UP" /\ High(-1) = "HIGH_CONFIDENCE_BOUNCE_DOWN"
    /\ Likely(1) = "LIKELY_BOUNCE_UP" /\ Likely(-1) = "LIKELY_BOUNCE_DOWN"
    /\ Genuine(1) = "GENUINE_QUOTE_MOVE_UP" /\ Genuine(-1) = "GENUINE_QUOTE_MOVE_DOWN"
BY DEF High, Likely, Genuine, Up

Plus(f, l, k) == [f EXCEPT ![l] = @ + k]

LEMMA Raised ==
    ASSUME NEW f \in [Labels -> Nat], NEW l, NEW k \in Nat
    PROVE  /\ Plus(f, l, k) \in [Labels -> Nat]
           /\ \A x \in Labels : Plus(f, l, k)[x] = IF x = l THEN f[x] + k ELSE f[x]
<1>1. Plus(f, l, k) = [x \in Labels |-> IF x = l THEN f[l] + k ELSE f[x]]
  BY DEF Plus
<1>2. \A x \in Labels : (IF x = l THEN f[l] + k ELSE f[x]) = IF x = l THEN f[x] + k ELSE f[x]
  OBVIOUS
<1>3. \A x \in Labels : (IF x = l THEN f[x] + k ELSE f[x]) \in Nat
  OBVIOUS
<1>4. Plus(f, l, k) = [x \in Labels |-> IF x = l THEN f[x] + k ELSE f[x]]
  BY <1>1, <1>2
<1> QED BY <1>3, <1>4

LEMMA LegacyStep ==
    ASSUME NEW old \in LegacyRun, NEW q \in Prices
    PROVE  LET new == OnLegacyRow(old, q)
               label == ClassifyPair(mode, old.prev, q).label
               unit == OneTick(LastMove(old.prev, q))
           IN /\ new \in LegacyRun /\ new.prev = q
              /\ Shown(new) = [oneTick |-> Shown(old).oneTick + One(unit),
                               bounce  |-> Shown(old).bounce + One(unit /\ label \in BounceLabels),
                               genuine |-> Shown(old).genuine + One(unit /\ label \in GenuineLabels)]
<1> DEFINE new == OnLegacyRow(old, q)
           label == ClassifyPair(mode, old.prev, q).label
           unit == OneTick(LastMove(old.prev, q))
           more == IF unit THEN 1 ELSE 0
<1>1. /\ old.prev \in Prices /\ old.oneTick \in Nat /\ old.units \in [Labels -> Nat]
      /\ old.labels \in [Labels -> Nat]
      /\ old = [prev |-> old.prev, labels |-> old.labels, oneTick |-> old.oneTick,
                units |-> old.units]
  BY DEF LegacyRun
<1>2. unit \in BOOLEAN
  BY <1>1, UnitMoveUsable
<1>3. CASE old.prev = NoQuote
  <2>1. ~unit
    <3>1. ~Usable(NoQuote)
      BY DEF Usable, NoQuote, Valid, NoPrice
    <3> QED BY <1>1, <1>3, <3>1, UnitMoveUsable
  <2>2. new = [old EXCEPT !.prev = q]
    BY <1>3 DEF OnLegacyRow
  <2>3. /\ new \in LegacyRun /\ new.prev = q /\ new.oneTick = old.oneTick
        /\ new.units = old.units
    BY <1>1, <2>2 DEF LegacyRun
  <2>4. Shown(new) = Shown(old)
    BY <2>3 DEF Shown
  <2> HIDE DEF new, unit
  <2>5. One(unit) = 0 /\ One(unit /\ label \in BounceLabels) = 0
        /\ One(unit /\ label \in GenuineLabels) = 0
    BY <2>1 DEF One
  <2> QED BY <2>3, <2>4, <2>5, ShownIs DEF new, unit
<1>4. CASE old.prev # NoQuote
  <2>1. new = [prev    |-> q,
               labels  |-> [old.labels EXCEPT ![label] = @ + 1],
               oneTick |-> old.oneTick + more,
               units   |-> [old.units EXCEPT ![label] = @ + more]]
    BY <1>4 DEF OnLegacyRow, Labelled
  <2>2. more \in Nat /\ more = One(unit)
    BY DEF One
  <2> HIDE DEF new, label, unit, more
  <2>3. /\ new.units \in [Labels -> Nat]
        /\ \A l \in Labels : new.units[l] = IF l = label THEN old.units[l] + more
                                           ELSE old.units[l]
    <3>1. new.units = Plus(old.units, label, more)
      BY <2>1 DEF Plus
    <3> QED BY <1>1, <2>2, <3>1, Raised
  <2>4. new.labels \in [Labels -> Nat]
    <3>1. new.labels = Plus(old.labels, label, 1) /\ 1 \in Nat
      BY <2>1 DEF Plus
    <3> QED BY <1>1, <3>1, Raised
  <2>5. new \in LegacyRun /\ new.prev = q /\ new.oneTick = old.oneTick + more
    BY <1>1, <2>1, <2>2, <2>3, <2>4 DEF LegacyRun
  <2>6. /\ BounceLabels = {High(1), High(-1), Likely(1), Likely(-1)}
        /\ GenuineLabels = {Genuine(1), Genuine(-1)}
        /\ BounceLabels \subseteq Labels /\ GenuineLabels \subseteq Labels
    BY DEF Labels, BounceLabels, GenuineLabels, HighLabels, LikelyLabels
  <2>7. \A l \in Labels : old.units[l] \in Nat
    BY <1>1
  <2>8. Shown(new).genuine = Shown(old).genuine + One(unit /\ label \in GenuineLabels)
    <3>1. CASE label = Genuine(1) \/ label = Genuine(-1)
      BY <2>2, <2>3, <2>6, <2>7, <3>1, LabelNames DEF Shown, One
    <3>2. CASE ~(label = Genuine(1) \/ label = Genuine(-1))
      BY <2>2, <2>3, <2>6, <2>7, <3>2 DEF Shown, One
    <3> QED BY <3>1, <3>2
  <2>9. Shown(new).bounce = Shown(old).bounce + One(unit /\ label \in BounceLabels)
    <3>1. CASE label = High(1) \/ label = High(-1)
      BY <2>2, <2>3, <2>6, <2>7, <3>1, LabelNames DEF Shown, One
    <3>2. CASE label = Likely(1) \/ label = Likely(-1)
      BY <2>2, <2>3, <2>6, <2>7, <3>2, LabelNames DEF Shown, One
    <3>3. CASE label \notin BounceLabels
      BY <2>2, <2>3, <2>6, <2>7, <3>3 DEF Shown, One
    <3> QED BY <2>6, <3>1, <3>2, <3>3
  <2>10. Shown(new).oneTick = Shown(old).oneTick + One(unit)
    BY <2>2, <2>5 DEF Shown
  <2>11. Shown(new) = [oneTick |-> Shown(new).oneTick, bounce |-> Shown(new).bounce,
                       genuine |-> Shown(new).genuine]
    BY DEF Shown
  <2> QED BY <2>5, <2>8, <2>9, <2>10, <2>11 DEF new, label, unit
<1> QED BY <1>3, <1>4

(* What the metrics keep of the published moves.                           *)
TransOf(s) == [i \in DOMAIN s |-> [label |-> s[i].label, unit |-> s[i].unit]]
Carry(S) == {[label |-> x.label, unit |-> x.unit] : x \in S}

LEMMA TransIs ==
    ASSUME NEW S, NEW s \in Seq(S)
    PROVE  /\ TransOf(s) \in Seq(Carry(S)) /\ Len(TransOf(s)) = Len(s)
           /\ Len(s) \in Nat /\ DOMAIN s = 1..Len(s)
           /\ \A i \in 1..Len(s) :
                TransOf(s)[i].label = s[i].label /\ TransOf(s)[i].unit = s[i].unit
<1>1. PICK n \in Nat : n = Len(s) /\ DOMAIN s = 1..n /\ \A i \in 1..n : s[i] \in S
  OBVIOUS
<1>2. PICK r : r = TransOf(s)
  OBVIOUS
<1>3. r = [i \in 1..n |-> [label |-> s[i].label, unit |-> s[i].unit]]
  BY <1>1, <1>2 DEF TransOf
<1>4. r \in [1..n -> Carry(S)]
  BY <1>1, <1>3 DEF Carry
<1>5. r \in Seq(Carry(S)) /\ Len(r) = n
  BY <1>4, SeqDef
<1>6. \A i \in 1..n : r[i].label = s[i].label /\ r[i].unit = s[i].unit
  BY <1>3
<1> QED BY <1>1, <1>2, <1>5, <1>6

With(s, e) == s \o <<e>>

LEMMA SeqWiden ==
    ASSUME NEW S, NEW s \in Seq(S), NEW C, S \subseteq C
    PROVE  s \in Seq(C)
<1>1. s \in [1..Len(s) -> S] /\ Len(s) \in Nat
  BY LenProperties
<1>2. s \in [1..Len(s) -> C]
  BY <1>1
<1> QED BY <1>1, <1>2, SeqDef

LEMMA MoveAdded ==
    ASSUME NEW C, NEW s \in Seq(C), NEW e \in C
    PROVE  LET t == With(s, e) IN
           /\ t \in Seq(C) /\ Len(t) = Len(s) + 1
           /\ t[Len(s) + 1] = e /\ \A i \in 1..Len(s) : t[i] = s[i]
           /\ TransOf(s) \in Seq(Carry(C))
           /\ TransOf(t) = Append(TransOf(s), [label |-> e.label, unit |-> e.unit])
<1> DEFINE x == [label |-> e.label, unit |-> e.unit]
<1>1. Len(s) \in Nat /\ DOMAIN s = 1..Len(s)
  OBVIOUS
<1>2. x \in Carry(C)
  BY DEF Carry
<1> HIDE DEF x
<1> DEFINE t == With(s, e)
           a == TransOf(s)
           u == TransOf(t)
           v == Append(a, x)
<1>3. /\ t \in Seq(C) /\ Len(t) = Len(s) + 1 /\ t[Len(s) + 1] = e
      /\ \A i \in 1..Len(s) : t[i] = s[i]
  BY <1>1, <1>2 DEF With
<1> HIDE DEF t
<1>4. a \in Seq(Carry(C)) /\ Len(a) = Len(s)
  BY <1>1, TransIs
<1>5. u \in Seq(Carry(C)) /\ Len(u) = Len(s) + 1
  BY <1>1, <1>3, TransIs
<1>6. \A i \in 1..Len(s) : a[i] = [label |-> s[i].label, unit |-> s[i].unit]
  BY <1>1 DEF TransOf
<1>7. \A i \in 1..(Len(s) + 1) : u[i] = [label |-> t[i].label, unit |-> t[i].unit]
  <2>1. DOMAIN t = 1..(Len(s) + 1)
    BY <1>3
  <2> QED BY <2>1 DEF TransOf
<1> HIDE DEF a, u
<1>8. /\ v \in Seq(Carry(C)) /\ Len(v) = Len(s) + 1 /\ v[Len(s) + 1] = x
      /\ \A i \in 1..Len(s) : v[i] = a[i]
  BY <1>2, <1>4
<1> HIDE DEF v
<1>9. ASSUME NEW i \in 1..(Len(s) + 1) PROVE u[i] = v[i]
  <2>1. CASE i = Len(s) + 1
    BY <1>3, <1>7, <1>8, <2>1 DEF x
  <2>2. CASE i # Len(s) + 1
    <3>1. i \in 1..Len(s)
      BY <1>1, <2>2
    <3> QED BY <1>3, <1>6, <1>7, <1>8, <3>1
  <2> QED BY <2>1, <2>2
<1>10. u = v
  BY <1>5, <1>8, <1>9, SeqEqual
<1> QED BY <1>3, <1>4, <1>10 DEF t, a, u, v, x

(* The window counts the latest published moves.                           *)
LEMMA WindowCounts ==
    ASSUME NEW S, NEW s \in Seq(S), NEW n \in Nat \ {0}
    PROVE  Metrics(LastN(TransOf(s), n)) = MetricsAt(s, {i \in DOMAIN s : i > Len(s) - n})
<1> DEFINE r == LastN(TransOf(s), n)
           L == Len(s)
           m == Window(L, n)
           k == L - m
           P == {i \in DOMAIN s : i > L - n}
<1>1. L \in Nat /\ DOMAIN s = 1..L /\ m \in Nat /\ k \in Nat
  <2>1. L \in Nat /\ DOMAIN s = 1..L
    BY TransIs
  <2>2. m \in Nat /\ m <= L
    BY <2>1, WindowIs
  <2> HIDE DEF L, m
  <2> QED BY <2>1, <2>2
<1>2. DOMAIN r = 1..m /\ \A i \in 1..m : r[i].unit = s[k + i].unit /\ r[i].label = s[k + i].label
  <2>1. /\ r \in Seq(Carry(S)) /\ Len(r) = m
        /\ \A i \in 1..m : r[i] = TransOf(s)[k + i]
    <3>1. TransOf(s) \in Seq(Carry(S)) /\ Len(TransOf(s)) = L
      BY TransIs
    <3>2. /\ r \in Seq(Carry(S)) /\ Len(r) = Window(Len(TransOf(s)), n)
          /\ \A i \in 1..Window(Len(TransOf(s)), n) :
               r[i] = TransOf(s)[Len(TransOf(s)) - Window(Len(TransOf(s)), n) + i]
      BY <3>1, LastNIs
    <3> QED BY <3>1, <3>2
  <2>2. DOMAIN r = 1..m
    BY <2>1
  <2>3. \A i \in 1..m : k + i \in 1..L
    <3> HIDE DEF L, m
    <3> QED BY <1>1
  <2> HIDE DEF r, L, m, k
  <2>4. \A i \in 1..L : TransOf(s)[i].unit = s[i].unit /\ TransOf(s)[i].label = s[i].label
    BY TransIs DEF L
  <2> QED BY <2>1, <2>2, <2>3, <2>4
<1>3. P = {j + k : j \in 1..m}
  <2>1. P = (k + 1)..L
    <3>1. ASSUME NEW i \in 1..L PROVE i > L - n <=> i >= k + 1
      BY <1>1 DEF Window
    <3>2. P = {i \in 1..L : i > L - n}
      BY <1>1
    <3> HIDE DEF L, k, P
    <3>3. \A i : i \in (k + 1)..L <=> i \in 1..L /\ i >= k + 1
      BY <1>1
    <3> QED BY <3>1, <3>2, <3>3
  <2>2. L = k + m
    <3> HIDE DEF L, m
    <3> QED BY <1>1
  <2> HIDE DEF P, L, k, m
  <2>3. ASSUME NEW i \in (k + 1)..L PROVE i \in {j + k : j \in 1..m}
    <3>1. i - k \in 1..m /\ i = (i - k) + k
      BY <1>1, <2>2
    <3> QED BY <3>1
  <2>4. ASSUME NEW j \in 1..m PROVE j + k \in (k + 1)..L
    BY <1>1, <2>2
  <2> QED BY <2>1, <2>3, <2>4
<1> HIDE DEF r, L, m, k, P
<1>4. /\ IsFiniteSet(1..m) /\ 1..m \in SUBSET Nat
      /\ \A U \in SUBSET (1..m) : IsFiniteSet(U) /\ U \in SUBSET Nat
  <2>1. 1 \in Int /\ m \in Int /\ 1..m \in SUBSET Nat
    BY <1>1
  <2>2. IsFiniteSet(1..m)
    BY <2>1, FS_Interval
  <2> QED BY <2>1, <2>2, FS_Subset
<1>5. \A j \in 1..m : r[j].unit = s[j + k].unit /\ r[j].label = s[j + k].label
  <2>1. \A j \in 1..m : k + j = j + k
    BY <1>1
  <2> QED BY <1>2, <2>1
<1> DEFINE U == {i \in 1..m : r[i].unit}
           V == {i \in P : s[i].unit}
<1>6. V = {j + k : j \in U}
  BY <1>3, <1>5
<1>7. ASSUME NEW B
      PROVE  {i \in V : s[i].label \in B} = {j + k : j \in {i \in U : r[i].label \in B}}
  BY <1>5, <1>6
<1>8. Cardinality(V) = Cardinality(U)
  <2>1. U \in SUBSET (1..m)
    OBVIOUS
  <2> HIDE DEF U, V
  <2>2. Cardinality({j + k : j \in U}) = Cardinality(U)
    BY <1>1, <1>4, <2>1, Shifted
  <2> QED BY <1>6, <2>2
<1>9. ASSUME NEW B
      PROVE  Cardinality({i \in V : s[i].label \in B}) = Cardinality({i \in U : r[i].label \in B})
  <2> DEFINE X == {i \in U : r[i].label \in B}
             Y == {i \in V : s[i].label \in B}
  <2>1. X \in SUBSET (1..m) /\ Y = {j + k : j \in X}
    BY <1>7
  <2> HIDE DEF X, Y
  <2>2. Cardinality({j + k : j \in X}) = Cardinality(X)
    BY <1>1, <1>4, <2>1, Shifted
  <2> QED BY <2>1, <2>2 DEF X, Y
<1>10. MetricsAt(r, 1..m) = MetricsAt(s, P)
  BY <1>8, <1>9 DEF MetricsAt
<1> QED BY <1>2, <1>10 DEF Metrics, r, P, L

(* The inductive invariant of the two live views: while a stream runs both *)
(* compare with the same quote, the legacy state counts the moves this     *)
(* batch has published, and the window holds the latest moves.             *)
Published == {micros[i] : i \in DOMAIN micros}
SameQuote == prev \in Prices /\ prev = IF stream THEN lg.prev ELSE NoQuote
BatchesBegun ==
    batch \in Nat /\ \A i \in DOMAIN micros : micros[i].batch \in Nat /\ micros[i].batch <= batch
LegacyCounts == lg \in LegacyRun /\ Shown(lg) = MetricsAt(micros, OfBatch)
WindowHolds == "trans" \in DOMAIN rt /\ rt.trans = LastN(TransOf(micros), LabelWindow)
CountsInv ==
    /\ micros \in Seq(Published)
    /\ SameQuote /\ BatchesBegun /\ LegacyCounts /\ WindowHolds

LEMMA NothingCounted ==
    ASSUME NEW s
    PROVE  MetricsAt(s, {}) = [oneTick |-> 0, bounce |-> 0, genuine |-> 0]
BY FS_EmptySet DEF MetricsAt

LEMMA NewRun ==
    /\ NoQuote \in Prices /\ NewLegacyRun \in LegacyRun /\ NewLegacyRun.prev = NoQuote
    /\ Shown(NewLegacyRun) = [oneTick |-> 0, bounce |-> 0, genuine |-> 0]
<1>1. NoQuote \in Prices
  BY DEF NoQuote, Prices
<1>2. NoCounts \in [Labels -> Nat] /\ \A l \in Labels : NoCounts[l] = 0
  BY DEF NoCounts
<1>3. {High(1), High(-1), Likely(1), Likely(-1), Genuine(1), Genuine(-1)} \subseteq Labels
  BY DEF Labels, BounceLabels, GenuineLabels, HighLabels, LikelyLabels
<1> QED BY <1>1, <1>2, <1>3 DEF NewLegacyRun, LegacyRun, Shown

LEMMA CountsInit == LiveInit => CountsInv
<1> SUFFICES ASSUME LiveInit PROVE CountsInv
  OBVIOUS
<1>1. /\ micros = <<>> /\ batch = 0 /\ stream = FALSE /\ prev = NoQuote /\ lg = NewLegacyRun
      /\ rt = [trans |-> <<>>, label |-> Unlabelled, at |-> 0, sent |-> Unlabelled]
  BY DEF LiveInit
<1>2. micros \in Seq(Published) /\ DOMAIN micros = {} /\ Len(micros) = 0
  BY <1>1
<1>3. OfBatch = {}
  BY <1>2 DEF OfBatch
<1>4. LegacyCounts
  BY <1>1, <1>3, NewRun, NothingCounted DEF LegacyCounts
<1>5. WindowHolds
  <2>1. TransOf(micros) = <<>>
    <3>1. TransOf(micros) \in Seq(Carry(Published)) /\ Len(TransOf(micros)) = 0
      BY <1>2, TransIs
    <3> QED BY <3>1, EmptySeq
  <2>2. LastN(<<>>, LabelWindow) = <<>>
    BY LiveAssumption DEF LastN
  <2> QED BY <1>1, <2>1, <2>2 DEF WindowHolds
<1> QED BY <1>1, <1>2, <1>4, <1>5, NewRun DEF CountsInv, SameQuote, BatchesBegun

LEMMA CountsStart == CountsInv /\ StartStream => CountsInv'
<1> SUFFICES ASSUME CountsInv, StartStream PROVE CountsInv'
  OBVIOUS
<1>1. /\ ~stream /\ stream' = TRUE /\ batch' = batch + 1 /\ lg' = NewLegacyRun
      /\ prev' = prev /\ micros' = micros /\ rt' = rt
  BY DEF StartStream
<1>2. /\ BatchesBegun /\ WindowHolds /\ micros \in Seq(Published) /\ prev = NoQuote
  BY <1>1 DEF CountsInv, SameQuote
<1>3. OfBatch' = {}
  <2>1. ASSUME NEW i \in DOMAIN micros PROVE micros[i].batch # batch + 1
    BY <1>2 DEF BatchesBegun
  <2> QED BY <1>1, <2>1 DEF OfBatch
<1>4. LegacyCounts'
  BY <1>1, <1>3, NewRun, NothingCounted DEF LegacyCounts
<1>5. SameQuote'
  BY <1>1, <1>2, NewRun DEF SameQuote
<1>6. BatchesBegun'
  BY <1>1, <1>2 DEF BatchesBegun
<1>7. WindowHolds' /\ Published' = Published
  BY <1>1, <1>2 DEF WindowHolds, Published
<1> QED BY <1>1, <1>2, <1>4, <1>5, <1>6, <1>7 DEF CountsInv

(* A snapshot: counted by both or by neither.                              *)
LEMMA CountsSnapshot ==
    ASSUME CountsInv, NEW q \in Prices, NEW obi, NEW pause, Snapshot(q, obi, pause)
    PROVE  CountsInv'
<1> DEFINE label == ClassifyPair(mode, prev, q).label
           unit == OneTick(LastMove(prev, q))
           e == [batch |-> batch, seq |-> NextSeq, label |-> label, unit |-> unit]
           n == Len(micros) + 1
<1>1. /\ stream /\ stream' = stream /\ batch' = batch /\ prev' = q
      /\ lg' = OnLegacyRow(lg, q) /\ lg \in LegacyRun /\ prev \in Prices /\ prev = lg.prev
      /\ Shown(lg) = MetricsAt(micros, OfBatch) /\ BatchesBegun /\ WindowHolds
      /\ micros \in Seq(Published) /\ Len(micros) \in Nat /\ DOMAIN micros = 1..Len(micros)
  BY DEF Snapshot, CountsInv, SameQuote, LegacyCounts
<1>2. /\ lg' \in LegacyRun /\ lg'.prev = q
      /\ Shown(lg') = [oneTick |-> Shown(lg).oneTick + One(unit),
                       bounce  |-> Shown(lg).bounce + One(unit /\ label \in BounceLabels),
                       genuine |-> Shown(lg).genuine + One(unit /\ label \in GenuineLabels)]
  BY <1>1, LegacyStep
<1>3. SameQuote'
  BY <1>1, <1>2 DEF SameQuote
<1>4. IsFiniteSet(OfBatch) /\ n \notin OfBatch /\ n \in Nat
  <2>1. OfBatch \in SUBSET (1..Len(micros)) /\ 1 \in Int /\ Len(micros) \in Int
    BY <1>1 DEF OfBatch
  <2>2. IsFiniteSet(1..Len(micros))
    BY <2>1, FS_Interval
  <2>3. n \notin 1..Len(micros) /\ n \in Nat
    BY <1>1
  <2> HIDE DEF n
  <2> QED BY <2>1, <2>2, <2>3, FS_Subset
<1>5. CASE ~Usable(prev) \/ ~Usable(q)
  <2>1. MicroOf(q, NextSeq) = <<>>
    BY <1>5 DEF MicroOf
  <2>2. micros' = micros /\ rt' = rt
    BY <1>1, <2>1 DEF Snapshot
  <2>3. ~unit
    BY <1>1, <1>5, UnitMoveUsable
  <2> HIDE DEF unit, label
  <2>4. One(unit) = 0 /\ One(unit /\ label \in BounceLabels) = 0
        /\ One(unit /\ label \in GenuineLabels) = 0
    BY <2>3 DEF One
  <2>6. Shown(lg') = Shown(lg)
    BY <1>1, <1>2, <2>4, ShownIs
  <2>7. OfBatch' = OfBatch /\ Published' = Published
    BY <1>1, <2>2 DEF OfBatch, Published
  <2>8. LegacyCounts'
    BY <1>1, <1>2, <2>2, <2>6, <2>7 DEF LegacyCounts
  <2>9. BatchesBegun' /\ WindowHolds'
    BY <1>1, <2>2 DEF BatchesBegun, WindowHolds
  <2> QED BY <1>1, <1>3, <2>2, <2>7, <2>8, <2>9 DEF CountsInv
<1>6. CASE Usable(prev) /\ Usable(q)
  <2>1. MicroOf(q, NextSeq) = <<e>>
    BY <1>6 DEF MicroOf, MicroData
  <2>2. e.batch = batch /\ e.label = label /\ e.unit = unit
    OBVIOUS
  <2> HIDE DEF e
  <2>3. /\ micros' = micros \o <<e>>
        /\ rt' = OnMicro(rt, e, clock')
    <3>1. <<e>> # <<>> /\ <<e>>[1] = e
      OBVIOUS
    <3> QED BY <2>1, <3>1 DEF Snapshot
  <2> HIDE DEF unit, label
  <2>4. /\ micros' \in Seq(Published \cup {e}) /\ Len(micros') = n /\ micros'[n] = e
        /\ \A i \in 1..Len(micros) : micros'[i] = micros[i]
        /\ TransOf(micros) \in Seq(Carry(Published \cup {e}))
        /\ TransOf(micros') = Append(TransOf(micros), [label |-> e.label, unit |-> e.unit])
    <3> DEFINE t == With(micros, e)
    <3>0. micros \in Seq(Published \cup {e}) /\ e \in Published \cup {e}
      BY <1>1, SeqWiden
    <3>1. t \in Seq(Published \cup {e}) /\ Len(t) = n /\ t[n] = e
      BY <3>0, MoveAdded
    <3>4. TransOf(micros) \in Seq(Carry(Published \cup {e}))
      BY <3>0, MoveAdded
    <3>5. TransOf(t) = Append(TransOf(micros), [label |-> e.label, unit |-> e.unit])
      BY <3>0, MoveAdded
    <3>2. micros' = t
      BY <2>3 DEF With
    <3>3. \A i \in 1..Len(micros) : t[i] = micros[i]
      BY <1>1 DEF With
    <3> HIDE DEF t
    <3> QED BY <3>1, <3>2, <3>3, <3>4, <3>5
  <2>5. DOMAIN micros' = 1..n /\ 1..n = 1..Len(micros) \cup {n}
    BY <1>1, <2>4
  <2>6. Published' = Published \cup {e}
    <3> HIDE DEF n
    <3> QED BY <1>1, <2>4, <2>5 DEF Published
  <2>7. OfBatch' = OfBatch \cup {n}
    <3> HIDE DEF n
    <3> QED BY <1>1, <2>2, <2>4, <2>5 DEF OfBatch
  <2>8. MetricsAt(micros', OfBatch')
        = [oneTick |-> MetricsAt(micros, OfBatch).oneTick + One(unit),
           bounce  |-> MetricsAt(micros, OfBatch).bounce + One(unit /\ label \in BounceLabels),
           genuine |-> MetricsAt(micros, OfBatch).genuine + One(unit /\ label \in GenuineLabels)]
    <3>1. \A i \in OfBatch : micros'[i] = micros[i]
      BY <1>1, <2>4 DEF OfBatch
    <3>2. micros'[n] = e
      BY <2>4
    <3> HIDE DEF n
    <3> DEFINE old == MetricsAt(micros, OfBatch)
               m == micros'[n]
    <3>3. MetricsAt(micros', OfBatch \cup {n})
          = [oneTick |-> old.oneTick + One(m.unit),
             bounce  |-> old.bounce + One(m.unit /\ m.label \in BounceLabels),
             genuine |-> old.genuine + One(m.unit /\ m.label \in GenuineLabels)]
      BY <1>4, <3>1, MetricsOfMore
    <3>4. m.unit = unit /\ m.label = label
      BY <2>2, <3>2
    <3> HIDE DEF m, old
    <3>5. MetricsAt(micros', OfBatch')
          = [oneTick |-> old.oneTick + One(unit),
             bounce  |-> old.bounce + One(unit /\ label \in BounceLabels),
             genuine |-> old.genuine + One(unit /\ label \in GenuineLabels)]
      BY <2>7, <3>3, <3>4
    <3> QED BY <3>5 DEF old
  <2>9. LegacyCounts'
    BY <1>1, <1>2, <2>8 DEF LegacyCounts
  <2>10. BatchesBegun'
    <3> HIDE DEF n
    <3> QED BY <1>1, <2>2, <2>4, <2>5 DEF BatchesBegun
  <2>11. WindowHolds'
    <3> DEFINE x == [label |-> e.label, unit |-> e.unit]
               w == LastN(Append(rt.trans, x), LabelWindow)
    <3>1. "trans" \in DOMAIN rt' /\ rt'.trans = w
      <4>1. "trans" \in DOMAIN rt
        BY <1>1 DEF WindowHolds
      <4>2. \/ rt' = [rt EXCEPT !.trans = w]
            \/ rt' = [trans |-> w, label |-> e.label, at |-> clock', sent |-> Regime(Metrics(w))]
        BY <2>3 DEF OnMicro
      <4> HIDE DEF w
      <4> QED BY <4>1, <4>2
    <3>2. x \in Carry(Published \cup {e})
      BY DEF Carry
    <3> HIDE DEF x
    <3>3. w = LastN(Append(TransOf(micros), x), LabelWindow)
      BY <1>1, <2>4, <3>2, LiveAssumption, LastNAppend DEF WindowHolds
    <3>4. TransOf(micros') = Append(TransOf(micros), x)
      BY <2>4 DEF x
    <3> QED BY <3>1, <3>3, <3>4 DEF WindowHolds
  <2> QED BY <1>3, <2>4, <2>6, <2>9, <2>10, <2>11 DEF CountsInv
<1> QED BY <1>5, <1>6

LEMMA CountsStop == CountsInv /\ StopStream => CountsInv'
<1> SUFFICES ASSUME CountsInv, StopStream PROVE CountsInv'
  OBVIOUS
<1>1. /\ stream' = FALSE /\ prev' = NoQuote
      /\ UNCHANGED <<batch, micros, rt, lg>>
  BY DEF StopStream, NormalizerReset
<1>2. Published' = Published /\ BatchesBegun' /\ LegacyCounts' /\ WindowHolds'
  BY <1>1 DEF CountsInv, Published, BatchesBegun, LegacyCounts, WindowHolds, OfBatch
<1>3. SameQuote'
  BY <1>1, NewRun DEF SameQuote
<1> QED BY <1>1, <1>2, <1>3 DEF CountsInv

LEMMA CountsInvHolds == MarketSpec => []CountsInv
<1>1. MarketInit => CountsInv
  BY CountsInit DEF MarketInit
<1>2. CountsInv /\ [MarketNext]_marketVars => CountsInv'
  <2> SUFFICES ASSUME CountsInv, [MarketNext]_marketVars PROVE CountsInv'
    OBVIOUS
  <2>1. CASE Market \/ MarketWithDatabase
    <3>1. PICK q \in Prices : \E obi, pause : Snapshot(q, obi, pause)
      <4>1. CASE Market
        BY <4>1, QuotesAssumption DEF Market, Receive
      <4>2. CASE MarketWithDatabase
        BY <4>2, QuotesAssumption DEF MarketWithDatabase, Receive
      <4> QED BY <2>1, <4>1, <4>2
    <3> QED BY <3>1, CountsSnapshot
  <2>2. CASE StartStream
    BY <2>2, CountsStart
  <2>3. CASE StopStream
    BY <2>3, CountsStop
  <2>4. CASE UNCHANGED liveVars
    BY <2>4 DEF liveVars, CountsInv, SameQuote, Published, BatchesBegun, LegacyCounts,
                WindowHolds, OfBatch
  <2> QED BY <2>1, <2>2, <2>3, <2>4 DEF MarketNext, Start, Stop, marketVars
<1> QED BY <1>1, <1>2, PTL DEF MarketSpec

(* The dashboard's live counts (collector/live.py) and the gateway's       *)
(* realtime metrics (analysis/realtime.py) count the same one-tick moves,  *)
(* bounces and genuine moves, for any prices, settings, window and number  *)
(* of snapshots, although only one of them skips unusable quotes.          *)
THEOREM OneTickCountsAgreeHolds == MarketSpec => []OneTickCountsAgree
<1>1. CountsInv => OneTickCountsAgree
  <2> SUFFICES ASSUME CountsInv PROVE OneTickCountsAgree
    OBVIOUS
  <2>1. LegacyShown = Shown(lg)
    BY DEF LegacyShown, Shown
  <2>2. Metrics(rt.trans) = MetricsAt(micros, InWindow)
    <3>1. /\ micros \in Seq(Published) /\ rt.trans = LastN(TransOf(micros), LabelWindow)
          /\ LabelWindow \in Nat \ {0}
      BY LiveAssumption DEF CountsInv, WindowHolds
    <3>2. Metrics(LastN(TransOf(micros), LabelWindow))
          = MetricsAt(micros, {i \in DOMAIN micros : i > Len(micros) - LabelWindow})
      BY <3>1, WindowCounts
    <3> QED BY <3>1, <3>2 DEF InWindow
  <2> QED BY <2>1, <2>2 DEF CountsInv, LegacyCounts, OneTickCountsAgree
<1> QED BY <1>1, CountsInvHolds, PTL

-----------------------------------------------------------------------------
(* The live labels and the labels of a report.  The inductive invariant    *)
(* says where a row stands: batches and times do not run back, the rows of *)
(* a batch are numbered one by one, the normaliser compares with the last  *)
(* row of the running batch, and the micro events are those of the pairs of*)
(* usable neighbours of a batch.                                           *)
SameBatch(rs, i, j) == rs[i].batch = rs[j].batch
Ordered(rs) ==
    \A i, j \in 1..Len(rs) : i < j => /\ rs[i].batch <= rs[j].batch
                                      /\ rs[i].t <= rs[j].t
                                      /\ SameBatch(rs, i, j) => rs[j].seq - rs[i].seq = j - i
Numbered(rs) ==
    \A i \in 1..Len(rs) : /\ rs[i].seq >= 1
                          /\ rs[i].seq = 1 <=> i = 1 \/ ~SameBatch(rs, i - 1, i)

InBatch == {i \in DOMAIN rows : rows[i].batch = batch}
Running == Len(rows) > 0 /\ rows[Len(rows)].batch = batch
NotAhead == \A i \in 1..Len(rows) : rows[i].batch <= batch /\ rows[i].t <= clock
CountedBatch == Cardinality(InBatch) = IF Running THEN rows[Len(rows)].seq ELSE 0
ComparesWithLast == prev = IF stream /\ Running THEN rows[Len(rows)].q ELSE NoQuote

OfPair(md, m, rs, j) ==
    /\ SameBatch(rs, j - 1, j)
    /\ m.batch = rs[j].batch
    /\ m.seq = rs[j].seq
    /\ m.label = ClassifyPair(md, rs[j - 1].q, rs[j].q).label
UsablePair(rs, j) == SameBatch(rs, j - 1, j) /\ Usable(rs[j - 1].q) /\ Usable(rs[j].q)
MicrosOfPairs ==
    \A x \in DOMAIN micros : \E j \in 2..Len(rows) : OfPair(mode, micros[x], rows, j)
PairsPublished ==
    \A j \in 2..Len(rows) : UsablePair(rows, j) =>
      \E x \in DOMAIN micros : micros[x].batch = rows[j].batch /\ micros[x].seq = rows[j].seq

Numbering == Ordered(rows) /\ Numbered(rows) /\ NotAhead /\ CountedBatch /\ ComparesWithLast
StreamInv == Numbering /\ MicrosOfPairs /\ PairsPublished

(* One more row keeps a sequence of rows ordered and numbered.             *)
Extends(big, rs) ==
    /\ rs \in Seq(Rows) /\ big \in Seq(Rows)
    /\ Len(big) = Len(rs) + 1
    /\ \A i \in 1..Len(rs) : big[i] = rs[i]
Follows(r, rs) ==
    /\ \A i \in 1..Len(rs) : rs[i].batch <= r.batch /\ rs[i].t <= r.t
    /\ r.seq = IF Len(rs) > 0 /\ rs[Len(rs)].batch = r.batch THEN rs[Len(rs)].seq + 1 ELSE 1

LEMMA RowFields ==
    ASSUME NEW rs \in Seq(Rows)
    PROVE  /\ Len(rs) \in Nat
           /\ \A i \in 1..Len(rs) : /\ rs[i].q \in Prices /\ rs[i].batch \in Nat
                                    /\ rs[i].t \in Int /\ rs[i].seq \in Nat
<1>1. Len(rs) \in Nat /\ \A i \in 1..Len(rs) : rs[i] \in Rows
  OBVIOUS
<1>2. \A r \in Rows : r.q \in Prices /\ r.batch \in Nat /\ r.t \in Int /\ r.seq \in Nat
  BY DEF Rows
<1> QED BY <1>1, <1>2

LEMMA OrderedOneMore ==
    ASSUME NEW rs, NEW big, Extends(big, rs), Follows(big[Len(rs) + 1], rs), Ordered(rs)
    PROVE  Ordered(big)
<1> DEFINE n == Len(rs)
           r == big[n + 1]
<1>1. /\ n \in Nat /\ Len(big) = n + 1
      /\ \A i \in 1..n : rs[i].batch \in Nat /\ rs[i].t \in Int /\ rs[i].seq \in Nat
      /\ \A i \in 1..n : big[i] = rs[i]
      /\ r.batch \in Nat
  BY RowFields DEF Extends
<1>2. /\ \A i \in 1..n : rs[i].batch <= r.batch /\ rs[i].t <= r.t
      /\ r.seq = IF n > 0 /\ rs[n].batch = r.batch THEN rs[n].seq + 1 ELSE 1
  BY DEF Follows
<1>o. \A k, l \in 1..n : k < l => /\ rs[k].batch <= rs[l].batch
                                  /\ rs[k].batch = rs[l].batch => rs[l].seq - rs[k].seq = l - k
  BY DEF Ordered, SameBatch
<1> SUFFICES ASSUME NEW i \in 1..(n + 1), NEW j \in 1..(n + 1), i < j
             PROVE  /\ big[i].batch <= big[j].batch
                    /\ big[i].t <= big[j].t
                    /\ big[i].batch = big[j].batch => big[j].seq - big[i].seq = j - i
  BY <1>1 DEF Ordered, SameBatch
<1>3. CASE j <= n
  <2>1. i \in 1..n /\ j \in 1..n
    BY <1>1, <1>3
  <2> QED BY <2>1, <1>1 DEF Ordered, SameBatch
<1>4. CASE j = n + 1
  <2> HIDE DEF n, r
  <2>1. i \in 1..n /\ n \in 1..n /\ big[i] = rs[i] /\ big[j] = r
    BY <1>1, <1>4 DEF r
  <2>2. ASSUME rs[i].batch = r.batch PROVE r.seq - rs[i].seq = n + 1 - i
    <3>0. i = n \/ i < n
      BY <2>1, <1>1
    <3>1. rs[i].batch <= rs[n].batch /\ (rs[i].batch = rs[n].batch => rs[n].seq - rs[i].seq = n - i)
      <4>1. CASE i = n
        <5>1. rs[n].seq - rs[n].seq = 0 /\ n - n = 0 /\ rs[n].batch <= rs[n].batch
          BY <1>1, <2>1
        <5> QED BY <4>1, <5>1
      <4>2. CASE i < n
        BY <4>2, <2>1, <1>o
      <4> QED BY <3>0, <4>1, <4>2
    <3>2. rs[n].batch = r.batch
      BY <3>1, <2>1, <2>2, <1>1, <1>2
    <3>3. r.seq = rs[n].seq + 1 /\ rs[n].seq - rs[i].seq = n - i
      <4>1. rs[i].batch = rs[n].batch /\ n > 0
        BY <3>2, <2>2, <2>1, <1>1
      <4> QED BY <4>1, <3>1, <3>2, <1>2
    <3>4. rs[n].seq \in Int /\ rs[i].seq \in Int /\ n \in Int /\ i \in Int
      BY <2>1, <1>1
    <3> QED BY <3>3, <3>4
  <2>3. big[i].batch <= big[j].batch /\ big[i].t <= big[j].t
    BY <2>1, <1>2
  <2>4. big[i].batch = big[j].batch => big[j].seq - big[i].seq = j - i
    BY <2>1, <2>2, <1>4
  <2> QED BY <2>3, <2>4
<1> HIDE DEF n, r
<1>5. j <= n \/ j = n + 1
  BY <1>1
<1> QED BY <1>3, <1>4, <1>5

LEMMA NumberedOneMore ==
    ASSUME NEW rs, NEW big, Extends(big, rs), Follows(big[Len(rs) + 1], rs), Numbered(rs)
    PROVE  Numbered(big)
<1> DEFINE n == Len(rs)
           r == big[n + 1]
<1>1. /\ n \in Nat /\ Len(big) = n + 1
      /\ \A i \in 1..n : rs[i].batch \in Nat /\ rs[i].seq \in Nat
      /\ \A i \in 1..n : big[i] = rs[i]
  BY RowFields DEF Extends
<1>2. r.seq = IF n > 0 /\ rs[n].batch = r.batch THEN rs[n].seq + 1 ELSE 1
  BY DEF Follows
<1> SUFFICES ASSUME NEW i \in 1..(n + 1)
             PROVE  /\ big[i].seq >= 1
                    /\ big[i].seq = 1 <=> i = 1 \/ ~SameBatch(big, i - 1, i)
  BY <1>1 DEF Numbered
<1>3. CASE i <= n
  <2>1. i \in 1..n /\ (i = 1 \/ i - 1 \in 1..n)
    BY <1>1, <1>3
  <2>2. i = 1 \/ (SameBatch(big, i - 1, i) <=> SameBatch(rs, i - 1, i))
    BY <2>1, <1>1 DEF SameBatch
  <2> QED BY <2>1, <2>2, <1>1 DEF Numbered
<1>4. CASE i = n + 1
  <2>1. n = 0 \/ n \in 1..n
    BY <1>1
  <2>2. n \in 1..n => big[n] = rs[n] /\ rs[n].seq \in Nat /\ rs[n].seq >= 1
    BY <1>1 DEF Numbered
  <2> HIDE DEF n, r
  <2>3. big[i] = r /\ i - 1 = n
    BY <1>4, <1>1 DEF r
  <2>4. SameBatch(big, i - 1, i) <=> big[n].batch = r.batch
    BY <2>3 DEF SameBatch
  <2> QED BY <2>1, <2>2, <2>3, <2>4, <1>1, <1>2, <1>4
<1> QED BY <1>1, <1>3, <1>4

LEMMA NumberingInit == LiveInit => Numbering
<1> SUFFICES ASSUME LiveInit PROVE Numbering
  OBVIOUS
<1>1. rows = <<>> /\ prev = NoQuote /\ Len(rows) = 0 /\ DOMAIN rows = {}
  BY DEF LiveInit
<1>2. \A i \in 1..Len(rows) : FALSE
  BY <1>1
<1>3. Ordered(rows) /\ Numbered(rows) /\ NotAhead
  BY <1>2 DEF Ordered, Numbered, NotAhead
<1>4. InBatch = {} /\ ~Running
  BY <1>1 DEF InBatch, Running
<1>5. CountedBatch
  BY <1>4, FS_EmptySet DEF CountedBatch
<1> QED BY <1>1, <1>3, <1>4, <1>5 DEF Numbering, ComparesWithLast

LEMMA NumberingStart == RowsOK /\ Numbering /\ StartStream => Numbering'
<1> SUFFICES ASSUME RowsOK, Numbering, StartStream PROVE Numbering'
  OBVIOUS
<1>1. /\ ~stream /\ batch' = batch + 1 /\ rows' = rows /\ prev' = prev /\ clock' = clock
      /\ batch \in Nat /\ rows \in Seq(Rows)
  BY DEF StartStream, RowsOK
<1>2. \A i \in 1..Len(rows) : rows[i].batch \in Nat /\ rows[i].batch <= batch /\ rows[i].t <= clock
  BY <1>1, RowFields DEF Numbering, NotAhead
<1>3. NotAhead'
  BY <1>1, <1>2 DEF NotAhead
<1>4. \A i \in 1..Len(rows) : rows[i].batch # batch + 1
  BY <1>1, <1>2
<1>5. Len(rows) \in Nat /\ DOMAIN rows = 1..Len(rows)
  BY <1>1
<1>6. InBatch' = {}
  BY <1>1, <1>4, <1>5 DEF InBatch
<1>7. ~Running'
  <2>1. Len(rows) > 0 => Len(rows) \in 1..Len(rows)
    BY <1>5
  <2> QED BY <1>1, <1>4, <2>1 DEF Running
<1>8. CountedBatch' /\ ComparesWithLast'
  BY <1>1, <1>6, <1>7, FS_EmptySet DEF CountedBatch, ComparesWithLast, Numbering
<1> QED BY <1>1, <1>3, <1>8 DEF Numbering

LEMMA NumberingStop == Numbering /\ StopStream => Numbering'
BY DEF StopStream, NormalizerReset, Numbering, NotAhead, CountedBatch, ComparesWithLast,
       Running, InBatch

LEMMA NumberingSnapshot ==
    ASSUME RowsOK, Numbering,
           NEW q, NEW obi, NEW pause, Quote(q, obi, pause), Snapshot(q, obi, pause)
    PROVE  /\ Numbering'
           /\ Extends(rows', rows)
           /\ LET r == rows'[Len(rows) + 1] IN
              r.q = q /\ r.batch = batch /\ r.seq = NextSeq
<1> DEFINE n == Len(rows)
           r == rows'[n + 1]
<1>1. /\ stream' = stream /\ stream /\ batch' = batch /\ clock' = clock + pause /\ prev' = q
      /\ clock \in Nat /\ pause \in Nat /\ batch \in Nat
  BY DEF Snapshot, RowsOK, Quote
<1>2. Extends(rows', rows) /\ n \in Nat
  BY SnapshotRow DEF RowsOK, Extends
<1>3. r.q = q /\ r.t = clock + pause /\ r.batch = batch /\ r.seq = NextSeq
  <2>1. r = [q |-> q, obi |-> obi, t |-> clock + pause, batch |-> batch, seq |-> NextSeq]
    BY SnapshotRow
  <2> HIDE DEF r
  <2> QED BY <2>1
<1>4. /\ rows \in Seq(Rows) /\ rows' \in Seq(Rows) /\ DOMAIN rows = 1..n /\ DOMAIN rows' = 1..(n + 1)
      /\ Len(rows') = n + 1 /\ \A i \in 1..n : rows'[i] = rows[i]
      /\ \A i \in 1..n : rows[i].t \in Int
  BY <1>2, RowFields DEF Extends
<1> HIDE DEF r
<1>5. /\ IsFiniteSet(InBatch) /\ Cardinality(InBatch) \in Nat /\ NextSeq = 1 + Cardinality(InBatch)
  BY <1>4, InBatchFinite DEF InBatch
<1>6. NextSeq = IF Running THEN rows[n].seq + 1 ELSE 1
  BY <1>5 DEF Numbering, CountedBatch
<1>7. Follows(r, rows)
  <2>1. \A i \in 1..n : rows[i].batch <= batch /\ rows[i].t <= clock
    BY DEF Numbering, NotAhead
  <2>2. \A i \in 1..n : rows[i].batch <= r.batch /\ rows[i].t <= r.t
    BY <2>1, <1>1, <1>3, <1>4
  <2>3. r.seq = IF n > 0 /\ rows[n].batch = r.batch THEN rows[n].seq + 1 ELSE 1
    BY <1>3, <1>6 DEF Running
  <2> QED BY <2>2, <2>3 DEF Follows
<1>8. Ordered(rows)' /\ Numbered(rows)'
  BY <1>2, <1>7, OrderedOneMore, NumberedOneMore DEF Numbering, r
<1>9. NotAhead'
  <2> SUFFICES ASSUME NEW i \in 1..(n + 1) PROVE rows'[i].batch <= batch' /\ rows'[i].t <= clock'
    BY <1>4 DEF NotAhead
  <2>1. CASE i = n + 1
    BY <2>1, <1>1, <1>3 DEF r
  <2>2. CASE i \in 1..n
    BY <2>2, <1>1, <1>4 DEF Numbering, NotAhead
  <2> QED BY <2>1, <2>2, <1>2
<1>10. Running' /\ rows'[Len(rows')] = r
  <2>1. Len(rows') = n + 1 /\ n + 1 > 0
    BY <1>2, <1>4
  <2>2. rows'[Len(rows')] = r
    BY <2>1 DEF r
  <2> QED BY <2>1, <2>2, <1>1, <1>3 DEF Running
<1>11. CountedBatch'
  <2>1. InBatch' = InBatch \cup {n + 1}
    <3>1. 1..(n + 1) = 1..n \cup {n + 1}
      BY <1>2
    <3>2. rows'[n + 1].batch = batch
      BY <1>3 DEF r
    <3> HIDE DEF n
    <3> QED BY <3>1, <3>2, <1>1, <1>4 DEF InBatch
  <2>2. n + 1 \notin InBatch
    BY <1>2, <1>4 DEF InBatch
  <2>3. Cardinality(InBatch') = Cardinality(InBatch) + 1
    BY <2>1, <2>2, <1>5, FS_AddElement
  <2> QED BY <2>3, <1>3, <1>5, <1>10 DEF CountedBatch
<1>12. ComparesWithLast'
  BY <1>1, <1>3, <1>10 DEF ComparesWithLast
<1> QED BY <1>2, <1>3, <1>8, <1>9, <1>11, <1>12 DEF Numbering, r

(* A snapshot publishes a micro event exactly when it and the quote before *)
(* it are usable.                                                          *)
Silent(q) == ~Usable(prev) \/ ~Usable(q)
LEMMA MicroAdded ==
    ASSUME micros \in Seq(Published), NEW q, NEW obi, NEW pause, Snapshot(q, obi, pause)
    PROVE  LET n == Len(micros)
               m == micros'[n + 1]
           IN /\ n \in Nat /\ DOMAIN micros = 1..n
              /\ Silent(q) => micros' = micros
              /\ ~Silent(q) =>
                   /\ DOMAIN micros' = 1..(n + 1)
                   /\ \A x \in 1..n : micros'[x] = micros[x]
                   /\ m.batch = batch /\ m.seq = NextSeq
                   /\ m.label = ClassifyPair(mode, prev, q).label
<1> DEFINE n == Len(micros)
           label == ClassifyPair(mode, prev, q).label
           e == [batch |-> batch, seq |-> NextSeq, label |-> label,
                 unit |-> OneTick(LastMove(prev, q))]
<1>1. n \in Nat /\ DOMAIN micros = 1..n
  OBVIOUS
<1>2. ASSUME Silent(q) PROVE micros' = micros
  <2>1. MicroOf(q, NextSeq) = <<>>
    BY <1>2 DEF MicroOf, Silent
  <2> QED BY <2>1 DEF Snapshot
<1>3. ASSUME ~Silent(q)
      PROVE  /\ DOMAIN micros' = 1..(n + 1)
             /\ \A x \in 1..n : micros'[x] = micros[x]
             /\ micros'[n + 1] = e
  <2>1. MicroOf(q, NextSeq) = <<e>>
    BY <1>3 DEF MicroOf, MicroData, Silent
  <2> HIDE DEF e
  <2>2. micros' = micros \o <<e>>
    BY <2>1 DEF Snapshot
  <2>3. micros \in Seq(Published \cup {e}) /\ e \in Published \cup {e}
    <3>1. Published \subseteq Published \cup {e}
      OBVIOUS
    <3> QED BY <3>1, SeqWiden
  <2> DEFINE t == With(micros, e)
  <2>4. t \in Seq(Published \cup {e}) /\ Len(t) = n + 1 /\ t[n + 1] = e
    BY <2>3, MoveAdded
  <2>5. micros' = t /\ \A x \in 1..n : t[x] = micros[x]
    BY <2>2, <1>1 DEF With
  <2> HIDE DEF t
  <2>6. DOMAIN t = 1..(n + 1)
    BY <2>4
  <2> QED BY <2>4, <2>5, <2>6
<1>4. e.batch = batch /\ e.seq = NextSeq /\ e.label = label
  OBVIOUS
<1> HIDE DEF e, label
<1> QED BY <1>1, <1>2, <1>3, <1>4 DEF label

LEMMA PairsSnapshot ==
    ASSUME RowsOK, CountsInv, StreamInv,
           NEW q, NEW obi, NEW pause, Quote(q, obi, pause), Snapshot(q, obi, pause)
    PROVE  StreamInv'
<1> DEFINE n == Len(rows)
           k == Len(micros)
           r == rows'[n + 1]
           m == micros'[k + 1]
<1>1. /\ Numbering' /\ Extends(rows', rows) /\ n \in Nat /\ Len(rows') = n + 1
      /\ \A i \in 1..n : rows'[i] = rows[i]
      /\ r.q = q /\ r.batch = batch /\ r.seq = NextSeq
  BY NumberingSnapshot DEF StreamInv, RowsOK, Extends
<1>2. stream /\ mode' = mode
  BY DEF Snapshot
<1>3. prev = IF Running THEN rows[n].q ELSE NoQuote
  BY <1>2 DEF StreamInv, Numbering, ComparesWithLast
<1>4. ~Usable(NoQuote)
  BY DEF Usable, NoQuote, Valid, NoPrice
<1>5. Usable(prev) => n \in 1..n /\ rows[n].batch = batch /\ prev = rows[n].q
  BY <1>1, <1>3, <1>4 DEF Running
<1>6. /\ k \in Nat /\ DOMAIN micros = 1..k
      /\ Silent(q) => micros' = micros
      /\ ~Silent(q) =>
           /\ DOMAIN micros' = 1..(k + 1)
           /\ \A x \in 1..k : micros'[x] = micros[x]
           /\ m.batch = batch /\ m.seq = NextSeq
           /\ m.label = ClassifyPair(mode, prev, q).label
  BY MicroAdded DEF CountsInv
<1> HIDE DEF n, k, r, m
<1>7. ASSUME NEW j \in 2..n
      PROVE  /\ j \in 2..(n + 1) /\ rows'[j] = rows[j]
             /\ SameBatch(rows', j - 1, j) <=> SameBatch(rows, j - 1, j)
             /\ UsablePair(rows', j) <=> UsablePair(rows, j)
             /\ \A x : OfPair(mode', x, rows', j) <=> OfPair(mode, x, rows, j)
  <2>1. j \in 2..(n + 1) /\ j \in 1..n /\ j - 1 \in 1..n
    BY <1>1
  <2>2. rows'[j] = rows[j] /\ rows'[j - 1] = rows[j - 1]
    BY <2>1, <1>1
  <2> QED BY <2>1, <2>2, <1>2 DEF OfPair, SameBatch, UsablePair
<1>8. /\ \A x \in 1..k : \E j \in 2..n : OfPair(mode, micros[x], rows, j)
      /\ \A j \in 2..n : UsablePair(rows, j) =>
           \E x \in 1..k : micros[x].batch = rows[j].batch /\ micros[x].seq = rows[j].seq
  BY <1>6 DEF StreamInv, MicrosOfPairs, PairsPublished, n
<1>9. \A x \in 1..k : \E j \in 2..(n + 1) : OfPair(mode', micros[x], rows', j)
  BY <1>7, <1>8
<1>10. \A j \in 2..n : UsablePair(rows', j) =>
         \E x \in 1..k : micros[x].batch = rows'[j].batch /\ micros[x].seq = rows'[j].seq
  BY <1>7, <1>8
<1>11. \A j \in 2..(n + 1) : j \in 2..n \/ j = n + 1
  BY <1>1
<1>12. rows'[n + 1] = r /\ (n + 1) - 1 = n
  BY <1>1 DEF r
<1>13. CASE Silent(q)
  <2>1. MicrosOfPairs'
    BY <1>1, <1>6, <1>9, <1>13 DEF MicrosOfPairs
  <2>2. n + 1 \in 2..(n + 1) => ~UsablePair(rows', n + 1)
    <3> SUFFICES ASSUME n + 1 \in 2..(n + 1), UsablePair(rows', n + 1) PROVE FALSE
      OBVIOUS
    <3>1. n \in 1..n /\ rows'[n] = rows[n]
      BY <1>1
    <3>2. rows[n].batch = batch /\ Usable(rows[n].q) /\ Usable(q)
      BY <3>1, <1>1, <1>12 DEF UsablePair, SameBatch
    <3>3. prev = rows[n].q
      BY <3>1, <3>2, <1>1, <1>3 DEF Running, n
    <3> QED BY <3>2, <3>3, <1>13 DEF Silent
  <2>3. PairsPublished'
    BY <1>1, <1>6, <1>10, <1>11, <1>13, <2>2 DEF PairsPublished
  <2> QED BY <1>1, <2>1, <2>3 DEF StreamInv
<1>14. CASE ~Silent(q)
  <2>1. /\ DOMAIN micros' = 1..(k + 1) /\ \A x \in 1..k : micros'[x] = micros[x]
        /\ micros'[k + 1] = m
        /\ m.batch = batch /\ m.seq = NextSeq /\ m.label = ClassifyPair(mode, prev, q).label
    BY <1>6, <1>14 DEF m
  <2>2. /\ n \in 1..n /\ n + 1 \in 2..(n + 1) /\ rows'[n] = rows[n]
        /\ rows[n].batch = batch /\ prev = rows[n].q
    BY <1>1, <1>5, <1>14 DEF Silent
  <2>3. OfPair(mode', m, rows', n + 1)
    BY <1>1, <1>2, <1>12, <2>1, <2>2 DEF OfPair, SameBatch
  <2>4. \A x \in 1..(k + 1) : x \in 1..k \/ x = k + 1
    BY <1>6
  <2>5. \A x \in 1..(k + 1) : \E j \in 2..(n + 1) : OfPair(mode', micros'[x], rows', j)
    <3> SUFFICES ASSUME NEW x \in 1..(k + 1)
                 PROVE  \E j \in 2..(n + 1) : OfPair(mode', micros'[x], rows', j)
      OBVIOUS
    <3>1. CASE x \in 1..k
      BY <3>1, <1>9, <2>1
    <3>2. CASE x = k + 1
      BY <3>2, <2>1, <2>2, <2>3
    <3> QED BY <3>1, <3>2, <2>4
  <2>6. MicrosOfPairs'
    BY <1>1, <2>1, <2>5 DEF MicrosOfPairs
  <2>7. k + 1 \in 1..(k + 1) /\ 1..k \subseteq 1..(k + 1)
    BY <1>6
  <2>8. \A j \in 2..(n + 1) : UsablePair(rows', j) =>
          \E x \in 1..(k + 1) : /\ micros'[x].batch = rows'[j].batch
                                /\ micros'[x].seq = rows'[j].seq
    <3> SUFFICES ASSUME NEW j \in 2..(n + 1), UsablePair(rows', j)
                 PROVE  \E x \in 1..(k + 1) : /\ micros'[x].batch = rows'[j].batch
                                              /\ micros'[x].seq = rows'[j].seq
      OBVIOUS
    <3>1. CASE j \in 2..n
      <4>1. PICK x \in 1..k : micros[x].batch = rows'[j].batch /\ micros[x].seq = rows'[j].seq
        BY <3>1, <1>10
      <4> QED BY <4>1, <2>1, <2>7
    <3>2. CASE j = n + 1
      BY <3>2, <1>1, <1>12, <2>1, <2>7
    <3> QED BY <3>1, <3>2, <1>11
  <2>9. PairsPublished'
    BY <1>1, <2>1, <2>8 DEF PairsPublished
  <2> QED BY <1>1, <2>6, <2>9 DEF StreamInv
<1> QED BY <1>13, <1>14

LEMMA StreamInvHolds == MarketSpec => []StreamInv
<1>1. MarketInit => StreamInv
  <2> SUFFICES ASSUME LiveInit PROVE StreamInv
    BY DEF MarketInit
  <2>1. micros = <<>> /\ rows = <<>>
    BY DEF LiveInit
  <2>2. MicrosOfPairs /\ PairsPublished
    BY <2>1 DEF MicrosOfPairs, PairsPublished
  <2> QED BY <2>2, NumberingInit DEF StreamInv
<1>2. RowsOK /\ CountsInv /\ StreamInv /\ [MarketNext]_marketVars => StreamInv'
  <2> SUFFICES ASSUME RowsOK, CountsInv, StreamInv, [MarketNext]_marketVars PROVE StreamInv'
    OBVIOUS
  <2>0. ASSUME UNCHANGED <<mode, rows, micros>>, Numbering' PROVE StreamInv'
    BY <2>0 DEF StreamInv, MicrosOfPairs, PairsPublished
  <2>1. CASE Market \/ MarketWithDatabase
    BY <2>1, QuotesReceived, PairsSnapshot DEF Receive
  <2>2. CASE StartStream
    <3>1. Numbering'
      BY <2>2, NumberingStart DEF StreamInv
    <3> QED BY <2>0, <2>2, <3>1 DEF StartStream
  <2>3. CASE StopStream
    <3>1. Numbering'
      BY <2>3, NumberingStop DEF StreamInv
    <3> QED BY <2>0, <2>3, <3>1 DEF StopStream
  <2>4. CASE UNCHANGED liveVars
    <3>1. Numbering'
      BY <2>4 DEF liveVars, StreamInv, Numbering, NotAhead, CountedBatch, ComparesWithLast,
                  Running, InBatch
    <3> QED BY <2>0, <2>4, <3>1 DEF liveVars
  <2> QED BY <2>1, <2>2, <2>3, <2>4 DEF MarketNext, Start, Stop, marketVars
<1> QED BY <1>1, <1>2, RowsOKHolds, CountsInvHolds, PTL DEF MarketSpec

(* Places in the stream: the row of a batch with a given number is one, the*)
(* rows between two of a batch are of it.                                  *)
LEMMA PlacesInBatch ==
    ASSUME NEW rs \in Seq(Rows), Ordered(rs),
           NEW i \in 1..Len(rs), NEW j \in 1..Len(rs), SameBatch(rs, i, j)
    PROVE  /\ i < j <=> rs[i].seq < rs[j].seq
           /\ rs[i].seq = rs[j].seq => i = j
           /\ i < j => /\ j - 1 \in 1..Len(rs)
                       /\ SameBatch(rs, j - 1, j)
                       /\ rs[j - 1].seq = rs[j].seq - 1
                       /\ j - 1 = i \/ rs[i].seq < rs[j - 1].seq
<1> DEFINE n == Len(rs)
           b(k) == rs[k].batch
           s(k) == rs[k].seq
<1>1. n \in Nat /\ \A k \in 1..n : b(k) \in Nat /\ s(k) \in Nat
  BY RowFields
<1>2. \A k, l \in 1..n : k < l => b(k) <= b(l) /\ (b(k) = b(l) => s(l) - s(k) = l - k)
  BY DEF Ordered, SameBatch
<1>3. i \in 1..n /\ j \in 1..n /\ b(i) = b(j)
  BY DEF SameBatch
<1> HIDE DEF n, b, s
<1>4. i = j \/ i < j \/ j < i
  BY <1>1, <1>3
<1>5. (i < j => s(i) < s(j)) /\ (j < i => s(j) < s(i)) /\ s(i) \in Nat /\ s(j) \in Nat
  BY <1>1, <1>2, <1>3
<1>6. (i < j <=> s(i) < s(j)) /\ (s(i) = s(j) => i = j)
  BY <1>4, <1>5
<1>7. ASSUME i < j
      PROVE  /\ j - 1 \in 1..n /\ b(j - 1) = b(j) /\ s(j - 1) = s(j) - 1
             /\ j - 1 = i \/ s(i) < s(j - 1)
  <2>1. j - 1 \in 1..n /\ (j - 1 = i \/ i < j - 1) /\ j - 1 < j
    BY <1>1, <1>3, <1>7
  <2>2. b(j - 1) = b(j)
    <3>1. b(i) <= b(j - 1) /\ b(j - 1) <= b(j)
      BY <2>1, <1>1, <1>2, <1>3
    <3>2. b(j - 1) \in Nat /\ b(j) \in Nat
      BY <2>1, <1>1, <1>3
    <3> QED BY <3>1, <3>2, <1>3
  <2>3. s(j - 1) = s(j) - 1
    <3>1. s(j) - s(j - 1) = j - (j - 1) /\ s(j) \in Int /\ s(j - 1) \in Int
      BY <2>1, <2>2, <1>1, <1>2, <1>3
    <3> QED BY <3>1, <1>3
  <2>4. j - 1 = i \/ s(i) < s(j - 1)
    <3>1. ASSUME i < j - 1 PROVE s(i) < s(j - 1)
      <4>1. s(j - 1) - s(i) = (j - 1) - i /\ s(i) \in Int /\ s(j - 1) \in Int
        BY <3>1, <2>1, <2>2, <1>1, <1>2, <1>3
      <4> QED BY <4>1, <3>1, <1>3
    <3> QED BY <2>1, <3>1
  <2> QED BY <2>1, <2>2, <2>3, <2>4
<1> QED BY <1>6, <1>7 DEF n, b, s, SameBatch

(* The label published live for a row is the one of its pair.              *)
LEMMA LiveLabelOfPair ==
    ASSUME RowsOK, StreamInv, NEW j \in 2..Len(rows), UsablePair(rows, j)
    PROVE  LiveLabel(rows[j]) = ClassifyPair(mode, rows[j - 1].q, rows[j].q).label
<1> DEFINE M == {x \in DOMAIN micros : micros[x].batch = rows[j].batch
                                       /\ micros[x].seq = rows[j].seq}
           label == ClassifyPair(mode, rows[j - 1].q, rows[j].q).label
           x == CHOOSE i \in DOMAIN micros : /\ micros[i].batch = rows[j].batch
                                             /\ micros[i].seq = rows[j].seq
<1>1. \E i \in DOMAIN micros : micros[i].batch = rows[j].batch /\ micros[i].seq = rows[j].seq
  BY DEF StreamInv, PairsPublished
<1>2. x \in DOMAIN micros /\ micros[x].batch = rows[j].batch /\ micros[x].seq = rows[j].seq
  BY <1>1
<1>3. LiveLabel(rows[j]) = micros[x].label
  BY <1>1 DEF LiveLabel
<1> HIDE DEF x
<1>4. PICK k \in 2..Len(rows) : OfPair(mode, micros[x], rows, k)
  BY <1>2 DEF StreamInv, MicrosOfPairs
<1>5. k = j
  <2>1. /\ rows \in Seq(Rows) /\ Ordered(rows) /\ Len(rows) \in Nat
        /\ k \in 1..Len(rows) /\ j \in 1..Len(rows)
    BY DEF RowsOK, StreamInv, Numbering
  <2>2. SameBatch(rows, k, j) /\ rows[k].seq = rows[j].seq
    BY <1>2, <1>4 DEF OfPair, SameBatch
  <2> QED BY <2>1, <2>2, PlacesInBatch
<1> QED BY <1>3, <1>4, <1>5 DEF OfPair

LEMMA NoLiveLabelOfFirst ==
    ASSUME RowsOK, StreamInv, NEW j \in 1..Len(rows), rows[j].seq = 1
    PROVE  LiveLabel(rows[j]) = Unlabelled
<1>1. ASSUME NEW x \in DOMAIN micros, micros[x].batch = rows[j].batch,
             micros[x].seq = rows[j].seq
      PROVE  FALSE
  <2>1. PICK k \in 2..Len(rows) : OfPair(mode, micros[x], rows, k)
    BY DEF StreamInv, MicrosOfPairs
  <2>2. rows[k].seq = 1 /\ SameBatch(rows, k - 1, k)
    BY <1>1, <2>1 DEF OfPair
  <2>3. k \in 1..Len(rows) /\ k # 1
    OBVIOUS
  <2> QED BY <2>2, <2>3 DEF StreamInv, Numbering, Numbered
<1> QED BY <1>1 DEF LiveLabel

(* Neighbours a, b of a report, at places p and j of the stream.           *)
LEMMA ReportFollowsLive ==
    ASSUME RowsOK, StreamInv, NEW p \in 1..Len(rows), NEW j \in 1..Len(rows),
           NextSnapshot(rows[p], rows[j]), Usable(rows[p].q), Usable(rows[j].q)
    PROVE  LiveLabel(rows[j]) = ClassifyPair(mode, rows[p].q, rows[j].q).label
<1> DEFINE n == Len(rows)
<1>1. rows \in Seq(Rows) /\ Ordered(rows) /\ n \in Nat
  BY DEF RowsOK, StreamInv, Numbering
<1>2. SameBatch(rows, p, j) /\ rows[p].seq < rows[j].seq
  BY DEF NextSnapshot, SameBatch
<1>3. p < j
  BY <1>1, <1>2, PlacesInBatch
<1>4. j - 1 \in 1..n /\ SameBatch(rows, j - 1, j) /\ rows[j - 1].seq = rows[j].seq - 1
  BY <1>1, <1>2, <1>3, PlacesInBatch
<1>5. j - 1 = p \/ rows[p].seq < rows[j - 1].seq
  BY <1>1, <1>2, <1>3, PlacesInBatch
<1>6. rows[j - 1].q = rows[p].q
  <2>1. ASSUME rows[p].seq < rows[j - 1].seq PROVE rows[j - 1].q = rows[p].q
    <3>1. rows[p].seq \in Nat /\ rows[j].seq \in Nat /\ rows[j - 1].seq \in Nat
      BY <1>1, <1>4, RowFields
    <3>2. rows[j - 1].seq \in (rows[p].seq + 1)..(rows[j].seq - 1)
      BY <2>1, <3>1, <1>4
    <3>3. rows[j - 1].batch = rows[p].batch /\ j - 1 \in DOMAIN rows
      BY <1>1, <1>2, <1>4 DEF SameBatch
    <3>4. SameContent(rows[j - 1], rows[p])
      BY <3>2, <3>3 DEF NextSnapshot
    <3> QED BY <3>4 DEF SameContent
  <2> QED BY <1>5, <2>1
<1>7. UsablePair(rows, j)
  BY <1>4, <1>6 DEF UsablePair
<1>8. j \in 2..n
  BY <1>1, <1>4
<1> QED BY <1>6, <1>7, <1>8, LiveLabelOfPair

(* Of two snapshots that came one after the other, at most a minute apart, *)
(* a report gives the second the label published live for it, for any      *)
(* quotes, repetitions, batches and order in which the files of the batches*)
(* are loaded (README.md:34).  Not so after a longer pause or              *)
(* across a snapshot that the report drops: see PanelMatchesReport.        *)
THEOREM LiveMatchesReportHolds == MarketSpec => []LiveMatchesReport
<1>1. RowsOK /\ StreamInv => LiveMatchesReport
  <2> SUFFICES ASSUME RowsOK, StreamInv PROVE LiveMatchesReport
    OBVIOUS
  <2> DEFINE c == CleanRows(Loaded(rows))
             f == Report(mode, rows)
             n == Len(rows)
  <2>1. rows \in Seq(Rows) /\ mode \in Settings /\ n \in Nat /\ DOMAIN rows = 1..n
    BY DEF RowsOK
  <2>2. PICK at : RowsOf(c, rows, at)
    BY <2>1, CleanRowsAre
  <2>3. f = Frame(mode, c)
    BY DEF Report
  <2> HIDE DEF c, f, n
  <2>4. /\ c \in Seq(Rows) /\ Len(c) \in Nat /\ at \in [1..Len(c) -> 1..n]
        /\ \A i \in 1..Len(c) : c[i] = rows[at[i]] /\ Usable(c[i].q)
        /\ \A i, k \in 1..Len(c) : i < k =>
             /\ at[i] # at[k]
             /\ c[i].t < c[k].t \/ (c[i].t = c[k].t /\ c[i].seq <= c[k].seq)
    BY <2>1, <2>2 DEF RowsOf
  <2>5. DOMAIN f = 1..Len(c)
    BY <2>3, <2>4, FrameIs
  <2> SUFFICES ASSUME NEW i \in DOMAIN f \ {1}
               PROVE  LET a == f[i - 1].row
                          b == f[i].row
                      IN /\ NextSnapshot(a, b) /\ b.t - a.t <= LongGap
                              => f[i].label = LiveLabel(b)
                         /\ b.seq = 1 => {f[i].label, LiveLabel(b)} = {Unlabelled}
    BY DEF LiveMatchesReport, f
  <2> DEFINE a == c[i - 1]
             b == c[i]
             p == at[i - 1]
             j == at[i]
  <2>6. i \in 1..Len(c) /\ i - 1 \in 1..Len(c) /\ i - 1 < i /\ i # 1
    BY <2>4, <2>5
  <2>7. f[i - 1].row = a /\ f[i].row = b
    BY <2>3, <2>4, <2>6, FrameRowIs
  <2>8. f[i].label = IF Boundary(c, i) THEN Unlabelled ELSE ClassifyArrays(mode, a.q, b.q).label
    BY <2>3, <2>4, <2>6, FrameRowIs
  <2>9. Boundary(c, i) <=> b.t - a.t > LongGap \/ b.batch # a.batch
    BY <2>6 DEF Boundary
  <2>10. /\ p \in 1..n /\ j \in 1..n /\ p # j /\ a = rows[p] /\ b = rows[j]
         /\ Usable(a.q) /\ Usable(b.q)
         /\ a.t < b.t \/ (a.t = b.t /\ a.seq <= b.seq)
    BY <2>4, <2>6
  <2> HIDE DEF a, b, p, j
  <2>11. a.q \in Prices /\ b.q \in Prices /\ a.t \in Int /\ b.t \in Int
         /\ a.seq \in Nat /\ b.seq \in Nat
    BY <2>1, <2>10, RowFields DEF n
  <2>12. ASSUME NextSnapshot(a, b), b.t - a.t <= LongGap
         PROVE  f[i].label = LiveLabel(b)
    <3>1. LiveLabel(b) = ClassifyPair(mode, a.q, b.q).label
      BY <2>10, <2>12, ReportFollowsLive DEF n
    <3>2. ClassifyArrays(mode, a.q, b.q) = ClassifyPair(mode, a.q, b.q)
      BY <2>1, <2>11, ClassifiersAgree
    <3>3. a.batch = b.batch
      BY <2>12 DEF NextSnapshot
    <3>4. ~Boundary(c, i)
      BY <3>3, <2>9, <2>11, <2>12 DEF LongGap
    <3> QED BY <3>1, <3>2, <3>4, <2>8
  <2>13. ASSUME b.seq = 1 PROVE f[i].label = Unlabelled /\ LiveLabel(b) = Unlabelled
    <3>1. LiveLabel(b) = Unlabelled
      BY <2>10, <2>13, NoLiveLabelOfFirst DEF n
    <3>2. a.batch # b.batch
      <4> SUFFICES ASSUME a.batch = b.batch PROVE FALSE
        OBVIOUS
      <4>1. Ordered(rows) /\ Numbered(rows) /\ SameBatch(rows, p, j)
        BY <2>10 DEF StreamInv, Numbering, SameBatch
      <4>2. a.seq >= 1 /\ a.seq # b.seq
        <5>1. a.seq >= 1
          BY <4>1, <2>10 DEF Numbered, n
        <5>2. rows[p].seq = rows[j].seq => p = j
          BY <4>1, <2>1, <2>10, PlacesInBatch DEF n
        <5> QED BY <5>1, <5>2, <2>10
      <4>3. ~(a.seq < b.seq) /\ a.seq > b.seq
        BY <4>2, <2>13, <2>11
      <4>4. ~(p < j)
        BY <4>1, <4>3, <2>1, <2>10, PlacesInBatch DEF n
      <4>5. j < p
        BY <4>4, <2>10, <2>1
      <4>6. b.t <= a.t
        BY <4>1, <4>5, <2>10 DEF Ordered, n
      <4> QED BY <4>3, <4>6, <2>10, <2>11
    <3> QED BY <3>1, <3>2, <2>8, <2>9
  <2> QED BY <2>7, <2>12, <2>13
<1> QED BY <1>1, RowsOKHolds, StreamInvHolds, PTL
=============================================================================
