--------------------------- MODULE RestartProofs ---------------------------
(***************************************************************************)
(* TLAPS proofs about QueueRestart, for every set of ticks, queues and     *)
(* jobs and every page size: no job is lost or doubled however ticks       *)
(* overlap, and a tick throws only over a job that another one put back.   *)
(***************************************************************************)
EXTENDS QueueRestart, SequenceTheorems, TLAPS

\* A part of a sequence that lies within it.
LEMMA Slice ==
  ASSUME NEW S, NEW s \in Seq(S), NEW m \in Int, NEW n \in Int, m >= 1, n <= Len(s)
  PROVE  /\ SubSeq(s, m, n) \in Seq(S)
         /\ Len(SubSeq(s, m, n)) = IF m <= n THEN n - m + 1 ELSE 0
         /\ \A i \in 1..(n - m + 1) : SubSeq(s, m, n)[i] = s[m + i - 1]
<1>1. \A i \in m..n : s[i] \in S
  BY LenProperties, ElementOfSeq
<1> QED BY <1>1, SubSeqProperties

\* Two parts of a sequence joined, the element at position p between them left out:
\* the elements, apart from what sequences are.
LEMMA Splice ==
  ASSUME NEW n \in Nat, NEW p \in 1..n, NEW s, NEW a, NEW b, NEW w,
         \A i \in 1..(p - 1 - 1 + 1) : a[i] = s[1 + i - 1],
         \A i \in 1..(n - (p + 1) + 1) : b[i] = s[p + 1 + i - 1],
         \A i \in 1..(p - 1 + (n - p)) : w[i] = IF i <= p - 1 THEN a[i] ELSE b[i - (p - 1)]
  PROVE  \A i \in 1..(n - 1) : w[i] = IF i < p THEN s[i] ELSE s[i + 1]
<1> SUFFICES ASSUME NEW i \in 1..(n - 1) PROVE w[i] = IF i < p THEN s[i] ELSE s[i + 1]
  OBVIOUS
<1>1. w[i] = IF i <= p - 1 THEN a[i] ELSE b[i - (p - 1)]
  OBVIOUS
<1>2. CASE i < p
  <2>1. i \in 1..(p - 1 - 1 + 1) /\ 1 + i - 1 = i
    BY <1>2
  <2> QED BY <1>1, <1>2, <2>1
<1>3. CASE i >= p
  <2>1. i - (p - 1) \in 1..(n - (p + 1) + 1) /\ p + 1 + (i - (p - 1)) - 1 = i + 1
    BY <1>3
  <2>2. b[i - (p - 1)] = s[p + 1 + (i - (p - 1)) - 1]
    BY <2>1
  <2> QED BY <1>1, <1>3, <2>1, <2>2
<1> QED BY <1>2, <1>3

\* A sequence without the element at position p.
LEMMA Removal ==
  ASSUME NEW S, NEW s \in Seq(S), NEW p \in 1..Len(s),
         NEW w, w = SubSeq(s, 1, p - 1) \o SubSeq(s, p + 1, Len(s))
  PROVE  /\ w \in Seq(S) /\ Len(w) = Len(s) - 1
         /\ \A i \in 1..(Len(s) - 1) : w[i] = IF i < p THEN s[i] ELSE s[i + 1]
<1> DEFINE n == Len(s)
<1>0. n \in Nat /\ p \in 1..n
  BY LenProperties
<1>1. PICK a : a = SubSeq(s, 1, p - 1)
  OBVIOUS
<1>2. PICK b : b = SubSeq(s, p + 1, n)
  OBVIOUS
<1>3. /\ a \in Seq(S) /\ Len(a) = IF 1 <= p - 1 THEN p - 1 - 1 + 1 ELSE 0
      /\ \A i \in 1..(p - 1 - 1 + 1) : a[i] = s[1 + i - 1]
  <2>1. p - 1 \in Int /\ p - 1 <= Len(s)
    BY <1>0
  <2> QED BY <1>1, <2>1, Slice
<1>4. /\ b \in Seq(S) /\ Len(b) = IF p + 1 <= n THEN n - (p + 1) + 1 ELSE 0
      /\ \A i \in 1..(n - (p + 1) + 1) : b[i] = s[p + 1 + i - 1]
  <2>1. p + 1 \in Int /\ p + 1 >= 1 /\ n \in Int /\ n <= Len(s)
    BY <1>0
  <2> QED BY <1>2, <2>1, Slice
<1>5. /\ w \in Seq(S) /\ Len(w) = Len(a) + Len(b)
      /\ \A i \in 1..(Len(a) + Len(b)) : w[i] = IF i <= Len(a) THEN a[i] ELSE b[i - Len(a)]
  <2>1. /\ a \o b \in Seq(S) /\ Len(a \o b) = Len(a) + Len(b)
        /\ \A i \in 1..(Len(a) + Len(b)) : (a \o b)[i] = IF i <= Len(a) THEN a[i] ELSE b[i - Len(a)]
    BY ONLY <1>3, <1>4, ConcatProperties
  <2>2. w = a \o b
    BY ONLY <1>1, <1>2, w = SubSeq(s, 1, p - 1) \o SubSeq(s, p + 1, Len(s)) DEF n
  <2> QED BY ONLY <2>1, <2>2, Zenon
<1> HIDE DEF n
<1>6. Len(a) = p - 1
  BY <1>0, <1>3
<1>7. Len(b) = n - p
  BY <1>0, <1>4
<1>8. Len(w) = n - 1
  BY <1>0, <1>5, <1>6, <1>7
<1>9. \A i \in 1..(n - 1) : w[i] = IF i < p THEN s[i] ELSE s[i + 1]
  <2>1. \A i \in 1..(p - 1 + (n - p)) : w[i] = IF i <= p - 1 THEN a[i] ELSE b[i - (p - 1)]
    BY ONLY <1>5, <1>6, <1>7, Zenon
  <2>2. \A i \in 1..(p - 1 - 1 + 1) : a[i] = s[1 + i - 1]
    BY ONLY <1>3
  <2>3. \A i \in 1..(n - (p + 1) + 1) : b[i] = s[p + 1 + i - 1]
    BY ONLY <1>4
  <2> QED BY ONLY <1>0, <2>1, <2>2, <2>3, Splice
<1> QED BY <1>5, <1>8, <1>9 DEF n

\* A sequence without one of its elements.
LEMMA WithoutFacts ==
  ASSUME NEW S, NEW s \in Seq(S), IsInjective(s), NEW j
  PROVE  /\ Without(s, j) \in Seq(S)
         /\ Len(Without(s, j)) <= Len(s)
         /\ IsInjective(Without(s, j))
         /\ \A k : InSeq(Without(s, j), k) <=> InSeq(s, k) /\ k # j
<1>0. DOMAIN s = 1..Len(s) /\ Len(s) \in Nat /\ \A i \in 1..Len(s) : s[i] \in S
  BY LenProperties, ElementOfSeq
<1>1. CASE ~InSeq(s, j)
  BY <1>1 DEF Without, InSeq
<1>2. CASE InSeq(s, j)
  <2> DEFINE p == CHOOSE k \in DOMAIN s : s[k] = j
             w == SubSeq(s, 1, p - 1) \o SubSeq(s, p + 1, Len(s))
  <2>1. p \in 1..Len(s) /\ s[p] = j
    BY <1>0, <1>2 DEF InSeq
  <2>2. Without(s, j) = w
    BY <1>2 DEF Without
  <2> HIDE DEF p
  <2>5. /\ w \in Seq(S) /\ Len(w) = Len(s) - 1
        /\ \A i \in 1..(Len(s) - 1) : w[i] = IF i < p THEN s[i] ELSE s[i + 1]
    BY <2>1, Removal, ZenonT(60)
  <2> HIDE DEF w
  <2>7. DOMAIN w = 1..(Len(s) - 1)
    BY <2>5, LenProperties
  <2>8. IsInjective(w)
    BY <1>0, <2>1, <2>5, <2>7, SMTT(30) DEF IsInjective
  <2>9. ASSUME NEW k, InSeq(w, k) PROVE InSeq(s, k) /\ k # j
    <3>1. PICK i \in 1..(Len(s) - 1) : w[i] = k
      BY <2>7, <2>9 DEF InSeq
    <3>2. CASE i < p
      <4>1. k = s[i] /\ i \in 1..Len(s) /\ i # p
        BY <1>0, <2>1, <2>5, <3>1, <3>2
      <4> QED BY <1>0, <2>1, <4>1 DEF InSeq, IsInjective
    <3>3. CASE i >= p
      <4>1. k = s[i + 1] /\ i + 1 \in 1..Len(s) /\ i + 1 # p
        BY <1>0, <2>1, <2>5, <3>1, <3>3
      <4> QED BY <1>0, <2>1, <4>1 DEF InSeq, IsInjective
    <3> QED BY <1>0, <2>1, <3>2, <3>3
  <2>10. ASSUME NEW k, InSeq(s, k), k # j PROVE InSeq(w, k)
    <3>1. PICK i \in 1..Len(s) : s[i] = k
      BY <1>0, <2>10 DEF InSeq
    <3>2. CASE i < p
      <4>1. i \in 1..(Len(s) - 1) /\ w[i] = k
        BY <1>0, <2>1, <2>5, <3>1, <3>2
      <4> QED BY <2>7, <4>1 DEF InSeq
    <3>3. CASE i > p
      <4>1. i - 1 \in 1..(Len(s) - 1) /\ w[i - 1] = k
        BY <1>0, <2>1, <2>5, <3>1, <3>3
      <4> QED BY <2>7, <4>1 DEF InSeq
    <3>4. i # p
      BY <2>1, <2>10, <3>1
    <3> QED BY <1>0, <2>1, <3>2, <3>3, <3>4
  <2> QED BY <1>0, <2>2, <2>5, <2>8, <2>9, <2>10
<1> QED BY <1>1, <1>2

\* A sequence behind its first element.
LEMMA TailFacts ==
  ASSUME NEW S, NEW s \in Seq(S), s # <<>>, IsInjective(s)
  PROVE  /\ Head(s) \in S /\ InSeq(s, Head(s))
         /\ Tail(s) \in Seq(S) /\ Len(Tail(s)) <= Len(s)
         /\ IsInjective(Tail(s))
         /\ \A k : InSeq(Tail(s), k) => InSeq(s, k) /\ k # Head(s)
<1>1. /\ DOMAIN s = 1..Len(s) /\ Len(s) \in Nat \ {0}
      /\ Head(s) = s[1] /\ Head(s) \in S
      /\ Tail(s) \in Seq(S) /\ Len(Tail(s)) = Len(s) - 1
      /\ \A i \in 1..(Len(s) - 1) : Tail(s)[i] = s[i + 1]
  BY HeadTailProperties, LenProperties, EmptySeq
<1>2. DOMAIN Tail(s) = 1..(Len(s) - 1)
  BY <1>1, LenProperties
<1>3. IsInjective(Tail(s))
  BY <1>1, <1>2 DEF IsInjective
<1>4. \A k : InSeq(Tail(s), k) => InSeq(s, k) /\ k # Head(s)
  BY <1>1, <1>2 DEF InSeq, IsInjective
<1> QED BY <1>1, <1>3, <1>4 DEF InSeq

\* What Bull's getFailed returns of a sequence: a page of it, none after the second.
LEMMA PageFacts ==
  ASSUME NEW S, NEW s \in Seq(S), IsInjective(s), NEW a \in {0, Limit, 2 * Limit}
  PROVE  /\ Range0(s, a, Limit) \in Seq(S) /\ IsInjective(Range0(s, a, Limit))
         /\ Len(Range0(s, a, Limit)) <= IF a = 0 THEN Limit + 1 ELSE 1
         /\ \A k : InSeq(Range0(s, a, Limit), k) => InSeq(s, k)
         /\ a = 2 * Limit => Range0(s, a, Limit) = <<>>
<1>0. DOMAIN s = 1..Len(s) /\ Len(s) \in Nat /\ \A i \in 1..Len(s) : s[i] \in S
  BY LenProperties, ElementOfSeq
<1> DEFINE last == IF Limit < Len(s) THEN Limit ELSE Len(s) - 1
           r == SubSeq(s, a + 1, last + 1)
<1>1. Range0(s, a, Limit) = r
  BY DEF Range0
<1>2. last \in Int /\ last <= Limit /\ last + 1 <= Len(s) /\ Limit >= 1 /\ a \in Nat
  BY <1>0, LimitAssumption
<1> HIDE DEF last
<1>3. /\ r \in Seq(S) /\ Len(r) = IF a + 1 <= last + 1 THEN last - a + 1 ELSE 0
      /\ \A i \in 1..(last - a + 1) : r[i] = s[a + i]
  <2>2. a + 1 \in Int /\ last + 1 \in Int /\ a + 1 >= 1
    BY <1>2
  <2>3. /\ r \in Seq(S) /\ Len(r) = IF a + 1 <= last + 1 THEN last + 1 - (a + 1) + 1 ELSE 0
        /\ \A i \in 1..(last + 1 - (a + 1) + 1) : r[i] = s[a + 1 + i - 1]
    BY <1>2, <2>2, Slice
  <2> HIDE DEF r
  <2> QED BY <1>2, <2>3
<1> HIDE DEF r
<1>4. DOMAIN r = 1..Len(r)
  BY <1>3, LenProperties
<1>5. \A i \in DOMAIN r : a + i \in 1..Len(s) /\ r[i] = s[a + i]
  BY <1>2, <1>3, <1>4
<1>6. IsInjective(r)
  BY <1>0, <1>2, <1>4, <1>5 DEF IsInjective
<1>7. \A k : InSeq(r, k) => InSeq(s, k)
  BY <1>0, <1>5 DEF InSeq
<1>8. Len(r) <= IF a = 0 THEN Limit + 1 ELSE 1
  <2>1. CASE a = 0
    BY <1>2, <1>3, <2>1, LimitAssumption
  <2>2. CASE a # 0
    <3>1. last - a + 1 <= 1
      BY <1>2, <2>2, LimitAssumption
    <3> QED BY <1>2, <1>3, <2>2, <3>1
  <2> QED BY <2>1, <2>2
<1>9. ASSUME a = 2 * Limit PROVE r = <<>>
  <2>1. a + 1 > last + 1
    BY <1>2, <1>9, LimitAssumption
  <2>2. Len(r) = 0
    BY <1>2, <1>3, <2>1
  <2> QED BY <1>3, <2>2, EmptySeq
<1> QED BY <1>1, <1>3, <1>6, <1>7, <1>8, <1>9

\* A sequence with one more element in front.
LEMMA PushFacts ==
  ASSUME NEW S, NEW s \in Seq(S), IsInjective(s), NEW j \in S, ~InSeq(s, j)
  PROVE  /\ <<j>> \o s \in Seq(S) /\ IsInjective(<<j>> \o s)
         /\ \A k : InSeq(<<j>> \o s, k) <=> k = j \/ InSeq(s, k)
<1>0. DOMAIN s = 1..Len(s) /\ Len(s) \in Nat
  BY LenProperties
<1>1. PICK n \in Nat : n = Len(s)
  BY <1>0
<1>2. PICK w : w = <<j>> \o s
  OBVIOUS
<1>3. /\ w \in Seq(S) /\ Len(w) = 1 + n
      /\ \A i \in 1..(1 + n) : w[i] = IF i <= 1 THEN j ELSE s[i - 1]
  <2>1. <<j>> \in Seq(S) /\ Len(<<j>>) = 1 /\ <<j>>[1] = j
    OBVIOUS
  <2>2. /\ <<j>> \o s \in Seq(S) /\ Len(<<j>> \o s) = Len(<<j>>) + Len(s)
        /\ \A i \in 1..(Len(<<j>>) + Len(s)) :
              (<<j>> \o s)[i] = IF i <= Len(<<j>>) THEN <<j>>[i] ELSE s[i - Len(<<j>>)]
    BY <2>1, ConcatProperties
  <2>3. /\ w \in Seq(S) /\ Len(w) = 1 + n
        /\ \A i \in 1..(1 + n) : w[i] = IF i <= 1 THEN <<j>>[i] ELSE s[i - 1]
    BY ONLY <1>1, <1>2, <2>1, <2>2, Zenon
  <2>4. ASSUME NEW i \in 1..(1 + n) PROVE w[i] = IF i <= 1 THEN j ELSE s[i - 1]
    <3>1. i <= 1 => i = 1
      OBVIOUS
    <3> QED BY ONLY <2>1, <2>3, <3>1, i \in 1..(1 + n)
  <2> QED BY ONLY <2>3, <2>4
<1>4. DOMAIN w = 1..(1 + n) /\ DOMAIN s = 1..n
  BY <1>0, <1>1, <1>3, LenProperties
<1>5. w[1] = j /\ \A i \in 1..n : w[i + 1] = s[i]
  <2>1. ASSUME NEW i \in 1..n PROVE i + 1 \in 1..(1 + n) /\ ~(i + 1 <= 1) /\ i + 1 - 1 = i
    OBVIOUS
  <2>2. 1 \in 1..(1 + n)
    OBVIOUS
  <2> QED BY ONLY <1>3, <2>1, <2>2
<1>6. \A k \in 1..(1 + n) : k = 1 \/ \E i \in 1..n : k = i + 1
  <2>1. \A k \in 2..(1 + n) : k - 1 \in 1..n /\ k = k - 1 + 1
    OBVIOUS
  <2> QED BY <2>1
<1>7. \A k : InSeq(w, k) <=> k = j \/ InSeq(s, k)
  <2>1. \A i \in 1..n : i + 1 \in 1..(1 + n)
    OBVIOUS
  <2>2. 1 \in 1..(1 + n)
    OBVIOUS
  <2>3. ASSUME NEW k, InSeq(w, k), k # j PROVE InSeq(s, k)
    <3>1. PICK m \in 1..(1 + n) : w[m] = k
      BY ONLY <1>4, <2>3 DEF InSeq
    <3>2. PICK i \in 1..n : m = i + 1
      BY ONLY <1>5, <1>6, <2>3, <3>1
    <3>3. s[i] = k
      BY ONLY <1>5, <3>1, <3>2
    <3> QED BY ONLY <1>4, <3>3 DEF InSeq
  <2>4. ASSUME NEW k, InSeq(s, k) PROVE InSeq(w, k)
    <3>1. PICK i \in 1..n : s[i] = k
      BY ONLY <1>4, <2>4 DEF InSeq
    <3>2. w[i + 1] = k /\ i + 1 \in 1..(1 + n)
      BY ONLY <1>5, <2>1, <3>1
    <3> QED BY ONLY <1>4, <3>2 DEF InSeq
  <2>5. InSeq(w, j)
    BY ONLY <1>4, <1>5, <2>2 DEF InSeq
  <2> QED BY ONLY <2>3, <2>4, <2>5, Zenon
<1>8. IsInjective(w)
  <2> SUFFICES ASSUME NEW a \in 1..(1 + n), NEW b \in 1..(1 + n), w[a] = w[b] PROVE a = b
    BY <1>4 DEF IsInjective
  <2>1. \A i \in 1..n : s[i] # j
    BY <1>4 DEF InSeq
  <2>2. \A i, k \in 1..n : s[i] = s[k] => i = k
    BY <1>4 DEF IsInjective
  <2>3. a = 1 \/ \E i \in 1..n : a = i + 1 /\ w[a] = s[i]
    BY <1>5, <1>6
  <2>4. b = 1 \/ \E i \in 1..n : b = i + 1 /\ w[b] = s[i]
    BY <1>5, <1>6
  <2>5. w[1] = j /\ w[a] = w[b]
    BY <1>5
  <2> QED BY ONLY <2>1, <2>2, <2>3, <2>4, <2>5
<1> QED BY <1>2, <1>3, <1>7, <1>8

-----------------------------------------------------------------------------
(* Every step preserves RestartInv *)

\* A tick that stays where it is, with a page that only lost jobs, is still on a page
\* it may act on, if none of the jobs left became busy behind its back.
LEMMA PageKept ==
  ASSUME NEW t \in Ticks, PageInv(t),
         page[t] \in Seq(Jobs), page'[t] \in Seq(Jobs), offset[t] \in {0, Limit, 2 * Limit},
         pc'[t] = pc[t], at'[t] = at[t], offset'[t] = offset[t],
         Len(page'[t]) <= Len(page[t]), IsInjective(page'[t]),
         \A k \in Jobs : InSeq(page'[t], k) =>
            /\ InSeq(page[t], k)
            /\ Failed(k) \/ k \in stale[t] => Failed(k)' \/ k \in stale'[t]
  PROVE  PageInv(t)'
<1>1. /\ pc'[t] # "idle" => at'[t] \in DOMAIN Queues
      /\ pc'[t] = "look" => offset'[t] # 2 * Limit
  BY DEF PageInv
<1>2. pc'[t] # "look" => page'[t] = <<>>
  <2>1. Len(<<>>) = 0 /\ Len(page'[t]) \in Nat
    BY LenProperties
  <2>2. pc'[t] # "look" => Len(page'[t]) = 0
    BY <2>1 DEF PageInv
  <2> QED BY <2>2, EmptySeq
<1>3. Len(page'[t]) <= IF offset'[t] = 0 THEN Limit + 1 ELSE 1
  <2>1. Len(page'[t]) \in Nat /\ Len(page[t]) \in Nat /\ Limit \in Nat
    BY LenProperties, LimitAssumption
  <2>2. Len(page[t]) <= IF offset[t] = 0 THEN Limit + 1 ELSE 1
    BY DEF PageInv
  <2> QED BY ONLY <2>1, <2>2, offset'[t] = offset[t], Len(page'[t]) <= Len(page[t])
<1>4. \A k \in Jobs : InSeq(page'[t], k) =>
        QueueOf[k] = Queues[at'[t]] /\ (Failed(k)' \/ k \in stale'[t])
  BY Zenon DEF PageInv
<1> QED BY <1>1, <1>2, <1>3, <1>4 DEF PageInv

\* What a queue holds are the failed jobs of that queue.
LEMMA InOwnQueue ==
  ASSUME JobsInv, NEW q \in QueueSet, NEW k \in Jobs, InSeq(failed[q], k)
  PROVE  QueueOf[k] = q /\ Failed(k)
BY DEF JobsInv, Failed

\* JobFails preserves the invariant: a busy job is in no queue's set.
LEMMA JobFailsKeeps ==
  ASSUME RestartInv, NEW j \in Jobs, JobFails(j)
  PROVE  RestartInv'
<1>0. TypeOK /\ JobsInv /\ \A t \in Ticks : PageInv(t)
  BY DEF RestartInv
<1> DEFINE f == failed[QueueOf[j]]
<1>1. QueueOf[j] \in QueueSet /\ f \in Seq(Jobs) /\ IsInjective(f) /\ ~InSeq(f, j)
  BY <1>0, QueuesAssumption DEF TypeOK, JobsInv, JobFails, Failed
<1>2. failed' = [failed EXCEPT ![QueueOf[j]] = <<j>> \o f]
  BY DEF JobFails
<1>3. /\ <<j>> \o f \in Seq(Jobs) /\ IsInjective(<<j>> \o f)
      /\ \A k : InSeq(<<j>> \o f, k) <=> k = j \/ InSeq(f, k)
  BY <1>1, PushFacts
<1>4. failed' \in [QueueSet -> Seq(Jobs)]
  BY <1>0, <1>2, <1>3 DEF TypeOK
<1>5. \A q \in QueueSet : failed'[q] = IF q = QueueOf[j] THEN <<j>> \o f ELSE failed[q]
  BY <1>0, <1>2 DEF TypeOK
<1>6. \A k \in Jobs : Failed(k)' <=> k = j \/ Failed(k)
  <2>1. \A k \in Jobs : QueueOf[k] \in QueueSet
    BY QueuesAssumption
  <2> QED BY <1>3, <1>5, <2>1 DEF Failed
<1>7. TypeOK'
  BY <1>0, <1>4 DEF TypeOK, JobFails, tickVars
<1>8. JobsInv'
  <2>1. \A k \in Jobs : Failed(k)' <=> k \notin busy'
    BY <1>0, <1>6 DEF JobsInv, JobFails
  <2>2. \A q \in QueueSet : /\ IsInjective(failed'[q])
                             /\ \A k \in Jobs : InSeq(failed'[q], k) => QueueOf[k] = q
    BY <1>0, <1>3, <1>5 DEF JobsInv
  <2>3. \A k \in old' : Failed(k)'
    BY <1>0, <1>6 DEF JobsInv, JobFails, TypeOK
  <2> QED BY <2>1, <2>2, <2>3 DEF JobsInv
<1>9. ASSUME NEW t \in Ticks PROVE PageInv(t)'
  BY <1>0, <1>6 DEF PageInv, JobFails, tickVars
<1> QED BY <1>7, <1>8, <1>9 DEF RestartInv

\* Age preserves the invariant.
LEMMA AgeKeeps ==
  ASSUME RestartInv, NEW j \in Jobs, Age(j)
  PROVE  RestartInv'
<1>0. TypeOK /\ JobsInv /\ \A t \in Ticks : PageInv(t)
  BY DEF RestartInv
<1>1. Failed(j)
  BY DEF Age, Failed, InSeq
<1>2. \A k \in Jobs : Failed(k)' <=> Failed(k)
  BY DEF Failed, Age
<1>3. TypeOK'
  BY <1>0 DEF TypeOK, Age, tickVars
<1>4. JobsInv'
  <2>1. failed' = failed /\ busy' = busy /\ old' = old \cup {j}
    BY DEF Age
  <2>2. \A k \in old' : Failed(k)'
    BY <1>0, <1>1, <1>2, <2>1 DEF JobsInv, TypeOK
  <2> QED BY <1>0, <1>2, <2>1, <2>2 DEF JobsInv
<1>5. ASSUME NEW t \in Ticks PROVE PageInv(t)'
  BY <1>0, <1>2 DEF PageInv, Age, tickVars
<1> QED BY <1>3, <1>4, <1>5 DEF RestartInv

\* A step that leaves the jobs alone keeps what is said of them.
LEMMA JobsKept ==
  ASSUME JobsInv, UNCHANGED <<failed, old, busy>>
  PROVE  JobsInv' /\ \A k \in Jobs : Failed(k)' <=> Failed(k)
BY DEF JobsInv, Failed

\* A tick that another one's step leaves alone, jobs included, stays as it is.
LEMMA PageSame ==
  ASSUME NEW t \in Ticks, PageInv(t), \A k \in Jobs : Failed(k)' <=> Failed(k),
         pc'[t] = pc[t], at'[t] = at[t], offset'[t] = offset[t],
         page'[t] = page[t], stale'[t] = stale[t]
  PROVE  PageInv(t)'
BY DEF PageInv

\* Begin preserves the invariant.
LEMMA BeginKeeps ==
  ASSUME RestartInv, NEW t \in Ticks, Begin(t)
  PROVE  RestartInv'
<1>0. TypeOK /\ JobsInv /\ \A u \in Ticks : PageInv(u)
  BY DEF RestartInv
<1>1. TypeOK'
  BY <1>0 DEF TypeOK, Begin, jobVars
<1>2. JobsInv' /\ \A k \in Jobs : Failed(k)' <=> Failed(k)
  BY <1>0, JobsKept DEF Begin, jobVars
<1>3. ASSUME NEW u \in Ticks PROVE PageInv(u)'
  <2>1. CASE u = t
    <3>1. 1 \in DOMAIN Queues
      <4>1. Queues \in Seq(QueueSet) /\ Queues # <<>>
        BY QueuesAssumption DEF Begin
      <4> QED BY <4>1, LenProperties, EmptySeq
    <3>2. at[t] \in DOMAIN Queues
      BY <1>0, <3>1 DEF TypeOK
    <3>3. pc'[t] = "read" /\ pc[t] = "idle"
      BY <1>0 DEF Begin, TypeOK
    <3> QED BY <1>0, <1>2, <2>1, <3>2, <3>3 DEF PageInv, Begin
  <2>2. CASE u # t
    <3>1. pc'[u] = pc[u]
      BY <1>0, <2>2 DEF Begin, TypeOK
    <3> QED BY <1>0, <1>2, <3>1, PageSame DEF Begin
  <2> QED BY <2>1, <2>2
<1> QED BY <1>1, <1>2, <1>3 DEF RestartInv

\* The tick's way to its next queue, or home, stays within the queues.
LEMMA NextQueueGoes ==
  ASSUME TypeOK, NEW t \in Ticks, PageInv(t), pc[t] = "read", NextQueue(t)
  PROVE  /\ pc' \in [Ticks -> {"idle", "read", "look"}]
         /\ at' \in [Ticks -> DOMAIN Queues \cup {1}]
         /\ \A u \in Ticks \ {t} : pc'[u] = pc[u] /\ at'[u] = at[u]
         /\ pc'[t] \in {"idle", "read"} /\ (pc'[t] = "read" => at'[t] \in DOMAIN Queues)
<1>1. at[t] \in DOMAIN Queues /\ DOMAIN Queues = 1..Len(Queues) /\ Len(Queues) \in Nat
  BY QueuesAssumption, LenProperties DEF PageInv
<1>2. CASE at[t] = Len(Queues)
  BY <1>1, <1>2 DEF NextQueue, TypeOK
<1>3. CASE at[t] # Len(Queues)
  <2>1. at[t] + 1 \in DOMAIN Queues
    BY <1>1, <1>3
  <2> QED BY <1>3, <2>1 DEF NextQueue, TypeOK
<1> QED BY <1>2, <1>3

\* Read preserves the invariant: what getFailed returns is what the tick may act on,
\* and the third page it asks for is empty.
LEMMA ReadKeeps ==
  ASSUME RestartInv, NEW t \in Ticks, Read(t)
  PROVE  RestartInv'
<1>0. TypeOK /\ JobsInv /\ \A u \in Ticks : PageInv(u)
  BY DEF RestartInv
<1>1. JobsInv' /\ \A k \in Jobs : Failed(k)' <=> Failed(k)
  BY <1>0, JobsKept DEF Read, jobVars
<1> DEFINE q == Queues[at[t]]
           jobs == GetFailed(q, offset[t], Limit)
<1>2. q \in QueueSet
  BY <1>0 DEF Read, PageInv, QueueSet
<1>3. failed[q] \in Seq(Jobs) /\ IsInjective(failed[q]) /\ offset[t] \in {0, Limit, 2 * Limit}
  BY <1>0, <1>2 DEF TypeOK, JobsInv
<1>4. jobs = Range0(failed[q], offset[t], Limit)
  BY DEF GetFailed
<1>5. /\ jobs \in Seq(Jobs) /\ IsInjective(jobs)
      /\ Len(jobs) <= IF offset[t] = 0 THEN Limit + 1 ELSE 1
      /\ \A k : InSeq(jobs, k) => InSeq(failed[q], k)
      /\ offset[t] = 2 * Limit => jobs = <<>>
  BY <1>3, <1>4, PageFacts
<1>6. \A k \in Jobs : InSeq(jobs, k) => QueueOf[k] = q /\ Failed(k)
  BY <1>0, <1>2, <1>5, InOwnQueue
<1>7. /\ page' = [page EXCEPT ![t] = jobs] /\ stale' = [stale EXCEPT ![t] = {}]
      /\ pc[t] = "read" /\ UNCHANGED <<failed, old, busy, answers>>
      /\ jobs = <<>> => NextQueue(t) /\ offset' = [offset EXCEPT ![t] = 0]
      /\ jobs # <<>> => pc' = [pc EXCEPT ![t] = "look"] /\ UNCHANGED <<at, offset>>
  BY DEF Read, jobVars
<1> HIDE DEF jobs
<1>8. /\ page' \in [Ticks -> Seq(Jobs)] /\ stale' \in [Ticks -> SUBSET Jobs]
      /\ page'[t] = jobs /\ \A u \in Ticks \ {t} : page'[u] = page[u] /\ stale'[u] = stale[u]
  BY <1>0, <1>5, <1>7 DEF TypeOK
<1>9. CASE jobs = <<>>
  <2>1. NextQueue(t) /\ offset' = [offset EXCEPT ![t] = 0]
    BY <1>7, <1>9
  <2>2. /\ pc' \in [Ticks -> {"idle", "read", "look"}]
        /\ at' \in [Ticks -> DOMAIN Queues \cup {1}]
        /\ \A u \in Ticks \ {t} : pc'[u] = pc[u] /\ at'[u] = at[u]
        /\ pc'[t] \in {"idle", "read"} /\ (pc'[t] = "read" => at'[t] \in DOMAIN Queues)
    BY <1>0, <1>7, <2>1, NextQueueGoes
  <2>3. /\ offset' \in [Ticks -> {0, Limit, 2 * Limit}]
        /\ offset'[t] = 0 /\ \A u \in Ticks \ {t} : offset'[u] = offset[u]
    BY <1>0, <2>1 DEF TypeOK
  <2>4. TypeOK'
    BY <1>0, <1>7, <1>8, <2>2, <2>3 DEF TypeOK
  <2>5. PageInv(t)'
    <3>1. page'[t] = <<>> /\ IsInjective(page'[t]) /\ Len(page'[t]) = 0
      BY <1>5, <1>8, <1>9, LenProperties
    <3>2. \A k : ~InSeq(page'[t], k)
      BY <3>1 DEF InSeq
    <3>3. 0 <= Limit + 1 /\ 0 <= 1
      BY LimitAssumption
    <3> QED BY <2>2, <2>3, <3>1, <3>2, <3>3 DEF PageInv
  <2>6. ASSUME NEW u \in Ticks, u # t PROVE PageInv(u)'
    BY <1>0, <1>1, <1>8, <2>2, <2>3, <2>6, PageSame
  <2> QED BY <1>1, <2>4, <2>5, <2>6 DEF RestartInv
<1>10. CASE jobs # <<>>
  <2>1. pc' = [pc EXCEPT ![t] = "look"] /\ at' = at /\ offset' = offset
    BY <1>7, <1>10
  <2>2. TypeOK' /\ pc'[t] = "look" /\ \A u \in Ticks \ {t} : pc'[u] = pc[u]
    BY <1>0, <1>7, <1>8, <2>1 DEF TypeOK
  <2>3. PageInv(t)'
    <3>1. at'[t] \in DOMAIN Queues /\ offset'[t] # 2 * Limit
      BY <1>0, <1>5, <1>7, <1>10, <2>1 DEF PageInv
    <3>2. Len(page'[t]) <= IF offset'[t] = 0 THEN Limit + 1 ELSE 1
      BY <1>5, <1>8, <2>1
    <3>3. \A k \in Jobs : InSeq(page'[t], k) => QueueOf[k] = Queues[at'[t]] /\ Failed(k)'
      BY <1>1, <1>6, <1>8, <2>1
    <3> QED BY <1>5, <1>8, <2>2, <3>1, <3>2, <3>3 DEF PageInv
  <2>4. ASSUME NEW u \in Ticks, u # t PROVE PageInv(u)'
    BY <1>0, <1>1, <1>8, <2>1, <2>2, <2>4, PageSame
  <2> QED BY <1>1, <2>2, <2>3, <2>4 DEF RestartInv
<1> QED BY <1>9, <1>10

\* Skip preserves the invariant.
LEMMA SkipKeeps ==
  ASSUME RestartInv, NEW t \in Ticks, Skip(t)
  PROVE  RestartInv'
<1>0. TypeOK /\ JobsInv /\ \A u \in Ticks : PageInv(u)
  BY DEF RestartInv
<1>1. JobsInv' /\ \A k \in Jobs : Failed(k)' <=> Failed(k)
  BY <1>0, JobsKept DEF Skip, jobVars
<1>2. page[t] \in Seq(Jobs) /\ page[t] # <<>> /\ IsInjective(page[t])
  BY <1>0 DEF Skip, TypeOK, PageInv
<1>3. /\ Tail(page[t]) \in Seq(Jobs) /\ Len(Tail(page[t])) <= Len(page[t])
      /\ IsInjective(Tail(page[t]))
      /\ \A k : InSeq(Tail(page[t]), k) => InSeq(page[t], k)
  BY <1>2, TailFacts
<1>4. page' = [page EXCEPT ![t] = Tail(page[t])]
  BY DEF Skip
<1>5. TypeOK'
  BY <1>0, <1>3, <1>4 DEF TypeOK, Skip, jobVars
<1>6. PageInv(t)'
  <2>1. page'[t] = Tail(page[t]) /\ offset[t] \in {0, Limit, 2 * Limit}
    BY <1>0, <1>4 DEF TypeOK
  <2>2. pc' = pc /\ at' = at /\ offset' = offset /\ stale' = stale
    BY DEF Skip
  <2> QED BY <1>0, <1>1, <1>2, <1>3, <2>1, <2>2, PageKept
<1>7. ASSUME NEW u \in Ticks, u # t PROVE PageInv(u)'
  BY <1>0, <1>1, <1>4, <1>7, PageSame DEF Skip, TypeOK, jobVars
<1> QED BY <1>1, <1>5, <1>6, <1>7 DEF RestartInv

\* A tick that ends, its page dropped, preserves the invariant if the jobs stay.
LEMMA EndKeeps ==
  ASSUME RestartInv, NEW t \in Ticks, EndTick(t), UNCHANGED <<jobVars, answers>>,
         page'[t] = <<>>, page' \in [Ticks -> Seq(Jobs)], stale' \in [Ticks -> SUBSET Jobs],
         \A u \in Ticks \ {t} : page'[u] = page[u] /\ stale'[u] = stale[u]
  PROVE  RestartInv'
<1>0. TypeOK /\ JobsInv /\ \A u \in Ticks : PageInv(u)
  BY DEF RestartInv
<1>1. JobsInv' /\ \A k \in Jobs : Failed(k)' <=> Failed(k)
  BY <1>0, JobsKept DEF jobVars
<1>2. TypeOK'
  BY <1>0 DEF TypeOK, EndTick, jobVars
<1>3. PageInv(t)'
  <2>1. pc'[t] = "idle" /\ offset'[t] = 0
    BY <1>0 DEF EndTick, TypeOK
  <2>2. Len(page'[t]) = 0 /\ IsInjective(page'[t]) /\ \A k : ~InSeq(page'[t], k)
    BY DEF InSeq, IsInjective
  <2>3. 0 <= Limit + 1
    BY LimitAssumption
  <2> QED BY <2>1, <2>2, <2>3 DEF PageInv
<1>4. ASSUME NEW u \in Ticks, u # t PROVE PageInv(u)'
  <2>1. /\ pc'[u] = pc[u] /\ at'[u] = at[u] /\ offset'[u] = offset[u]
        /\ page'[u] = page[u] /\ stale'[u] = stale[u]
    BY <1>0, <1>4 DEF EndTick, TypeOK
  <2> QED BY <1>0, <1>1, <2>1, PageSame
<1> QED BY <1>1, <1>2, <1>3, <1>4 DEF RestartInv

\* A getFailed that rejects preserves the invariant: the tick has no page.
LEMMA ReadFailsKeeps ==
  ASSUME RestartInv, NEW t \in Ticks, ReadFails(t)
  PROVE  RestartInv'
<1>1. TypeOK /\ PageInv(t)
  BY DEF RestartInv
<1>2. page'[t] = <<>>
  BY <1>1 DEF ReadFails, PageInv
<1>3. page' \in [Ticks -> Seq(Jobs)] /\ stale' \in [Ticks -> SUBSET Jobs]
  BY <1>1 DEF ReadFails, TypeOK
<1>4. \A u \in Ticks \ {t} : page'[u] = page[u] /\ stale'[u] = stale[u]
  BY <1>1 DEF ReadFails, TypeOK
<1> QED BY <1>2, <1>3, <1>4, EndKeeps DEF ReadFails

\* RetryThrows preserves the invariant.
LEMMA RetryThrowsKeeps ==
  ASSUME RestartInv, NEW t \in Ticks, RetryThrows(t)
  PROVE  RestartInv'
<1>1. TypeOK /\ <<>> \in Seq(Jobs)
  BY DEF RestartInv
<1>2. /\ page'[t] = <<>> /\ page' \in [Ticks -> Seq(Jobs)]
      /\ stale' \in [Ticks -> SUBSET Jobs]
      /\ \A u \in Ticks \ {t} : page'[u] = page[u] /\ stale'[u] = stale[u]
  BY <1>1 DEF RetryThrows, TypeOK
<1> QED BY <1>2, EndKeeps DEF RetryThrows

\* TurnPage preserves the invariant: the page that is finished was not the third.
LEMMA TurnPageKeeps ==
  ASSUME RestartInv, NEW t \in Ticks, TurnPage(t)
  PROVE  RestartInv'
<1>0. TypeOK /\ JobsInv /\ \A u \in Ticks : PageInv(u)
  BY DEF RestartInv
<1>1. JobsInv' /\ \A k \in Jobs : Failed(k)' <=> Failed(k)
  BY <1>0, JobsKept DEF TurnPage, jobVars
<1>2. offset[t] + Limit \in {Limit, 2 * Limit}
  <2>1. offset[t] \in {0, Limit}
    BY <1>0 DEF TurnPage, PageInv, TypeOK
  <2> QED BY <2>1, LimitAssumption
<1>3. /\ offset' = [offset EXCEPT ![t] = offset[t] + Limit]
      /\ pc' = [pc EXCEPT ![t] = "read"]
  BY DEF TurnPage, Advance
<1>4. TypeOK'
  BY <1>0, <1>2, <1>3 DEF TypeOK, TurnPage, jobVars
<1>5. PageInv(t)'
  <2>1. pc'[t] = "read" /\ at'[t] \in DOMAIN Queues /\ page'[t] = <<>>
    BY <1>0, <1>3 DEF TurnPage, TypeOK, PageInv
  <2>2. Len(page'[t]) = 0 /\ IsInjective(page'[t]) /\ \A k : ~InSeq(page'[t], k)
    BY <2>1 DEF InSeq, IsInjective
  <2>3. 0 <= Limit + 1
    BY LimitAssumption
  <2> QED BY <2>1, <2>2, <2>3 DEF PageInv
<1>6. ASSUME NEW u \in Ticks, u # t PROVE PageInv(u)'
  <2>1. /\ pc'[u] = pc[u] /\ at'[u] = at[u] /\ offset'[u] = offset[u]
        /\ page'[u] = page[u] /\ stale'[u] = stale[u]
    BY <1>0, <1>3, <1>6 DEF TurnPage, TypeOK
  <2> QED BY <1>0, <1>1, <2>1, PageSame
<1> QED BY <1>1, <1>4, <1>5, <1>6 DEF RestartInv

\* A job put back leaves its queue's set; every other page it is on either forgets it
\* or has it marked as put back, and what its own tick has left does not hold it.
LEMMA PutBackJobs ==
  ASSUME RestartInv, NEW t \in Ticks, NEW j \in Jobs, NEW rest \in Seq(Jobs),
         Failed(j), PutBack(t, j, rest), IsInjective(rest),
         Len(rest) <= Len(page[t]), \A k : InSeq(rest, k) => InSeq(page[t], k) /\ k # j
  PROVE  /\ JobsInv' /\ failed' \in [QueueSet -> Seq(Jobs)]
         /\ old' \subseteq Jobs /\ busy' \subseteq Jobs
         /\ page' \in [Ticks -> Seq(Jobs)] /\ stale' \in [Ticks -> SUBSET Jobs]
         /\ page'[t] = rest
         /\ \A u \in Ticks :
              /\ Len(page'[u]) <= Len(page[u]) /\ IsInjective(page'[u])
              /\ \A k \in Jobs : InSeq(page'[u], k) =>
                   /\ InSeq(page[u], k)
                   /\ Failed(k) \/ k \in stale[u] => Failed(k)' \/ k \in stale'[u]
<1>0. TypeOK /\ JobsInv /\ \A u \in Ticks : PageInv(u)
  BY DEF RestartInv
<1> DEFINE f == failed[QueueOf[j]]
           readers == {u \in Ticks \ {t} : InSeq(page[u], j)}
<1>3. /\ failed' = [failed EXCEPT ![QueueOf[j]] = Without(f, j)]
      /\ old' = old \ {j} /\ busy' = busy \cup {j}
  BY DEF PutBack
<1>4. PICK late \in SUBSET readers :
         /\ stale' = [u \in Ticks |-> IF u = t THEN {k \in stale[t] : InSeq(rest, k)}
                                      ELSE IF u \in late THEN stale[u] \cup {j}
                                      ELSE stale[u]]
         /\ page' = [u \in Ticks |-> IF u = t THEN rest
                                     ELSE IF u \in late THEN page[u]
                                     ELSE Without(page[u], j)]
  BY DEF PutBack
<1>5. QueueOf[j] \in QueueSet /\ f \in Seq(Jobs) /\ IsInjective(f)
  BY <1>0, QueuesAssumption DEF TypeOK, JobsInv
<1>6. /\ Without(f, j) \in Seq(Jobs) /\ IsInjective(Without(f, j))
      /\ \A k : InSeq(Without(f, j), k) <=> InSeq(f, k) /\ k # j
  BY <1>5, WithoutFacts
<1>7. /\ failed' \in [QueueSet -> Seq(Jobs)]
      /\ \A q \in QueueSet : failed'[q] = IF q = QueueOf[j] THEN Without(f, j) ELSE failed[q]
  BY <1>0, <1>3, <1>6 DEF TypeOK
<1>8. \A k \in Jobs : Failed(k)' <=> Failed(k) /\ k # j
  <2>1. \A k \in Jobs : QueueOf[k] \in QueueSet
    BY QueuesAssumption
  <2> QED BY <1>6, <1>7, <2>1 DEF Failed
<1>9. JobsInv'
  <2>1. \A k \in Jobs : Failed(k)' <=> k \notin busy'
    BY <1>0, <1>3, <1>8 DEF JobsInv
  <2>2. \A q \in QueueSet : /\ IsInjective(failed'[q])
                             /\ \A k \in Jobs : InSeq(failed'[q], k) => QueueOf[k] = q
    BY <1>0, <1>6, <1>7 DEF JobsInv
  <2>3. \A k \in old' : Failed(k)'
    BY <1>0, <1>3, <1>8 DEF JobsInv, TypeOK
  <2> QED BY <2>1, <2>2, <2>3 DEF JobsInv
<1>10. ASSUME NEW u \in Ticks
       PROVE  /\ page'[u] \in Seq(Jobs)
              /\ Len(page'[u]) <= Len(page[u]) /\ IsInjective(page'[u])
              /\ \A k : InSeq(page'[u], k) =>
                    /\ InSeq(page[u], k) /\ (k = j => j \in stale'[u])
                    /\ k \in stale[u] => k \in stale'[u]
              /\ stale'[u] \subseteq Jobs
  <2>1. page[u] \in Seq(Jobs) /\ IsInjective(page[u]) /\ stale[u] \subseteq Jobs
    BY <1>0 DEF TypeOK, PageInv
  <2>2. CASE u = t
    <3>1. page'[u] = rest /\ stale'[u] = {k \in stale[u] : InSeq(rest, k)}
      BY <1>4, <2>2
    <3> QED BY <2>1, <2>2, <3>1
  <2>3. CASE u # t /\ u \in late
    <3>1. page'[u] = page[u] /\ stale'[u] = stale[u] \cup {j}
      BY <1>4, <2>3
    <3>2. Len(page[u]) \in Nat
      BY <2>1, LenProperties
    <3> QED BY <2>1, <3>1, <3>2
  <2>4. CASE u # t /\ u \notin late
    <3>1. page'[u] = Without(page[u], j) /\ stale'[u] = stale[u]
      BY <1>4, <2>4
    <3> QED BY <2>1, <3>1, WithoutFacts
  <2> QED BY <2>2, <2>3, <2>4
<1>11. page' \in [Ticks -> Seq(Jobs)] /\ stale' \in [Ticks -> SUBSET Jobs]
  <2>1. page' = [u \in Ticks |-> page'[u]] /\ stale' = [u \in Ticks |-> stale'[u]]
    BY <1>4
  <2> QED BY <1>10, <2>1
<1>12. old' \subseteq Jobs /\ busy' \subseteq Jobs /\ page'[t] = rest
  BY <1>0, <1>3, <1>4 DEF TypeOK
<1>13. ASSUME NEW u \in Ticks, NEW k \in Jobs, InSeq(page'[u], k)
       PROVE  /\ InSeq(page[u], k)
              /\ Failed(k) \/ k \in stale[u] => Failed(k)' \/ k \in stale'[u]
  BY <1>8, <1>10, <1>13
<1> QED BY <1>7, <1>9, <1>10, <1>11, <1>12, <1>13

\* A tick that another one's putting back a job leaves where it is stays on a page it
\* may act on.
LEMMA PutBackPages ==
  ASSUME TypeOK, NEW u \in Ticks, PageInv(u), page' \in [Ticks -> Seq(Jobs)],
         pc'[u] = pc[u], at'[u] = at[u], offset'[u] = offset[u],
         Len(page'[u]) <= Len(page[u]), IsInjective(page'[u]),
         \A k \in Jobs : InSeq(page'[u], k) =>
            /\ InSeq(page[u], k)
            /\ Failed(k) \/ k \in stale[u] => Failed(k)' \/ k \in stale'[u]
  PROVE  PageInv(u)'
<1>1. page[u] \in Seq(Jobs) /\ page'[u] \in Seq(Jobs) /\ offset[u] \in {0, Limit, 2 * Limit}
  BY DEF TypeOK
<1> QED BY <1>1, PageKept

\* Retry preserves the invariant.
LEMMA RetryKeeps ==
  ASSUME RestartInv, NEW t \in Ticks, Retry(t)
  PROVE  RestartInv'
<1>0. TypeOK /\ \A u \in Ticks : PageInv(u)
  BY DEF RestartInv
<1> DEFINE j == Head(page[t])
           rest == Tail(page[t])
<1>1. page[t] \in Seq(Jobs) /\ page[t] # <<>> /\ IsInjective(page[t])
  BY <1>0 DEF Retry, AtRetry, TypeOK, PageInv
<1>2. /\ j \in Jobs /\ rest \in Seq(Jobs) /\ Len(rest) <= Len(page[t]) /\ IsInjective(rest)
      /\ \A k : InSeq(rest, k) => InSeq(page[t], k) /\ k # j
  BY <1>1, TailFacts
<1>3. Failed(j) /\ PutBack(t, j, rest) /\ UNCHANGED <<answers, pc, at, offset>>
  BY DEF Retry
<1> HIDE DEF j, rest
<1>4. /\ JobsInv' /\ failed' \in [QueueSet -> Seq(Jobs)]
      /\ old' \subseteq Jobs /\ busy' \subseteq Jobs
      /\ page' \in [Ticks -> Seq(Jobs)] /\ stale' \in [Ticks -> SUBSET Jobs]
      /\ \A u \in Ticks :
           /\ Len(page'[u]) <= Len(page[u]) /\ IsInjective(page'[u])
           /\ \A k \in Jobs : InSeq(page'[u], k) =>
                /\ InSeq(page[u], k)
                /\ Failed(k) \/ k \in stale[u] => Failed(k)' \/ k \in stale'[u]
  BY <1>2, <1>3, PutBackJobs
<1>5. TypeOK'
  BY <1>0, <1>3, <1>4 DEF TypeOK
<1>6. ASSUME NEW u \in Ticks PROVE PageInv(u)'
  BY <1>0, <1>3, <1>4, PutBackPages
<1> QED BY <1>4, <1>5, <1>6 DEF RestartInv

\* A retry that rejects preserves the invariant, its job put back or not.
LEMMA RetryFailsKeeps ==
  ASSUME RestartInv, NEW t \in Ticks, RetryFails(t)
  PROVE  RestartInv'
<1>0. TypeOK /\ (\A u \in Ticks : PageInv(u)) /\ <<>> \in Seq(Jobs)
  BY DEF RestartInv
<1> DEFINE j == Head(page[t])
<1>1. page[t] \in Seq(Jobs) /\ page[t] # <<>> /\ IsInjective(page[t])
  BY <1>0 DEF RetryFails, AtRetry, TypeOK, PageInv
<1>2. j \in Jobs
  BY <1>1, TailFacts
<1>3. EndTick(t) /\ UNCHANGED answers
  BY DEF RetryFails
<1>4. CASE page' = [page EXCEPT ![t] = <<>>] /\ UNCHANGED <<jobVars, stale>>
  <2>1. /\ page'[t] = <<>> /\ page' \in [Ticks -> Seq(Jobs)]
        /\ stale' \in [Ticks -> SUBSET Jobs]
        /\ \A u \in Ticks \ {t} : page'[u] = page[u] /\ stale'[u] = stale[u]
    BY <1>0, <1>4 DEF TypeOK
  <2> QED BY <1>3, <1>4, <2>1, EndKeeps
<1>5. CASE Failed(j) /\ PutBack(t, j, <<>>)
  <2> HIDE DEF j
  <2>1. /\ Len(<<>>) <= Len(page[t]) /\ IsInjective(<<>>) /\ \A k : ~InSeq(<<>>, k)
    BY <1>1, LenProperties DEF IsInjective, InSeq
  <2>2. /\ JobsInv' /\ failed' \in [QueueSet -> Seq(Jobs)]
        /\ old' \subseteq Jobs /\ busy' \subseteq Jobs
        /\ page' \in [Ticks -> Seq(Jobs)] /\ stale' \in [Ticks -> SUBSET Jobs]
        /\ page'[t] = <<>>
        /\ \A u \in Ticks :
             /\ Len(page'[u]) <= Len(page[u]) /\ IsInjective(page'[u])
             /\ \A k \in Jobs : InSeq(page'[u], k) =>
                  /\ InSeq(page[u], k)
                  /\ Failed(k) \/ k \in stale[u] => Failed(k)' \/ k \in stale'[u]
    BY <1>0, <1>2, <1>5, <2>1, PutBackJobs
  <2>3. TypeOK'
    BY <1>0, <1>3, <2>2 DEF TypeOK, EndTick
  <2>4. PageInv(t)'
    <3>1. pc'[t] = "idle" /\ offset'[t] = 0
      BY <1>0, <1>3 DEF EndTick, TypeOK
    <3>2. Len(page'[t]) = 0 /\ 0 <= Limit + 1
      BY <2>2, LimitAssumption
    <3> QED BY <2>1, <2>2, <3>1, <3>2 DEF PageInv
  <2>5. ASSUME NEW u \in Ticks, u # t PROVE PageInv(u)'
    <3>1. pc'[u] = pc[u] /\ at'[u] = at[u] /\ offset'[u] = offset[u]
      BY <1>0, <1>3, <2>5 DEF EndTick, TypeOK
    <3> QED BY <1>0, <2>2, <3>1, PutBackPages
  <2> QED BY <2>2, <2>3, <2>4, <2>5 DEF RestartInv
<1> QED BY <1>4, <1>5 DEF RetryFails

\* That Redis fails or works again touches nothing the invariant is about.
LEMMA RedisKeeps ==
  ASSUME RestartInv, RedisTurns
  PROVE  RestartInv'
<1>0. TypeOK /\ JobsInv /\ \A u \in Ticks : PageInv(u)
  BY DEF RestartInv
<1>1. UNCHANGED <<failed, old, busy, pc, at, offset, page, stale>>
  BY DEF RedisTurns, jobVars, tickVars
<1>2. JobsInv' /\ \A k \in Jobs : Failed(k)' <=> Failed(k)
  BY <1>0, <1>1, JobsKept
<1>3. answers' \in BOOLEAN
  BY Zenon DEF RedisTurns
<1>4. TypeOK'
  BY <1>0, <1>1, <1>3 DEF TypeOK
<1>5. ASSUME NEW u \in Ticks PROVE PageInv(u)'
  BY <1>0, <1>1, <1>2, PageSame
<1> QED BY <1>2, <1>4, <1>5 DEF RestartInv

-----------------------------------------------------------------------------
(* Theorems *)

\* Nothing is failed and every tick idle when the process starts.
LEMMA RestartInit ==
  Init => RestartInv
<1> SUFFICES ASSUME Init PROVE RestartInv
  OBVIOUS
<1>1. <<>> \in Seq(Jobs) /\ Len(<<>>) = 0 /\ IsInjective(<<>>) /\ \A k : ~InSeq(<<>>, k)
  BY DEF IsInjective, InSeq
<1>2. \A q \in QueueSet : failed[q] = <<>>
  BY DEF Init
<1>3. \A k \in Jobs : ~Failed(k)
  <2>1. \A k \in Jobs : QueueOf[k] \in QueueSet
    BY QueuesAssumption
  <2> QED BY <1>1, <1>2, <2>1 DEF Failed
<1>4. TypeOK
  BY <1>1 DEF Init, TypeOK
<1>5. JobsInv
  BY <1>1, <1>2, <1>3 DEF Init, JobsInv
<1>6. \A t \in Ticks : PageInv(t)
  <2>1. 0 <= Limit + 1
    BY LimitAssumption
  <2> QED BY <1>1, <2>1 DEF Init, PageInv
<1> QED BY <1>4, <1>5, <1>6 DEF RestartInv

\* One lemma per action put together.
LEMMA RestartStep ==
  RestartInv /\ [Next]_vars => RestartInv'
<1> SUFFICES ASSUME RestartInv, [Next]_vars PROVE RestartInv'
  OBVIOUS
<1>1. ASSUME NEW j \in Jobs, JobFails(j) PROVE RestartInv'
  BY <1>1, JobFailsKeeps
<1>2. ASSUME NEW j \in Jobs, Age(j) PROVE RestartInv'
  BY <1>2, AgeKeeps
<1>3. ASSUME NEW t \in Ticks, Begin(t) PROVE RestartInv'
  BY <1>3, BeginKeeps
<1>4. ASSUME NEW t \in Ticks, Work(t) PROVE RestartInv'
  BY <1>4, ReadKeeps, ReadFailsKeeps, TurnPageKeeps, SkipKeeps, RetryKeeps, RetryThrowsKeeps,
     RetryFailsKeeps DEF Work
<1>5. CASE RedisTurns
  BY <1>5, RedisKeeps
<1>6. CASE UNCHANGED vars
  BY <1>6 DEF vars, jobVars, tickVars, RestartInv, TypeOK, JobsInv, PageInv, Failed
<1> QED BY <1>1, <1>2, <1>3, <1>4, <1>5, <1>6 DEF Next

\* However ticks overlap, and whenever jobs fail or are put back meanwhile: every job is
\* busy or failed in its own queue, once, and what a tick has read is of the queue it is
\* at, within the range it asked for, each job of it failed or known to be put back.
THEOREM RestartInvariant ==
  Spec => []RestartInv
BY RestartInit, RestartStep, PTL DEF Spec

\* What can take a tick home: its last queue, a retry that throws, a rejected call.
LEMMA WaysToEnd ==
  ASSUME RestartInv, [Next]_vars, NEW t \in Ticks, pc[t] # "idle", pc'[t] = "idle"
  PROVE  \/ ~answers
         \/ RetryThrows(t)
         \/ pc[t] = "read" /\ at[t] = Len(Queues)
<1>0. pc \in [Ticks -> {"idle", "read", "look"}]
  BY DEF RestartInv, TypeOK
<1>1. ASSUME NEW j \in Jobs, JobFails(j) \/ Age(j) PROVE FALSE
  BY <1>1 DEF JobFails, Age, tickVars
<1>2. CASE RedisTurns \/ UNCHANGED vars
  BY <1>2 DEF RedisTurns, vars, tickVars
<1>3. ASSUME NEW u \in Ticks, Begin(u) \/ TurnPage(u) PROVE FALSE
  BY <1>0, <1>3 DEF Begin, TurnPage
<1>4. ASSUME NEW u \in Ticks, Skip(u) \/ Retry(u) PROVE FALSE
  BY <1>4 DEF Skip, Retry
<1>5. ASSUME NEW u \in Ticks, Read(u) PROVE pc[t] = "read" /\ at[t] = Len(Queues)
  BY <1>0, <1>5 DEF Read, NextQueue
<1>6. ASSUME NEW u \in Ticks, RetryThrows(u) PROVE u = t
  BY <1>0, <1>6 DEF RetryThrows, EndTick
<1>7. ASSUME NEW u \in Ticks, ReadFails(u) \/ RetryFails(u) PROVE ~answers
  BY <1>7 DEF ReadFails, RetryFails
<1> QED BY <1>1, <1>2, <1>3, <1>4, <1>5, <1>6, <1>7 DEF Next, Work

\* handle() leaves queues unvisited only when Bull rejects one of its calls, or over a
\* job that another tick put back after this one read its page.
THEOREM EarlyEndsHaveCause ==
  Spec => EndsEarlyForCause
<1>1. RestartInv /\ [Next]_vars =>
        [\A t \in Ticks : pc[t] # "idle" /\ pc'[t] = "idle" =>
           \/ ~answers
           \/ pc[t] = "look" /\ Head(page[t]) \in stale[t]
           \/ pc[t] = "read" /\ at[t] = Len(Queues)]_vars
  <2> SUFFICES ASSUME RestartInv, [Next]_vars, NEW t \in Ticks, pc[t] # "idle", pc'[t] = "idle",
                      RetryThrows(t)
               PROVE  pc[t] = "look" /\ Head(page[t]) \in stale[t]
    BY WaysToEnd
  <2>1. Head(page[t]) \in stale[t] \/ Head(page[t]) \in old
    BY DEF RetryThrows, AtRetry, IsOld
  <2>2. pc[t] = "look" /\ ~Failed(Head(page[t]))
    BY DEF RetryThrows, AtRetry
  <2> QED BY <2>1, <2>2 DEF RestartInv, JobsInv
<1> QED BY <1>1, RestartInvariant, PTL DEF Spec, EndsEarlyForCause

\* With one tick at a time no job is put back behind a tick's back.
LEMMA LoneStep ==
  ASSUME \A t, u \in Ticks : t = u,
         RestartInv, \A t \in Ticks : stale[t] = {}, [Next]_vars
  PROVE  \A t \in Ticks : stale'[t] = {}
<1>0. stale \in [Ticks -> SUBSET Jobs]
  BY DEF RestartInv, TypeOK
<1>1. ASSUME NEW j \in Jobs, JobFails(j) \/ Age(j) PROVE stale' = stale
  BY <1>1 DEF JobFails, Age, tickVars
<1>2. ASSUME NEW u \in Ticks, Begin(u) \/ Skip(u) \/ TurnPage(u) PROVE stale' = stale
  BY <1>2 DEF Begin, Skip, TurnPage
<1>3. ASSUME NEW u \in Ticks, Read(u) \/ ReadFails(u) \/ RetryThrows(u)
      PROVE \A t \in Ticks : stale'[t] = {}
  BY <1>0, <1>3 DEF Read, ReadFails, RetryThrows
<1>4. ASSUME NEW u \in Ticks, NEW j, NEW rest, PutBack(u, j, rest)
      PROVE \A t \in Ticks : stale'[t] = {}
  <2>1. PICK late \in SUBSET {v \in Ticks \ {u} : InSeq(page[v], j)} :
          stale' = [v \in Ticks |-> IF v = u THEN {k \in stale[u] : InSeq(rest, k)}
                                   ELSE IF v \in late THEN stale[v] \cup {j}
                                   ELSE stale[v]]
    BY <1>4 DEF PutBack
  <2> QED BY <2>1
<1>5. ASSUME NEW u \in Ticks, Retry(u) \/ RetryFails(u) PROVE \A t \in Ticks : stale'[t] = {}
  BY <1>4, <1>5 DEF Retry, RetryFails
<1>6. CASE RedisTurns \/ UNCHANGED vars
  BY <1>6 DEF RedisTurns, vars, tickVars
<1> QED BY <1>1, <1>2, <1>3, <1>5, <1>6 DEF Next, Work

\* If the interval waited for handle() to return, a tick whose calls are answered would
\* end only at its last queue: overlap is the only other reason to end before.
THEOREM LoneTickReachesLastQueue ==
  ASSUME \A t, u \in Ticks : t = u
  PROVE  Spec => [][\A t \in Ticks : pc[t] # "idle" /\ pc'[t] = "idle" =>
                      ~answers \/ (pc[t] = "read" /\ at[t] = Len(Queues))]_vars
<1> DEFINE NoStale == \A t \in Ticks : stale[t] = {}
           Step == \A t \in Ticks : pc[t] # "idle" /\ pc'[t] = "idle" =>
                     ~answers \/ (pc[t] = "read" /\ at[t] = Len(Queues))
           Early == \A t \in Ticks : pc[t] # "idle" /\ pc'[t] = "idle" =>
                      \/ ~answers
                      \/ pc[t] = "look" /\ Head(page[t]) \in stale[t]
                      \/ pc[t] = "read" /\ at[t] = Len(Queues)
<1>1. Init => NoStale
  BY DEF Init
<1>2. RestartInv /\ NoStale /\ [Next]_vars => NoStale'
  BY LoneStep
<1>3. NoStale /\ [Early]_vars => [Step]_vars
  OBVIOUS
<1>4. Spec => [][Early]_vars
  BY EarlyEndsHaveCause DEF EndsEarlyForCause
<1> HIDE DEF NoStale, Step, Early
<1>5. Spec => [][Step]_vars
  BY <1>1, <1>2, <1>3, <1>4, RestartInvariant, PTL DEF Spec
<1> QED BY <1>5 DEF Step
=============================================================================
