--------------------------- MODULE RateLimitProofs ---------------------------
(***************************************************************************)
(* Theorems about RateLimit, for any buckets, allowances and periods that  *)
(* satisfy the module's assumptions.                                       *)
(***************************************************************************)
EXTENDS RateLimit, SequenceTheorems, TLAPS

LEMMA SubSeqSuffix ==
  ASSUME NEW q \in Seq(Nat), NEW n \in 0..Len(q)
  PROVE  /\ SubSeq(q, n + 1, Len(q)) \in Seq(Nat)
         /\ Len(SubSeq(q, n + 1, Len(q))) = Len(q) - n
         /\ \A i \in 1..Len(q) - n : SubSeq(q, n + 1, Len(q))[i] = q[n + i]
  <1> DEFINE w == SubSeq(q, n + 1, Len(q))
  <1>1. Len(q) \in Nat /\ n + 1 \in Int /\ Len(q) \in Int
    BY LenProperties
  <1>2. \A i \in n + 1..Len(q) : q[i] \in Nat
    BY ElementOfSeq, <1>1
  <1>3. /\ w \in Seq(Nat)
        /\ Len(w) = IF n + 1 <= Len(q) THEN Len(q) - (n + 1) + 1 ELSE 0
        /\ \A i \in 1..Len(q) - (n + 1) + 1 : w[i] = q[(n + 1) + i - 1]
    BY <1>1, <1>2, SubSeqProperties
  <1> HIDE DEF w
  <1>4. Len(w) = Len(q) - n /\ \A i \in 1..Len(q) - n : w[i] = q[n + i]
    BY <1>1, <1>3
  <1> QED BY <1>3, <1>4 DEF w

LEMMA SweptType == TypeOK => Swept \in [Buckets -> Seq(Nat)]
  BY EmptySeq DEF TypeOK, Swept

\* The quotient rounded down, plus one, covers what was divided.
LEMMA CeilingCovers ==
  ASSUME NEW x \in Int, NEW t \in Nat \ {0}
  PROVE  (x \div t + 1) * t > x /\ x \div t \in Int
  BY SMT

LEMMA CeilingNat ==
  ASSUME NEW x \in Nat, NEW t \in Nat \ {0}
  PROVE  x \div t + 1 \in Nat
  BY SMT

-----------------------------------------------------------------------------
LEMMA TypeInit == Init => TypeOK
  BY ClockAssumption, EmptySeq DEF Init, TypeOK

LEMMA TypeNext == TypeOK /\ [Next]_vars => TypeOK'
  <1> SUFFICES ASSUME TypeOK, [Next]_vars PROVE TypeOK'
    OBVIOUS
  <1>1. CASE Tick
    BY <1>1 DEF Tick, TypeOK
  <1>2. ASSUME NEW b \in Buckets, Check(b) PROVE TypeOK'
    <2> DEFINE q == Swept[b]
    <2>1. q \in Seq(Nat) /\ Swept \in [Buckets -> Seq(Nat)]
      BY SweptType
    <2> HIDE DEF q
    <2>2. PICK n \in 0..Len(q) : 
            /\ Expired(q, n, now - Period[b])
            /\ \/ Refuse(b, SubSeq(q, n + 1, Len(q)))
               \/ Grant(b, SubSeq(q, n + 1, Len(q)))
      BY <1>2 DEF Check, q
    <2> DEFINE kept == SubSeq(q, n + 1, Len(q))
    <2>3. kept \in Seq(Nat) /\ Len(kept) \in Nat
      BY <2>1, SubSeqSuffix, LenProperties
    <2> HIDE DEF kept
    <2>4. now \in Nat /\ Append(kept, now) \in Seq(Nat) /\ Append(granted[b], now) \in Seq(Nat)
      BY <2>3, AppendProperties DEF TypeOK
    <2>5. ASSUME Len(kept) >= Allowance[b]
          PROVE  RetryAfter(b, kept[1]) \in Nat
      <3>1. Len(kept) = Len(q) - n /\ \A i \in 1..Len(q) - n : kept[i] = q[n + i]
        BY <2>1, SubSeqSuffix DEF kept
      <3>2. Len(q) \in Nat /\ Period[b] \in Nat /\ Allowance[b] \in Nat \ {0}
        BY <2>1, LenProperties, LimitAssumption
      <3>3. n < Len(q) /\ 1 \in 1..Len(q) - n /\ 1 \in 1..Len(kept)
        <4> DEFINE l == Len(kept)
        <4>1. l \in Nat /\ l = Len(q) - n /\ l >= Allowance[b]
          BY <2>3, <2>5, <3>1
        <4> HIDE DEF l
        <4>2. n < Len(q) /\ 1 \in 1..Len(q) - n /\ 1 \in 1..l
          BY <3>2, <4>1
        <4> QED BY <4>2 DEF l
      <3>4. q[n + 1] >= now - Period[b] /\ kept[1] = q[n + 1] /\ kept[1] \in Nat
        BY <2>2, <2>3, <3>1, <3>3, ElementOfSeq DEF Expired
      <3>5. kept[1] + Period[b] - now \in Nat
        BY <2>4, <3>2, <3>4
      <3> QED BY <3>5, ClockAssumption, CeilingNat DEF RetryAfter
    <2>6. events' \in [Buckets -> Seq(Nat)] /\ granted' \in [Buckets -> Seq(Nat)]
      BY <2>1, <2>2, <2>3, <2>4 DEF TypeOK, Refuse, Grant, kept
    <2>7. answer' \in [Buckets -> [at : Nat, retry : Nat]]
      <3>1. CASE Refuse(b, kept)
        BY <3>1, <2>4, <2>5 DEF TypeOK, Refuse
      <3>2. CASE Grant(b, kept)
        BY <3>2, <2>4 DEF TypeOK, Grant
      <3> QED BY <2>2, <3>1, <3>2 DEF kept
    <2>8. now' \in Nat /\ lastSweep' \in Nat
      BY <1>2 DEF Check, TypeOK
    <2> QED BY <2>6, <2>7, <2>8 DEF TypeOK
  <1>3. CASE UNCHANGED vars
    BY <1>3 DEF vars, TypeOK
  <1> QED BY <1>1, <1>2, <1>3 DEF Next

\* Stamps and answers keep their types.
THEOREM TypeCorrect == Spec => []TypeOK
  BY TypeInit, TypeNext, PTL DEF Spec

-----------------------------------------------------------------------------
(* The sliding window.  SlidingWindow alone is not inductive: it speaks of *)
(* the history, the code only of what is left in the bucket.               *)

\* `bucket` is what is left of the history G of bucket b after its first k
\* stamps, all of them older than the period, are cut.
IsRest(b, bucket, k) ==
  LET G == granted[b] IN
  /\ k \in 0..Len(G)
  /\ Len(bucket) = Len(G) - k
  /\ \A i \in 1..Len(bucket) : bucket[i] = G[k + i]
  /\ \A i \in 1..k : G[i] + Period[b] < now

HistoryInv(b) ==
  LET G == granted[b] IN
  /\ \A i \in 1..Len(G) : G[i] <= now
  /\ \A i, j \in 1..Len(G) : i <= j => G[i] <= G[j]

Spread(b) ==
  \A i \in 1..Len(granted[b]) - Allowance[b] :
    granted[b][i + Allowance[b]] - granted[b][i] > Period[b]

BucketInv(b) == HistoryInv(b) /\ (\E k \in Nat : IsRest(b, events[b], k)) /\ Spread(b)

WindowInv == \A b \in Buckets : BucketInv(b)

\* A sweep only drops stamps that are older than the period already.
LEMMA SweptRest ==
  ASSUME TypeOK, NEW b \in Buckets, BucketInv(b)
  PROVE  \E k \in Nat : IsRest(b, Swept[b], k)
  <1> DEFINE G == granted[b]
             e == events[b]
  <1>1. /\ G \in Seq(Nat) /\ e \in Seq(Nat) /\ now \in Nat
        /\ Len(G) \in Nat /\ Len(e) \in Nat
        /\ \A i \in 1..Len(G) : G[i] \in Nat
    BY ElementOfSeq, LenProperties DEF TypeOK
  <1>2. PICK k \in Nat : IsRest(b, e, k)
    BY DEF BucketInv
  <1>3. CASE ~(SweepDue /\ Idle(e)) \/ e = <<>>
    <2>1. Swept[b] = e
      BY <1>3 DEF Swept
    <2> QED BY <1>2, <2>1
  <1>4. CASE SweepDue /\ Idle(e) /\ e # <<>>
    <2>1. Swept[b] = <<>> /\ Len(<<>>) = 0
      BY <1>4 DEF Swept
    <2>2. Len(e) >= 1
      BY <1>1, <1>4, EmptySeq
    <2>3. now - e[Len(e)] > IdleAfter
      BY <1>4 DEF Idle
    <2>4. k + Len(e) = Len(G) /\ e[Len(e)] = G[Len(G)] /\ Len(G) \in 1..Len(G)
      <3>1. k \in 0..Len(G) /\ Len(e) = Len(G) - k /\ \A i \in 1..Len(e) : e[i] = G[k + i]
        BY <1>2 DEF IsRest
      <3> HIDE DEF G, e
      <3>2. k + Len(e) = Len(G) /\ Len(e) \in 1..Len(e) /\ Len(G) \in 1..Len(G)
        BY <1>1, <2>2, <3>1
      <3>3. e[Len(e)] = G[k + Len(e)]
        BY <3>1, <3>2
      <3> QED BY <3>2, <3>3
    <2>5. \A i \in 1..Len(G) : G[i] <= G[Len(G)]
      BY <1>1, <2>4 DEF BucketInv, HistoryInv
    <2>6. \A i \in 1..Len(G) : G[i] + Period[b] < now
      <3>1. Period[b] \in Nat /\ Period[b] <= IdleAfter /\ IdleAfter \in Nat
        BY LimitAssumption, SweepAssumption, ClockAssumption
      <3> HIDE DEF G, e
      <3> QED BY <3>1, <1>1, <2>3, <2>4, <2>5
    <2>7. IsRest(b, Swept[b], Len(G))
      BY <1>1, <2>1, <2>6 DEF IsRest
    <2> QED BY <1>1, <2>7
  <1> QED BY <1>3, <1>4

\* Popping the expired stamps leaves a rest again.
LEMMA KeptRest ==
  ASSUME TypeOK, NEW b \in Buckets, NEW k \in Nat, NEW q \in Seq(Nat), IsRest(b, q, k),
         NEW n \in 0..Len(q), Expired(q, n, now - Period[b])
  PROVE  IsRest(b, SubSeq(q, n + 1, Len(q)), k + n)
  <1> DEFINE w == SubSeq(q, n + 1, Len(q))
             G == granted[b]
  <1>1. Len(w) = Len(q) - n /\ \A i \in 1..Len(q) - n : w[i] = q[n + i]
    BY SubSeqSuffix
  <1>2. Len(q) \in Nat /\ Len(G) \in Nat /\ now \in Nat /\ Period[b] \in Nat
        /\ \A i \in 1..Len(G) : G[i] \in Nat
    BY LenProperties, ElementOfSeq, LimitAssumption DEF TypeOK
  <1> HIDE DEF w
  <1>3. k + n \in 0..Len(G) /\ Len(w) = Len(G) - (k + n)
    BY <1>1, <1>2 DEF IsRest
  <1>4. \A i \in 1..Len(w) : w[i] = G[(k + n) + i]
    BY <1>1, <1>2, <1>3 DEF IsRest
  <1>5. ASSUME NEW i \in 1..k + n PROVE G[i] + Period[b] < now
    <2>1. CASE i <= k
      BY <2>1 DEF IsRest
    <2>2. CASE i > k
      <3>1. i - k \in 1..n /\ i - k \in 1..Len(q) /\ i \in 1..Len(G)
        BY <1>2, <1>3, <2>2
      <3>2. q[i - k] = G[i] /\ q[i - k] < now - Period[b]
        BY <3>1, <1>2 DEF IsRest, Expired
      <3> QED BY <3>1, <3>2, <1>2
    <2> QED BY <2>1, <2>2
  <1>6. IsRest(b, w, k + n)
    BY <1>3, <1>4, <1>5 DEF IsRest
  <1> QED BY <1>6 DEF w

LEMMA WindowInit == Init => WindowInv
  <1> SUFFICES ASSUME Init, NEW b \in Buckets PROVE BucketInv(b)
    BY DEF WindowInv
  <1>1. granted[b] = <<>> /\ events[b] = <<>> /\ Len(<<>>) = 0 /\ Allowance[b] \in Nat \ {0}
    BY LimitAssumption DEF Init
  <1>2. IsRest(b, events[b], 0)
    BY <1>1 DEF IsRest
  <1> QED BY <1>1, <1>2 DEF BucketInv, HistoryInv, Spread

\* What a granted check makes of a rest, in plain sequences: G is the history,
\* H the history with the new stamp, q the stamps kept, w those with the new one.
LEMMA Lengthened ==
  ASSUME NEW G \in Seq(Nat), NEW t \in Nat,
         \A i \in 1..Len(G) : G[i] <= t,
         \A i, j \in 1..Len(G) : i <= j => G[i] <= G[j]
  PROVE  LET H == Append(G, t) IN
         /\ Len(G) \in Nat /\ Len(H) = Len(G) + 1 /\ H[Len(G) + 1] = t
         /\ \A i \in 1..Len(G) : H[i] = G[i] /\ G[i] \in Nat
         /\ \A i \in 1..Len(H) : H[i] <= t
         /\ \A i, j \in 1..Len(H) : i <= j => H[i] <= H[j]
  <1> DEFINE H == Append(G, t)
             m == Len(G)
  <1>1. m \in Nat /\ Len(H) = m + 1 /\ H[m + 1] = t /\ \A i \in 1..m : H[i] = G[i]
    BY LenProperties, AppendProperties
  <1>2. \A i \in 1..m : G[i] \in Nat
    BY ElementOfSeq
  <1> HIDE DEF H
  <1>3. \A i \in 1..Len(H) : i = m + 1 \/ i \in 1..m
    <2> HIDE DEF m
    <2> QED BY <1>1
  <1>4. \A i \in 1..Len(H) : H[i] <= t
    BY <1>1, <1>3
  <1>5. ASSUME NEW i \in 1..Len(H), NEW j \in 1..Len(H), i <= j PROVE H[i] <= H[j]
    <2>1. CASE j = m + 1
      BY <1>1, <1>4, <2>1
    <2>2. CASE j # m + 1
      <3> HIDE DEF m
      <3>1. i \in 1..m /\ j \in 1..m
        BY <1>1, <1>3, <1>5, <2>2
      <3>2. G[i] <= G[j]
        BY <3>1, <1>5 DEF m
      <3> QED BY <3>1, <3>2, <1>1
    <2> QED BY <2>1, <2>2
  <1> QED BY <1>1, <1>2, <1>4, <1>5 DEF H

LEMMA WindowGrant ==
  ASSUME TypeOK, NEW b \in Buckets, BucketInv(b), NEW k \in Nat, NEW kept \in Seq(Nat),
         IsRest(b, kept, k), Grant(b, kept), now' = now
  PROVE  BucketInv(b)'
  <1> DEFINE G == granted[b]
             H == Append(G, now)
             w == Append(kept, now)
             A == Allowance[b]
             m == Len(G)
             n == Len(kept)
  <1>1. G \in Seq(Nat) /\ now \in Nat /\ n \in Nat /\ A \in Nat \ {0} /\ Period[b] \in Nat
    BY LenProperties, LimitAssumption DEF TypeOK
  <1>2. granted'[b] = H /\ events'[b] = w /\ n < A
    BY SweptType DEF Grant, TypeOK
  <1>3. /\ m \in Nat /\ Len(H) = m + 1 /\ H[m + 1] = now
        /\ \A i \in 1..m : H[i] = G[i] /\ G[i] \in Nat
        /\ \A i \in 1..Len(H) : H[i] <= now
        /\ \A i, j \in 1..Len(H) : i <= j => H[i] <= H[j]
    BY <1>1, Lengthened DEF BucketInv, HistoryInv
  <1>4. Len(w) = n + 1 /\ w[n + 1] = now /\ \A i \in 1..n : w[i] = kept[i]
    BY <1>1, AppendProperties
  <1>5. /\ k \in 0..m /\ n = m - k
        /\ \A i \in 1..n : kept[i] = G[k + i]
        /\ \A i \in 1..k : G[i] + Period[b] < now
    BY DEF IsRest
  <1>6. \A i \in 1..m - A : G[i + A] - G[i] > Period[b]
    BY DEF BucketInv, Spread
  <1> HIDE DEF G, H, w, A, m, n
  <1>7. HistoryInv(b)'
    BY <1>2, <1>3 DEF HistoryInv
  <1>8. k \in 0..Len(H) /\ Len(w) = Len(H) - k
    BY <1>1, <1>3, <1>4, <1>5
  <1>9. ASSUME NEW i \in 1..Len(w) PROVE w[i] = H[k + i]
    <2>1. CASE i = n + 1
      <3>1. k + i = m + 1
        BY <1>1, <1>3, <1>5, <2>1
      <3> QED BY <1>3, <1>4, <2>1, <3>1
    <2>2. CASE i # n + 1
      <3>1. i \in 1..n /\ k + i \in 1..m
        BY <1>1, <1>3, <1>4, <1>5, <2>2
      <3> QED BY <1>3, <1>4, <1>5, <3>1
    <2> QED BY <2>1, <2>2
  <1>10. ASSUME NEW i \in 1..k PROVE H[i] + Period[b] < now
    <2>1. i \in 1..m
      BY <1>3, <1>5
    <2> QED BY <1>3, <1>5, <2>1
  <1>11. IsRest(b, events[b], k)'
    BY <1>2, <1>8, <1>9, <1>10 DEF IsRest
  <1>12. ASSUME NEW i \in 1..Len(H) - A PROVE H[i + A] - H[i] > Period[b]
    <2>1. CASE i + A <= m
      <3>1. i \in 1..m - A /\ i \in 1..m /\ i + A \in 1..m
        BY <1>1, <1>3, <2>1
      <3> QED BY <1>3, <1>6, <3>1
    <2>2. CASE i + A > m
      <3>1. i + A = m + 1 /\ i \in 1..k /\ i \in 1..m
        BY <1>1, <1>2, <1>3, <1>5, <2>2
      <3>2. H[i] = G[i] /\ G[i] \in Nat /\ G[i] + Period[b] < now /\ H[i + A] = now
        BY <1>3, <1>5, <3>1
      <3> QED BY <1>1, <3>2
    <2> QED BY <1>1, <1>3, <2>1, <2>2
  <1>13. Spread(b)'
    BY <1>2, <1>12 DEF Spread, A
  <1> QED BY <1>7, <1>11, <1>13 DEF BucketInv

LEMMA WindowNext == TypeOK /\ WindowInv /\ [Next]_vars => WindowInv'
  <1> SUFFICES ASSUME TypeOK, WindowInv, [Next]_vars, NEW b \in Buckets PROVE BucketInv(b)'
    BY DEF WindowInv
  <1>0. BucketInv(b) /\ now \in Nat /\ Period[b] \in Nat /\ Len(granted[b]) \in Nat
        /\ \A i \in 1..Len(granted[b]) : granted[b][i] \in Nat
    BY ElementOfSeq, LenProperties, LimitAssumption DEF WindowInv, TypeOK
  <1>1. CASE Tick
    <2>1. now' = now + 1 /\ granted' = granted /\ events' = events
      BY <1>1 DEF Tick
    <2>2. PICK k \in Nat : IsRest(b, events[b], k)
      BY <1>0 DEF BucketInv
    <2>3. IsRest(b, events[b], k)'
      BY <1>0, <2>1, <2>2 DEF IsRest
    <2>4. HistoryInv(b)' /\ Spread(b)'
      BY <1>0, <2>1 DEF BucketInv, HistoryInv, Spread
    <2> QED BY <2>3, <2>4 DEF BucketInv
  <1>2. ASSUME NEW c \in Buckets, Check(c) PROVE BucketInv(b)'
    <2> DEFINE q == Swept[c]
    <2>1. Swept \in [Buckets -> Seq(Nat)] /\ now' = now
      BY <1>2, SweptType DEF Check
    <2>2. PICK k \in Nat : IsRest(b, Swept[b], k)
      BY <1>0, SweptRest
    <2>3. PICK n \in 0..Len(q) :
            /\ Expired(q, n, now - Period[c])
            /\ Refuse(c, SubSeq(q, n + 1, Len(q))) \/ Grant(c, SubSeq(q, n + 1, Len(q)))
      BY <1>2 DEF Check
    <2> DEFINE kept == SubSeq(q, n + 1, Len(q))
    <2>4. q \in Seq(Nat) /\ kept \in Seq(Nat)
      BY <2>1, SubSeqSuffix
    <2>5. CASE b # c
      <3>1. granted'[b] = granted[b] /\ events'[b] = Swept[b]
        BY <2>1, <2>3, <2>5 DEF Refuse, Grant, TypeOK
      <3>2. IsRest(b, events[b], k)'
        BY <2>1, <2>2, <3>1 DEF IsRest
      <3>3. HistoryInv(b)' /\ Spread(b)'
        BY <1>0, <2>1, <3>1 DEF BucketInv, HistoryInv, Spread
      <3> QED BY <3>2, <3>3 DEF BucketInv
    <2>6. CASE b = c
      <3>1. IsRest(b, kept, k + n)
        BY <2>2, <2>3, <2>4, <2>6, KeptRest
      <3>2. k + n \in Nat
        BY <2>3, <2>4, LenProperties
      <3>3. CASE Grant(c, kept)
        BY <1>0, <2>1, <2>4, <2>6, <3>1, <3>2, <3>3, WindowGrant
      <3>4. CASE Refuse(c, kept)
        <4>1. granted'[b] = granted[b] /\ events'[b] = kept
          BY <2>1, <2>6, <3>4 DEF Refuse
        <4>2. IsRest(b, events[b], k + n)'
          BY <2>1, <3>1, <4>1 DEF IsRest
        <4>3. HistoryInv(b)' /\ Spread(b)'
          BY <1>0, <2>1, <4>1 DEF BucketInv, HistoryInv, Spread
        <4> QED BY <3>2, <4>2, <4>3 DEF BucketInv
      <3> QED BY <2>3, <3>3, <3>4
    <2> QED BY <2>5, <2>6
  <1>3. CASE UNCHANGED vars
    BY <1>0, <1>3 DEF vars, BucketInv, HistoryInv, IsRest, Spread
  <1> QED BY <1>1, <1>2, <1>3 DEF Next

\* The limiter never lets more than Allowance checks through in any window of
\* Period, wherever the window lies and whatever _sweep has forgotten.
THEOREM Window == Spec => []SlidingWindow
  <1>1. WindowInv => SlidingWindow
    BY DEF WindowInv, BucketInv, Spread, SlidingWindow
  <1> QED BY <1>1, TypeInit, TypeNext, WindowInit, WindowNext, PTL DEF Spec

-----------------------------------------------------------------------------
(* Retry-After.  What has to be remembered about a refusal is that its     *)
(* promise covers the oldest stamp still in the bucket.                    *)

RetryInv(b) ==
  /\ Len(events[b]) <= Allowance[b]
  /\ Refused(b) /\ events[b] # <<>> =>
       events[b][1] + Period[b] < answer[b].at + answer[b].retry * TicksPerSecond

PromiseInv == \A b \in Buckets : RetryInv(b)

LEMMA PromiseInit == Init => PromiseInv
  <1> SUFFICES ASSUME Init, NEW b \in Buckets PROVE RetryInv(b)
    BY DEF PromiseInv
  <1>1. events[b] = <<>> /\ Len(<<>>) = 0 /\ Allowance[b] \in Nat \ {0}
    BY LimitAssumption DEF Init
  <1> QED BY <1>1 DEF RetryInv

\* Swept keeps a bucket or empties it.
LEMMA SweptPromise ==
  ASSUME NEW b \in Buckets
  PROVE  Swept[b] = events[b] \/ Swept[b] = <<>>
  BY DEF Swept

\* What Check does, with its choice named.
LEMMA CheckParts ==
  ASSUME TypeOK, NEW c \in Buckets, Check(c)
  PROVE  \E n \in 0..Len(Swept[c]) : \E kept \in Seq(Nat) :
           /\ kept = SubSeq(Swept[c], n + 1, Len(Swept[c]))
           /\ Len(kept) \in Nat /\ Len(kept) = Len(Swept[c]) - n
           /\ \A i \in 1..Len(kept) : kept[i] = Swept[c][n + i]
           /\ Expired(Swept[c], n, now - Period[c])
           /\ Refuse(c, kept) \/ Grant(c, kept)
  <1> DEFINE q == Swept[c]
  <1>1. q \in Seq(Nat)
    BY SweptType
  <1> HIDE DEF q
  <1>2. PICK n \in 0..Len(q) :
          /\ Expired(q, n, now - Period[c])
          /\ Refuse(c, SubSeq(q, n + 1, Len(q))) \/ Grant(c, SubSeq(q, n + 1, Len(q)))
    BY DEF Check, q
  <1> DEFINE kept == SubSeq(q, n + 1, Len(q))
  <1>3. kept \in Seq(Nat) /\ Len(kept) = Len(q) - n /\ \A i \in 1..Len(q) - n : kept[i] = q[n + i]
    BY <1>1, SubSeqSuffix
  <1>4. Len(kept) \in Nat
    BY <1>3, LenProperties
  <1> QED BY <1>2, <1>3, <1>4 DEF q

LEMMA PromiseNext == TypeOK /\ PromiseInv /\ [Next]_vars => PromiseInv'
  <1> SUFFICES ASSUME TypeOK, PromiseInv, [Next]_vars, NEW b \in Buckets PROVE RetryInv(b)'
    BY DEF PromiseInv
  <1>1. RetryInv(b) /\ Allowance[b] \in Nat \ {0} /\ Period[b] \in Nat /\ now \in Nat
        /\ TicksPerSecond \in Nat \ {0}
    BY LimitAssumption, ClockAssumption DEF PromiseInv, TypeOK
  <1>2. ASSUME NEW c \in Buckets, Check(c) PROVE RetryInv(b)'
    <2>1. PICK n \in 0..Len(Swept[c]), kept \in Seq(Nat) :
            /\ Len(kept) \in Nat /\ Len(kept) = Len(Swept[c]) - n
            /\ Expired(Swept[c], n, now - Period[c])
            /\ Refuse(c, kept) \/ Grant(c, kept)
      BY <1>2, CheckParts
    <2>2. Swept \in [Buckets -> Seq(Nat)] /\ Len(<<>>) = 0
      BY SweptType
    <2>3. CASE b # c
      <3>1. events'[b] = Swept[b] /\ answer'[b] = answer[b]
        BY <2>1, <2>2, <2>3 DEF Refuse, Grant, TypeOK
      <3>2. CASE Swept[b] = <<>>
        BY <1>1, <2>2, <3>1, <3>2 DEF RetryInv
      <3>3. CASE Swept[b] = events[b]
        BY <1>1, <3>1, <3>3 DEF RetryInv, Refused
      <3> QED BY <3>2, <3>3, SweptPromise
    <2>4. CASE b = c /\ Refuse(c, kept)
      <3>1. events'[b] = kept /\ answer'[b] = [at |-> now, retry |-> RetryAfter(b, kept[1])]
            /\ Len(kept) >= Allowance[b]
        BY <2>2, <2>4 DEF Refuse, TypeOK
      <3>2. Len(Swept[b]) <= Allowance[b]
        BY <1>1, <2>2, SweptPromise DEF RetryInv
      <3>3. Len(kept) <= Allowance[b]
        <4> DEFINE l == Len(Swept[c])
        <4>1. l \in Nat
          BY <2>2, LenProperties
        <4> HIDE DEF l
        <4> QED BY <1>1, <2>1, <2>4, <3>2, <4>1 DEF l
      <3>4. kept[1] \in Nat
        BY <1>1, <2>1, <3>1, ElementOfSeq
      <3> DEFINE x == kept[1] + Period[b] - now
      <3>5. x \in Int
        BY <1>1, <3>4
      <3>6. (x \div TicksPerSecond + 1) * TicksPerSecond > x /\ x \div TicksPerSecond \in Int
        BY <1>1, <3>5, CeilingCovers
      <3>7. answer'[b].at = now /\ answer'[b].retry = x \div TicksPerSecond + 1
        BY <3>1 DEF RetryAfter
      <3> DEFINE y == (x \div TicksPerSecond + 1) * TicksPerSecond
      <3>8. y \in Int /\ y > x
        BY <1>1, <3>6
      <3>9. kept[1] + Period[b] < now + y
        <4> HIDE DEF y
        <4> QED BY <1>1, <3>4, <3>8
      <3> QED BY <3>1, <3>3, <3>7, <3>9 DEF RetryInv
    <2>5. CASE b = c /\ Grant(c, kept)
      <3>1. events'[b] = Append(kept, now) /\ answer'[b].retry = 0 /\ Len(kept) < Allowance[b]
        BY <2>2, <2>5 DEF Grant, TypeOK
      <3>2. Len(Append(kept, now)) = Len(kept) + 1
        BY <1>1, AppendProperties
      <3>3. Len(events'[b]) <= Allowance[b]
        <4> DEFINE l == Len(kept)
        <4> HIDE DEF l
        <4>1. l + 1 <= Allowance[b]
          BY <1>1, <2>1, <3>1 DEF l
        <4> QED BY <3>1, <3>2, <4>1 DEF l
      <3> QED BY <3>1, <3>3 DEF RetryInv, Refused
    <2> QED BY <2>1, <2>3, <2>4, <2>5
  <1>3. CASE Tick \/ UNCHANGED vars
    BY <1>1, <1>3 DEF Tick, vars, RetryInv, Refused
  <1> QED BY <1>2, <1>3 DEF Next

\* Once the promised seconds are over, the bucket cannot be full any more.
LEMMA PromiseKept ==
  ASSUME TypeOK, PromiseInv, [Next]_vars, NEW b \in Buckets, answer'[b] # answer[b],
         Refused(b), now >= answer[b].at + answer[b].retry * TicksPerSecond
  PROVE  ~Refused(b)'
  <1>1. PICK c \in Buckets : Check(c)
    BY DEF Next, Tick, vars
  <1>2. PICK n \in 0..Len(Swept[c]), kept \in Seq(Nat) :
          /\ Len(kept) \in Nat /\ Len(kept) = Len(Swept[c]) - n
          /\ Expired(Swept[c], n, now - Period[c])
          /\ Refuse(c, kept) \/ Grant(c, kept)
    BY <1>1, CheckParts
  <1>3. c = b
    BY <1>2 DEF Refuse, Grant, TypeOK
  <1>4. RetryInv(b) /\ Allowance[b] \in Nat \ {0} /\ Period[b] \in Nat /\ now \in Nat
        /\ TicksPerSecond \in Nat /\ answer[b].at \in Nat /\ answer[b].retry \in Int
    BY LimitAssumption, ClockAssumption DEF PromiseInv, TypeOK
  <1>5. CASE Refuse(b, kept)
    <2> DEFINE q == Swept[b]
               l == Len(q)
    <2>1. q \in Seq(Nat) /\ l \in Nat /\ Len(kept) >= Allowance[b] /\ Len(<<>>) = 0
      BY <1>5, SweptType, LenProperties DEF Refuse
    <2>2. q # <<>>
      <3> HIDE DEF q
      <3> QED BY <1>2, <1>3, <1>4, <2>1 DEF q
    <2>3. q = events[b]
      BY <2>2, SweptPromise
    <2>4. l <= Allowance[b] /\ q[1] + Period[b] < answer[b].at + answer[b].retry * TicksPerSecond
      BY <1>4, <2>2, <2>3 DEF RetryInv
    <2>5. n = 0 /\ l >= 1
      <3> DEFINE m == Len(kept)
                 A == Allowance[b]
      <3>1. m = l - n /\ n \in 0..l /\ m \in Nat
        BY <1>2, <1>3
      <3>2. m >= A /\ l <= A /\ A \in Nat \ {0} /\ l \in Nat
        BY <1>4, <2>1, <2>4
      <3> HIDE DEF l, m, A
      <3> QED BY <3>1, <3>2
    <2>6. q[1] >= now - Period[b] /\ q[1] \in Nat
      BY <1>2, <1>3, <2>1, <2>5, ElementOfSeq DEF Expired
    <2> DEFINE y == answer[b].retry * TicksPerSecond
    <2>7. y \in Int /\ now >= answer[b].at + y /\ q[1] + Period[b] < answer[b].at + y
      BY <1>4, <2>4
    <2> HIDE DEF y, q
    <2> QED BY <1>4, <2>6, <2>7
  <1>6. CASE Grant(b, kept)
    BY <1>6 DEF Grant, Refused, TypeOK
  <1> QED BY <1>2, <1>3, <1>5, <1>6

\* A caller that waits for the Retry-After it was given is let in.
THEOREM Promise == Spec => RetryAfterHonoured
  <1>1. TypeOK /\ PromiseInv /\ [Next]_vars =>
          [\A b \in Buckets :
             answer'[b] # answer[b] /\ Refused(b)
               /\ now >= answer[b].at + answer[b].retry * TicksPerSecond
             => ~Refused(b)']_vars
    BY PromiseKept
  <1> QED BY <1>1, TypeInit, TypeNext, PromiseInit, PromiseNext, PTL DEF Spec, RetryAfterHonoured

\* A refused bucket is a rest of the history that fills its allowance.
LEMMA RefusalFull ==
  ASSUME TypeOK, WindowInv, [Next]_vars, NEW b \in Buckets, answer'[b] # answer[b], Refused(b)'
  PROVE  LET G == granted[b] IN
         /\ Len(G) >= Allowance[b]
         /\ G[Len(G) - Allowance[b] + 1] >= now - Period[b]
  <1>1. PICK c \in Buckets : Check(c)
    BY DEF Next, Tick, vars
  <1>2. PICK n \in 0..Len(Swept[c]), kept \in Seq(Nat) :
          /\ kept = SubSeq(Swept[c], n + 1, Len(Swept[c]))
          /\ Len(kept) \in Nat /\ Len(kept) = Len(Swept[c]) - n
          /\ \A i \in 1..Len(kept) : kept[i] = Swept[c][n + i]
          /\ Expired(Swept[c], n, now - Period[c])
          /\ Refuse(c, kept) \/ Grant(c, kept)
    BY <1>1, CheckParts
  <1>3. c = b
    BY <1>2 DEF Refuse, Grant, TypeOK
  <1>4. Refuse(b, kept)
    BY <1>2, <1>3 DEF Grant, Refused, TypeOK
  <1> DEFINE q == Swept[b]
             G == granted[b]
             A == Allowance[b]
             m == Len(G)
             l == Len(kept)
  <1>5. BucketInv(b) /\ q \in Seq(Nat) /\ Len(q) \in Nat /\ now \in Nat /\ Period[b] \in Nat
        /\ A \in Nat \ {0} /\ m \in Nat /\ \A i \in 1..m : G[i] \in Nat
    BY SweptType, LenProperties, ElementOfSeq, LimitAssumption DEF WindowInv, TypeOK
  <1>6. PICK k \in Nat : IsRest(b, q, k)
    BY <1>5, SweptRest
  <1>7. IsRest(b, kept, k + n)
    BY <1>2, <1>3, <1>5, <1>6, KeptRest
  <1>8. /\ k + n \in 0..m /\ l = m - (k + n) /\ l >= A /\ l \in Nat
        /\ \A i \in 1..l : kept[i] = G[(k + n) + i]
    BY <1>2, <1>4, <1>7 DEF IsRest, Refuse
  <1>9. \A i, j \in 1..m : i <= j => G[i] <= G[j]
    BY <1>5 DEF HistoryInv, BucketInv
  <1>10. kept[1] >= now - Period[b]
    <2>1. n \in Nat /\ n < Len(q) /\ 1 \in 1..l
      <3> HIDE DEF A
      <3> QED BY <1>2, <1>3, <1>5, <1>8
    <2>2. q[n + 1] >= now - Period[b] /\ kept[1] = q[n + 1]
      BY <1>2, <1>3, <2>1 DEF Expired
    <2> QED BY <2>2
  <1> DEFINE d == k + n
  <1>11. d \in Nat
    BY <1>2, <1>5, <1>3
  <1> HIDE DEF q, G, A, m, l, d
  <1>12. m >= A /\ m - A + 1 \in 1..m /\ d + 1 \in 1..m /\ d + 1 <= m - A + 1 /\ 1 \in 1..l
    BY <1>5, <1>8, <1>11 DEF d
  <1>13. G[d + 1] = kept[1] /\ G[d + 1] <= G[m - A + 1]
    BY <1>8, <1>9, <1>12 DEF d
  <1>14. G[m - A + 1] >= now - Period[b]
    BY <1>5, <1>10, <1>12, <1>13
  <1> QED BY <1>12, <1>14 DEF G, m, A

\* Nobody is refused while the period just past has room.
THEOREM FullWhenRefused == Spec => RefusedOnlyWhenFull
  <1>1. TypeOK /\ WindowInv /\ [Next]_vars =>
          [\A b \in Buckets :
             Refused(b)' /\ answer'[b] # answer[b] =>
               LET G == granted[b] IN
               /\ Len(G) >= Allowance[b]
               /\ G[Len(G) - Allowance[b] + 1] >= now - Period[b]]_vars
    BY RefusalFull
  <1> QED BY <1>1, TypeInit, TypeNext, WindowInit, WindowNext, PTL DEF Spec, RefusedOnlyWhenFull

=============================================================================
