-------------------------- MODULE RateLimiterProofs --------------------------
(***************************************************************************)
(* The rate limiter keeps its quotas and implements the ideal buckets, for  *)
(* any peers, protocols, quotas and times.                                  *)
(***************************************************************************)
EXTENDS RateLimiter, TLAPS

\* What the arithmetic below needs of a bucket's parameters: additional_time is the
\* product, if that can be represented.
LEMMA Parameters ==
    ASSUME NEW k \in Keys
    PROVE  /\ tau(k) \in Nat \ {0}
           /\ t(k) \in Nat \ {0}
           /\ \A n \in Tokens(k) :
                  /\ n \in Nat
                  /\ Exact(k, n) => additional_time(k, n) = t(k) * n
                  /\ additional_time(k, n) \in Nat
<1>1. k[2] \in Protocols
    BY DEF Keys
<1>2. tau(k) \in Nat \ {0} /\ t(k) \in Nat \ {0}
    BY <1>1, QuotaAssumption DEF tau
<1>3. ASSUME NEW n \in Tokens(k)
      PROVE  /\ n \in Nat /\ additional_time(k, n) \in Nat
             /\ Exact(k, n) => additional_time(k, n) = t(k) * n
    <2>1. n \in Nat
        BY <1>1, QuotaAssumption DEF Tokens, tokens
    <2>2. PICK product \in Nat : product = t(k) * n
        BY <1>2, <2>1
    <2>3. /\ product % NanosecsRange \in Nat
          /\ product < NanosecsRange => product % NanosecsRange = product
        BY <2>2, WidthAssumption
    <2> QED
        BY <2>1, <2>2, <2>3 DEF additional_time, Exact
<1> QED
    BY <1>2, <1>3

\* The debt of a bucket is what the histories are compared with: it never exceeds
\* the capacity, and covers what was admitted beyond what time has replenished.
Charged(k) ==
    /\ Debt(k) <= tau(k)
    /\ since <= now => t(k) * used[k] <= Debt(k) + (now - since)
    /\ since > now => used[k] = 0

LInv == LimiterTypeOK /\ \A k \in Keys : Charged(k)

LEMMA TatType ==
    ASSUME LimiterTypeOK, NEW k \in Keys
    PROVE  tat(k) \in Nat /\ now \in Nat /\ Debt(k) \in Nat
BY BoundsAssumption DEF LimiterTypeOK, tat, Debt, Absent, Instants

LEMMA InitLInv == LimiterInit => LInv
<1> SUFFICES ASSUME LimiterInit PROVE LInv
    OBVIOUS
<1>1. LimiterTypeOK
    BY BoundsAssumption
    DEF LimiterInit, LimiterTypeOK, Absent, Instants, AnswerType, NothingTold
<1>2. ASSUME NEW k \in Keys PROVE Charged(k)
    BY Parameters, BoundsAssumption
    DEF LimiterInit, Charged, Debt, tat, Absent, Instants
<1> QED
    BY <1>1, <1>2 DEF LInv

\* An admitted request raises the debt by its cost, and by no more.
LEMMA AllowedDebt ==
    ASSUME LInv, NEW k \in Keys, NEW n \in Tokens(k), Allowed(k, n)
    PROVE  /\ Debt(k)' = Debt(k) + additional_time(k, n)
           /\ Debt(k)' <= tau(k)
           /\ tat_per_key' \in [Keys -> Nat \cup {Absent}]
           /\ \A j \in Keys : j # k => Debt(j)' = Debt(j)
<1> DEFINE cost == additional_time(k, n)
<1>1. tau(k) \in Nat /\ cost \in Nat
    BY Parameters
<1>2. tat(k) \in Nat /\ now \in Nat
    BY TatType DEF LInv
<1>3. tat_per_key \in [Keys -> Nat \cup {Absent}]
    BY DEF LInv, LimiterTypeOK
<1>4. NewTat(k, n) \in Nat
    BY <1>1, <1>2 DEF NewTat
<1>5. /\ tat_per_key' = [tat_per_key EXCEPT ![k] = NewTat(k, n)]
      /\ now' = now
      /\ cost <= tau(k)
      /\ ~TooSoon(k, n)
    BY DEF Allowed
<1>6. tat(k)' = NewTat(k, n)
    BY <1>3, <1>4, <1>5 DEF tat, Absent
<1>7. Debt(k)' = Debt(k) + cost
    BY <1>1, <1>2, <1>5, <1>6 DEF Debt, NewTat
<1>8. Debt(k) + cost <= tau(k)
    BY <1>1, <1>2, <1>5 DEF Debt, TooSoon, earliest_time
<1>9. ASSUME NEW j \in Keys, j # k PROVE Debt(j)' = Debt(j)
    BY <1>3, <1>5, <1>9 DEF Debt, tat
<1> QED
    BY <1>3, <1>4, <1>5, <1>7, <1>8, <1>9

LEMMA AllowedLInv ==
    ASSUME LInv, NEW k \in Keys, NEW n \in Tokens(k), Allowed(k, n)
    PROVE  LInv'
<1>1. /\ tau(k) \in Nat /\ t(k) \in Nat /\ n \in Nat /\ additional_time(k, n) \in Nat
      /\ Exact(k, n) => additional_time(k, n) = t(k) * n
    BY Parameters
<1>2. now \in Nat /\ since \in Nat /\ used \in [Keys -> Nat] /\ Debt(k) \in Nat
    BY TatType, BoundsAssumption DEF LInv, LimiterTypeOK, Instants
<1>3. /\ now' = now /\ since' = since
      /\ used' = [used EXCEPT ![k] = IF since <= now /\ Exact(k, n) THEN @ + n ELSE @]
    BY DEF Allowed
<1>4. LimiterTypeOK'
    <2>1. events' \in Seq(AnswerType)
        BY DEF Allowed, PushEvent, AnswerType, LInv, LimiterTypeOK
    <2>2. used' \in [Keys -> Nat]
        BY <1>1, <1>2, <1>3
    <2>3. told' \in [Keys -> [tokens : Nat, at : Nat]]
        BY DEF Allowed, NothingTold, LInv, LimiterTypeOK
    <2> QED
        BY <1>3, <2>1, <2>2, <2>3, AllowedDebt DEF LInv, LimiterTypeOK
<1>5. Charged(k)'
    <2>1. Debt(k)' = Debt(k) + additional_time(k, n) /\ Debt(k)' <= tau(k)
        BY AllowedDebt
    <2>2. Charged(k)
        BY DEF LInv
    <2>3. CASE since <= now /\ Exact(k, n)
        <3>1. used'[k] = used[k] + n
            BY <1>2, <1>3, <2>3
        <3>2. t(k) * used'[k] = t(k) * used[k] + t(k) * n
            BY <1>1, <1>2, <3>1
        <3>3. Debt(k)' = Debt(k) + t(k) * n
            BY <1>1, <2>1, <2>3
        <3> QED
            BY <1>1, <1>2, <1>3, <2>1, <2>2, <2>3, <3>2, <3>3 DEF Charged
    <2>4. CASE since > now
        BY <1>1, <1>2, <1>3, <2>1, <2>2, <2>4 DEF Charged
    <2>5. CASE since <= now /\ ~Exact(k, n)
        <3>1. PICK product \in Nat : product = t(k) * used[k]
            BY <1>1, <1>2
        <3>2. product <= Debt(k) + (now - since)
            BY <2>2, <2>5, <3>1 DEF Charged
        <3>3. product <= Debt(k)' + (now - since)
            BY <1>1, <1>2, <2>1, <3>2
        <3>4. used'[k] = used[k] /\ t(k) * used'[k] = product
            BY <1>2, <1>3, <2>5, <3>1
        <3> QED
            BY <1>2, <1>3, <2>1, <2>5, <3>3, <3>4 DEF Charged
    <2> QED
        BY <1>2, <2>3, <2>4, <2>5
<1>6. ASSUME NEW j \in Keys, j # k PROVE Charged(j)'
    <2>1. Debt(j)' = Debt(j) /\ used'[j] = used[j]
        BY AllowedDebt, <1>2, <1>3, <1>6
    <2> QED
        BY <1>3, <2>1 DEF LInv, Charged
<1> QED
    BY <1>4, <1>5, <1>6 DEF LInv

\* Pruning removes only what stands for an empty bucket; the other steps leave the
\* times alone.
LEMMA OtherLInv ==
    ASSUME LInv,
           \/ \E k \in Keys : \E n \in Tokens(k) :
                  RefusedTooLarge(k, n) \/ RefusedTooSoon(k, n)
           \/ Prune
           \/ PollEvent
           \/ UNCHANGED limiterVars
    PROVE  /\ LInv'
           /\ now' = now
           /\ \A j \in Keys : Debt(j)' = Debt(j)
<1>1. /\ LimiterTypeOK
      /\ \A j \in Keys : tat(j) \in Nat /\ now \in Nat
    BY TatType DEF LInv
<1>2. now' = now /\ since' = since /\ used' = used
    BY DEF RefusedTooLarge, RefusedTooSoon, Prune, PollEvent, limiterVars
<1> DEFINE TimesKept == /\ tat_per_key' \in [Keys -> Nat \cup {Absent}]
                        /\ \A j \in Keys : Debt(j)' = Debt(j)
           OutputTyped == /\ events' \in Seq(AnswerType)
                          /\ told' \in [Keys -> [tokens : Nat, at : Nat]]
<1>3. TimesKept
    <2>1. ASSUME NEW k \in Keys, NEW n \in Tokens(k), RefusedTooSoon(k, n)
          PROVE  TimesKept
        <3>1. tat_per_key' = [tat_per_key EXCEPT ![k] = tat(k)]
            BY <2>1 DEF RefusedTooSoon
        <3> QED
            BY <1>1, <1>2, <3>1 DEF LimiterTypeOK, Debt, tat, Absent
    <2>2. ASSUME Prune PROVE TimesKept
        BY <1>1, <1>2, <2>2 DEF LimiterTypeOK, Prune, Pruned, Debt, tat, Absent
    <2>3. ASSUME tat_per_key' = tat_per_key PROVE TimesKept
        BY <1>1, <1>2, <2>3 DEF LimiterTypeOK, Debt, tat
    <2>4. CASE PollEvent
        BY <2>3, <2>4 DEF PollEvent
    <2>5. CASE UNCHANGED limiterVars
        BY <2>3, <2>5 DEF limiterVars
    <2>6. ASSUME NEW k \in Keys, NEW n \in Tokens(k), RefusedTooLarge(k, n)
          PROVE  TimesKept
        BY <2>3, <2>6 DEF RefusedTooLarge
    <2> HIDE DEF TimesKept
    <2> QED
        BY <2>1, <2>2, <2>4, <2>5, <2>6
<1>4. OutputTyped
    <2>1. ASSUME NEW k \in Keys, NEW n \in Tokens(k), RefusedTooSoon(k, n)
          PROVE  OutputTyped
        <3>1. n \in Nat /\ tau(k) \in Nat /\ additional_time(k, n) \in Nat
            BY Parameters
        <3>2. earliest_time(k, n) \in Nat
            BY <1>1, <3>1 DEF earliest_time
        <3>3. WaitTime(k, n) \in Nat
            BY <1>1, <2>1, <3>2 DEF RefusedTooSoon, TooSoon, WaitTime
        <3>4. events' \in Seq(AnswerType)
            BY <1>1, <2>1, <3>3 DEF RefusedTooSoon, PushEvent, AnswerType, LimiterTypeOK
        <3> QED
            BY <1>1, <2>1, <3>1, <3>2, <3>4 DEF RefusedTooSoon, LimiterTypeOK
    <2>2. ASSUME NEW k \in Keys, NEW n \in Tokens(k), RefusedTooLarge(k, n)
          PROVE  OutputTyped
        BY <1>1, <2>2 DEF RefusedTooLarge, PushEvent, AnswerType, LimiterTypeOK
    <2>3. ASSUME PollEvent PROVE OutputTyped
        BY <1>1, <2>3 DEF PollEvent, LimiterTypeOK
    <2>4. CASE Prune
        BY <1>1, <2>4 DEF Prune, LimiterTypeOK
    <2>5. CASE UNCHANGED limiterVars
        BY <1>1, <2>5 DEF limiterVars, LimiterTypeOK
    <2> HIDE DEF OutputTyped
    <2> QED
        BY <2>1, <2>2, <2>3, <2>4, <2>5
<1>5. LimiterTypeOK'
    BY <1>1, <1>2, <1>3, <1>4 DEF LimiterTypeOK
<1>6. ASSUME NEW j \in Keys PROVE Charged(j)'
    BY <1>2, <1>3 DEF LInv, Charged
<1> QED
    BY <1>2, <1>3, <1>5, <1>6 DEF LInv

\* With every unit of time a debt shrinks by as much, until there is none.
LEMMA TickLInv ==
    ASSUME LInv, Tick
    PROVE  /\ LInv'
           /\ \A k \in Keys : Debt(k)' = IF Debt(k) = 0 THEN 0 ELSE Debt(k) - 1
<1>1. /\ LimiterTypeOK
      /\ \A j \in Keys : tat(j) \in Nat /\ now \in Nat
    BY TatType DEF LInv
<1>2. /\ now' = now + 1 /\ now < MaxTime
      /\ UNCHANGED <<tat_per_key, events, since, used, told>>
    BY DEF Tick
<1>3. ASSUME NEW k \in Keys
      PROVE  Debt(k)' = IF Debt(k) = 0 THEN 0 ELSE Debt(k) - 1
    BY <1>1, <1>2 DEF LimiterTypeOK, Debt, tat, Absent
<1>4. LimiterTypeOK'
    BY <1>1, <1>2, BoundsAssumption DEF LimiterTypeOK, Instants
<1>5. ASSUME NEW k \in Keys PROVE Charged(k)'
    <2>1. tau(k) \in Nat /\ t(k) \in Nat /\ Debt(k) \in Nat
        BY Parameters, TatType DEF LInv
    <2>2. since \in Nat /\ used[k] \in Nat /\ now \in Nat
        BY <1>1, BoundsAssumption DEF LimiterTypeOK, Instants
    <2>3. t(k) * used[k] \in Nat /\ (used[k] = 0 => t(k) * used[k] = 0)
        BY <2>1, <2>2
    <2>4. Charged(k)
        BY DEF LInv
    <2>5. PICK product \in Nat : product = t(k) * used[k]
        BY <2>3
    <2>6. /\ since <= now => product <= Debt(k) + (now - since)
          /\ since > now => product = 0
        BY <2>3, <2>4, <2>5 DEF Charged
    <2>7. since <= now + 1 => product <= Debt(k)' + (now + 1 - since)
        BY <1>3, <2>1, <2>2, <2>6
    <2>8. Debt(k)' <= tau(k)
        BY <1>3, <2>1, <2>4 DEF Charged
    <2>9. since > now + 1 => used[k] = 0
        BY <2>2, <2>4 DEF Charged
    <2>10. since' = since /\ now' = now + 1 /\ used'[k] = used[k]
        BY <1>2
    <2>11. t(k) * used'[k] = product
        BY <2>5, <2>10
    <2> QED
        BY <2>2, <2>7, <2>8, <2>9, <2>10, <2>11 DEF Charged
<1> QED
    BY <1>3, <1>4, <1>5 DEF LInv

LEMMA StepLInv == LInv /\ [LimiterNext]_limiterVars => LInv'
<1> SUFFICES ASSUME LInv, [LimiterNext]_limiterVars PROVE LInv'
    OBVIOUS
<1>1. ASSUME NEW k \in Keys, NEW n \in Tokens(k), InjectRequest(k, n) PROVE LInv'
    BY <1>1, AllowedLInv, OtherLInv DEF InjectRequest
<1>2. ASSUME Prune PROVE LInv'
    BY <1>2, OtherLInv
<1>3. ASSUME PollEvent PROVE LInv'
    BY <1>3, OtherLInv
<1>4. ASSUME Tick PROVE LInv'
    BY <1>4, TickLInv
<1>5. ASSUME UNCHANGED limiterVars PROVE LInv'
    BY <1>5, OtherLInv
<1> QED
    BY <1>1, <1>2, <1>3, <1>4, <1>5 DEF LimiterNext

LEMMA LInvHolds == LimiterSpec => []LInv
BY InitLInv, StepLInv, PTL DEF LimiterSpec

\* The types of the limiter, its queue and its histories, for any quotas.
THEOREM LimiterTypesKept == LimiterSpec => []LimiterTypeOK
<1>1. LInv => LimiterTypeOK
    BY DEF LInv
<1> QED
    BY <1>1, LInvHolds, PTL

\* No peer ever gets more of a protocol in any interval, by requests whose cost can be
\* represented, than a full bucket and what is replenished in the interval, whatever the
\* quota and the other requests, the ones whose cost wraps among them.
THEOREM QuotaAlwaysKept == LimiterSpec => []QuotaKept
<1>1. LInv => QuotaKept
    <2> SUFFICES ASSUME LInv, since <= now, NEW k \in Keys
                 PROVE  t(k) * used[k] <= tau(k) + (now - since)
        BY DEF QuotaKept
    <2>1. Charged(k) /\ LimiterTypeOK
        BY DEF LInv
    <2>2. since \in Nat /\ used[k] \in Nat /\ now \in Nat
        BY <2>1, BoundsAssumption DEF LimiterTypeOK, Instants
    <2>3. tau(k) \in Nat /\ t(k) \in Nat /\ Debt(k) \in Nat
        BY <2>1, Parameters, TatType
    <2>4. t(k) * used[k] \in Nat
        BY <2>2, <2>3
    <2> QED
        BY <2>1, <2>2, <2>3, <2>4 DEF Charged
<1> QED
    BY <1>1, LInvHolds, PTL

\* The limiter with its stored, absent and pruned times implements the ideal
\* buckets, and gives their answers.
THEOREM LimiterImplementsBuckets == LimiterSpec => ImplementsBuckets
<1>1. LimiterInit => Bucket!BucketInit
    BY BoundsAssumption DEF LimiterInit, Bucket!BucketInit, DebtOfAll, Debt, tat, Absent
<1>2. LInv /\ [LimiterNext]_limiterVars => [Bucket!BucketNext]_(Bucket!bucketVars)
    <2> SUFFICES ASSUME LInv, [LimiterNext]_limiterVars
                 PROVE  [Bucket!BucketNext]_(Bucket!bucketVars)
        OBVIOUS
    <2> USE DEF Bucket!BucketNext, Bucket!bucketVars
    <2>1. ASSUME \A k \in Keys : Debt(k)' = Debt(k) PROVE DebtOfAll' = DebtOfAll
        BY <2>1 DEF DebtOfAll
    <2>2. ASSUME NEW k \in Keys, NEW n \in Tokens(k), Allowed(k, n)
          PROVE  Bucket!Admit(k, additional_time(k, n))
        <3>1. DebtOfAll' = [DebtOfAll EXCEPT ![k] = @ + additional_time(k, n)]
            BY <2>2, AllowedDebt DEF DebtOfAll
        <3>2. DebtOfAll[k] + additional_time(k, n) <= tau(k)
            BY <2>2, AllowedDebt DEF DebtOfAll
        <3> QED
            BY <2>2, <3>1, <3>2 DEF Bucket!Admit, Bucket!Answer, Allowed, PushEvent
    <2>3. ASSUME NEW k \in Keys, NEW n \in Tokens(k), RefusedTooLarge(k, n)
          PROVE  Bucket!Refuse(k, additional_time(k, n))
        BY <2>1, <2>3, OtherLInv
        DEF Bucket!Refuse, Bucket!Answer, RefusedTooLarge, PushEvent
    <2>4. ASSUME NEW k \in Keys, NEW n \in Tokens(k), RefusedTooSoon(k, n)
          PROVE  Bucket!Postpone(k, additional_time(k, n))
        <3>1. /\ tau(k) \in Nat /\ additional_time(k, n) \in Nat
              /\ tat(k) \in Nat /\ now \in Nat
            BY Parameters, TatType DEF LInv
        <3>2. /\ additional_time(k, n) <= tau(k)
              /\ Debt(k) + additional_time(k, n) > tau(k)
              /\ WaitTime(k, n) = Debt(k) + additional_time(k, n) - tau(k)
            BY <2>4, <3>1 DEF RefusedTooSoon, TooSoon, WaitTime, earliest_time, Debt
        <3>3. DebtOfAll[k] = Debt(k) /\ DebtOfAll' = DebtOfAll
            BY <2>1, <2>4, OtherLInv DEF DebtOfAll
        <3> QED
            BY <2>4, <3>2, <3>3 DEF Bucket!Postpone, Bucket!Answer, RefusedTooSoon, PushEvent
    <2>5. CASE \E k \in Keys : \E n \in Tokens(k) : InjectRequest(k, n)
        BY <2>2, <2>3, <2>4, <2>5 DEF InjectRequest, AdditionalTimes
    <2>6. CASE Prune
        BY <2>1, <2>6, OtherLInv DEF Prune
    <2>7. CASE PollEvent
        BY <2>1, <2>7, OtherLInv DEF PollEvent, Bucket!TakeAnswer
    <2>8. CASE Tick
        BY <2>8, TickLInv DEF Tick, Bucket!Drain, DebtOfAll
    <2>9. CASE UNCHANGED limiterVars
        BY <2>1, <2>9, OtherLInv DEF limiterVars
    <2> QED
        BY <2>5, <2>6, <2>7, <2>8, <2>9 DEF LimiterNext
<1> QED
    BY <1>1, <1>2, LInvHolds, PTL DEF LimiterSpec, ImplementsBuckets, Bucket!BucketSpec

-----------------------------------------------------------------------------

\* A wait that was told is about a request that fits; while the bucket's time is
\* stored it is the time computed from it, and once the time is pruned it is over.
Told(k) ==
    told[k] # NothingTold =>
        LET n == told[k].tokens
        IN  /\ n \in Tokens(k)
            /\ additional_time(k, n) <= tau(k)
            /\ IF tat_per_key[k] = Absent
               THEN told[k].at <= now
               ELSE told[k].at = earliest_time(k, n)

WInv == LInv /\ \A k \in Keys : Told(k)

LEMMA InitWInv == LimiterInit => WInv
BY InitLInv DEF LimiterInit, WInv, Told

LEMMA StepWInv == WInv /\ [LimiterNext]_limiterVars => WInv'
<1> SUFFICES ASSUME WInv, [LimiterNext]_limiterVars PROVE WInv'
    OBVIOUS
<1>1. LInv /\ LimiterTypeOK /\ LInv'
    BY StepLInv DEF WInv, LInv
<1> SUFFICES ASSUME NEW j \in Keys PROVE Told(j)'
    BY <1>1 DEF WInv
<1>2. Told(j) /\ tau(j) \in Nat /\ tat(j) \in Nat /\ now \in Nat
    BY <1>1, Parameters, TatType DEF WInv
<1>3. \A n \in Tokens(j) : n \in Nat /\ additional_time(j, n) \in Nat
    BY Parameters
<1>4. ASSUME UNCHANGED <<tat_per_key, told>>, now' \in {now, now + 1}
      PROVE  Told(j)'
    <2>1. CASE tat_per_key[j] = Absent
        BY <1>1, <1>2, <1>4, <2>1 DEF Told, LimiterTypeOK
    <2>2. CASE tat_per_key[j] # Absent
        BY <1>1, <1>2, <1>4, <2>2 DEF Told, LimiterTypeOK, earliest_time, tat
    <2> QED
        BY <2>1, <2>2
<1>5. ASSUME NEW k \in Keys, NEW n \in Tokens(k), Allowed(k, n) PROVE Told(j)'
    <2>1. /\ tat_per_key' = [tat_per_key EXCEPT ![k] = NewTat(k, n)]
          /\ told' = [told EXCEPT ![k] = NothingTold]
          /\ now' = now
        BY <1>5 DEF Allowed
    <2>2. CASE j = k
        BY <1>1, <2>1, <2>2 DEF Told, LimiterTypeOK
    <2>3. CASE j # k
        BY <1>1, <1>2, <2>1, <2>3 DEF Told, LimiterTypeOK, earliest_time, tat
    <2> QED
        BY <2>2, <2>3
<1>6. ASSUME NEW k \in Keys, NEW n \in Tokens(k), RefusedTooSoon(k, n) PROVE Told(j)'
    <2>1. /\ tat_per_key' = [tat_per_key EXCEPT ![k] = tat(k)]
          /\ told' = [told EXCEPT ![k] = [tokens |-> n, at |-> earliest_time(k, n)]]
          /\ now' = now
          /\ additional_time(k, n) <= tau(k)
        BY <1>6 DEF RefusedTooSoon
    <2>2. CASE j = k
        <3>1. tat(j)' = tat(j) /\ tat_per_key'[j] # Absent
            BY <1>1, <1>2, <2>1, <2>2 DEF tat, LimiterTypeOK, Absent
        <3>2. earliest_time(j, n)' = earliest_time(j, n)
            BY <3>1 DEF earliest_time
        <3>3. told'[j].tokens = n /\ told'[j].at = earliest_time(j, n)
            BY <1>1, <2>1, <2>2 DEF LimiterTypeOK
        <3> QED
            BY <2>1, <2>2, <3>1, <3>2, <3>3 DEF Told
    <2>3. CASE j # k
        BY <1>1, <1>2, <2>1, <2>3 DEF Told, LimiterTypeOK, earliest_time, tat
    <2> QED
        BY <2>2, <2>3
<1>7. CASE Prune
    <2>1. CASE Pruned(j)
        <3>1. tat_per_key'[j] = Absent /\ told' = told /\ now' = now /\ tat(j) < now
            BY <1>7, <2>1 DEF Prune, Pruned, tat
        <3>2. ASSUME told[j] # NothingTold PROVE told[j].at <= now
            BY <1>2, <1>3, <2>1, <3>1, <3>2 DEF Told, Pruned, earliest_time
        <3> QED
            BY <1>2, <3>1, <3>2 DEF Told
    <2>2. CASE ~Pruned(j)
        BY <1>1, <1>2, <1>7, <2>2 DEF Prune, Told, LimiterTypeOK, earliest_time, tat
    <2> QED
        BY <2>1, <2>2
<1>8. CASE PollEvent
    BY <1>4, <1>8 DEF PollEvent
<1>9. CASE Tick
    BY <1>4, <1>9 DEF Tick
<1>10. CASE UNCHANGED limiterVars
    BY <1>4, <1>10 DEF limiterVars
<1>11. ASSUME NEW k \in Keys, NEW n \in Tokens(k), RefusedTooLarge(k, n) PROVE Told(j)'
    BY <1>4, <1>11 DEF RefusedTooLarge
<1>12. ASSUME NEW k \in Keys, NEW n \in Tokens(k), InjectRequest(k, n) PROVE Told(j)'
    BY <1>5, <1>6, <1>11, <1>12 DEF InjectRequest
<1> QED
    BY <1>7, <1>8, <1>9, <1>10, <1>12 DEF LimiterNext

\* A refused peer is told exactly when the same request would be admitted, and
\* neither time nor pruning changes that.
THEOREM WaitAlwaysExact == LimiterSpec => []WaitIsExact
<1>1. WInv => WaitIsExact
    <2> SUFFICES ASSUME WInv, NEW k \in Keys, told[k] # NothingTold
                 PROVE  TooSoon(k, told[k].tokens) <=> now < told[k].at
        BY DEF WaitIsExact
    <2> DEFINE n == told[k].tokens
    <2>1. Told(k) /\ tau(k) \in Nat /\ now \in Nat /\ n \in Tokens(k)
        BY Parameters, TatType DEF WInv, LInv, Told
    <2>2. additional_time(k, n) \in Nat /\ told[k].at \in Nat
        BY <2>1, Parameters DEF WInv, LInv, LimiterTypeOK
    <2> QED
        BY <2>1, <2>2 DEF Told, TooSoon, earliest_time, tat
<1>2. LimiterSpec => []WInv
    BY InitWInv, StepWInv, PTL DEF LimiterSpec
<1> QED
    BY <1>1, <1>2, PTL
=============================================================================
