--------------------------- MODULE Public_proofs ---------------------------
(***************************************************************************)
(* Theorems about what an anonymous visitor reaches: the rate limiter with *)
(* the contact form behind it, for any callers, requests, limits and       *)
(* windows, and the demo's history, for any visitors and any Keep.         *)
(***************************************************************************)
EXTENDS ContactForm, DemoHistory, FiniteSetTheorems, TLAPS

\* What the proofs need of clocks that are cut into windows.
LEMMA Windowing ==
    ASSUME NEW t \in Nat
    PROVE  /\ WindowOf(t) \in Nat
           /\ \A u \in Nat : t <= u => WindowOf(t) <= WindowOf(u)
           /\ WindowOf(t + Window) = WindowOf(t) + 1
           /\ WindowOf(t + RetryAfter(t)) = WindowOf(t) + 1
           /\ RetryAfter(t) \in 1..Window
  <1>0. Window \in Nat \ {0}
    BY LimiterAssumption
  <1>1. WindowOf(t) \in Nat
    BY <1>0, SMT DEF WindowOf
  <1>2. ASSUME NEW u \in Nat, t <= u PROVE WindowOf(t) <= WindowOf(u)
    BY <1>0, <1>2, SMT DEF WindowOf
  <1>3. WindowOf(t + Window) = WindowOf(t) + 1
    BY <1>0, SMT DEF WindowOf
  <1>4. t % Window \in 0..(Window - 1)
    BY <1>0, SMT
  <1>5. RetryAfter(t) = Window - (t % Window) /\ RetryAfter(t) \in 1..Window
    BY <1>0, <1>4, SMT DEF RetryAfter
  <1>6. WindowOf(t + (Window - (t % Window))) = WindowOf(t) + 1
    BY <1>0, SMT DEF WindowOf
  <1> QED BY <1>1, <1>2, <1>3, <1>5, <1>6

LEMMA TimesAreNat ==
    /\ Times \subseteq Nat /\ Windows \subseteq Nat
    /\ \A t \in Times : WindowOf(t) \in Windows
  <1>1. MaxTime \in Nat
    BY LimiterAssumption
  <1>2. ASSUME NEW t \in Times PROVE WindowOf(t) \in Windows
    <2>1. t \in Nat /\ t <= MaxTime
      BY <1>1 DEF Times
    <2> QED BY <1>1, <2>1, Windowing DEF Windows
  <1> QED BY <1>1, <1>2 DEF Times, Windows

LEMMA SubsetCount ==
    ASSUME NEW S, NEW T, IsFiniteSet(T), S \subseteq T
    PROVE  Cardinality(S) \in Nat /\ Cardinality(T) \in Nat /\ Cardinality(S) <= Cardinality(T)
  BY FS_Subset, FS_CardinalityType

LEMMA OneMore ==
    ASSUME NEW S, IsFiniteSet(S), NEW x, x \notin S
    PROVE  Cardinality(S \cup {x}) = Cardinality(S) + 1 /\ Cardinality(S) \in Nat
  BY FS_AddElement, FS_CardinalityType

LEMMA RequestsAreFinite ==
    ASSUME NEW S, S \subseteq Requests
    PROVE  IsFiniteSet(S) /\ Cardinality(S) \in Nat
  BY LimiterAssumption, FS_Subset, FS_CardinalityType

\* What one executed transaction does to the counters.
LEMMA IncrementKeeps ==
    ASSUME LimiterTypeOK, KeysOutlive,
           NEW c \in Callers, NEW w \in Windows, w <= WindowOf(now), Increment(<<c, w>>)
    PROVE  /\ counter' \in [Callers \X Windows -> [used : Nat, until : Nat]]
           /\ \A k \in Callers, v \in Windows : k # c \/ v # w => counter'[<<k, v>>] = counter[<<k, v>>]
           /\ counter'[<<c, w>>].used \in {1, counter[<<c, w>>].used + 1}
           /\ WindowOf(counter'[<<c, w>>].until) > w
           /\ WindowOf(now) = w => counter'[<<c, w>>].used = counter[<<c, w>>].used + 1
  <1> DEFINE k == <<c, w>>
  <1>0. /\ k \in Callers \X Windows /\ now \in Nat /\ w \in Nat
        /\ counter \in [Callers \X Windows -> [used : Nat, until : Nat]]
        /\ Window \in Nat \ {0}
    BY TimesAreNat, LimiterAssumption DEF LimiterTypeOK
  <1>1. counter[k].used \in Nat /\ counter[k].until \in Nat
    BY <1>0
  <1>2. PICK fresh \in BOOLEAN :
        /\ (counter[k].used = 0 \/ now > counter[k].until) => fresh
        /\ fresh => (counter[k].used = 0 \/ now >= counter[k].until)
        /\ counter' = [counter EXCEPT ![k] =
              IF fresh THEN [used |-> 1, until |-> now + Window]
                       ELSE [used |-> @.used + 1, until |-> @.until]]
    BY DEF Increment
  <1>3. WindowOf(now + Window) = WindowOf(now) + 1 /\ WindowOf(now) \in Nat
    BY <1>0, Windowing
  <1>4. CASE fresh
    <2>1. counter' = [counter EXCEPT ![k] = [used |-> 1, until |-> now + Window]]
      BY <1>2, <1>4
    <2>2. counter'[k] = [used |-> 1, until |-> now + Window]
      BY <1>0, <2>1
    <2>3. ASSUME WindowOf(now) = w, counter[k].used > 0 PROVE FALSE
      <3>1. now >= counter[k].until
        BY <1>1, <1>2, <1>4, <2>3
      <3>2. WindowOf(counter[k].until) > w /\ WindowOf(counter[k].until) \in Nat
        BY <1>1, <2>3, Windowing DEF KeysOutlive
      <3>3. WindowOf(counter[k].until) <= WindowOf(now)
        BY <1>0, <1>1, <3>1, Windowing
      <3> QED BY <1>0, <2>3, <3>2, <3>3
    <2>4. WindowOf(counter'[k].until) > w
      BY <1>0, <1>3, <2>2
    <2>5. /\ counter' \in [Callers \X Windows -> [used : Nat, until : Nat]]
          /\ \A j \in Callers \X Windows : j # k => counter'[j] = counter[j]
      BY <1>0, <2>1
    <2>6. WindowOf(now) = w => counter'[k].used = counter[k].used + 1
      BY <1>1, <2>2, <2>3
    <2> QED BY <2>2, <2>4, <2>5, <2>6
  <1>5. CASE ~fresh
    <2>1. counter' = [counter EXCEPT ![k] = [used |-> @.used + 1, until |-> @.until]]
      BY <1>2, <1>5
    <2>2. counter'[k] = [used |-> counter[k].used + 1, until |-> counter[k].until]
      BY <1>0, <2>1
    <2>3. counter'[k].used = counter[k].used + 1 /\ counter'[k].until = counter[k].until
      BY <2>2
    <2>4. counter[k].used > 0
      BY <1>1, <1>2, <1>5
    <2>5. WindowOf(counter'[k].until) > w
      BY <2>3, <2>4 DEF KeysOutlive
    <2>6. counter'[k] \in [used : Nat, until : Nat]
      BY <1>1, <2>2
    <2>7. /\ counter' \in [Callers \X Windows -> [used : Nat, until : Nat]]
          /\ \A j \in Callers \X Windows : j # k => counter'[j] = counter[j]
      BY <1>0, <2>1, <2>6
    <2> QED BY <2>3, <2>5, <2>7
  <1> QED BY <1>4, <1>5

\* No request is sent again without end.
LEMMA SendingsAreFinite ==
    ASSUME NEW S, S \subseteq Sendings
    PROVE  IsFiniteSet(S) /\ Cardinality(S) \in Nat
  <1>1. IsFiniteSet(1..MaxResends) /\ IsFiniteSet(Requests)
    BY FS_Interval, LimiterAssumption
  <1>2. IsFiniteSet(Sendings)
    BY <1>1, FS_Product DEF Sendings
  <1> QED BY <1>2, FS_Subset, FS_CardinalityType

\* The requests of one caller and window are finitely many.
LEMMA SetsAreRequests ==
    ASSUME LimiterTypeOK, NEW c, NEW w
    PROVE  /\ IsFiniteSet(InTime(c, w)) /\ Cardinality(InTime(c, w)) \in Nat
           /\ IsFiniteSet(Through(c, w)) /\ Cardinality(Through(c, w)) \in Nat
           /\ IsFiniteSet(Again(c, w)) /\ Cardinality(Again(c, w)) \in Nat
           /\ Sent(c, w) \in Nat
  <1>1. InTime(c, w) \subseteq Requests /\ Through(c, w) \subseteq Requests
    BY DEF InTime, Through
  <1>2. Again(c, w) \subseteq Sendings
    BY DEF Again, LimiterTypeOK
  <1>3. IsFiniteSet(Again(c, w)) /\ Cardinality(Again(c, w)) \in Nat
    BY <1>2, SendingsAreFinite
  <1> QED BY <1>1, <1>3, RequestsAreFinite DEF Sent

\* What Redis was asked never becomes less.
LEMMA SentGrows ==
    ASSUME LimiterTypeOK, LimiterTypeOK', resent \subseteq resent',
           \A q \in Requests : step[q] \in {"admitted", "open", "refused"} =>
               step'[q] = step[q] /\ caller'[q] = caller[q] /\ stamp'[q] = stamp[q],
           \A s \in resent : caller'[s[1]] = caller[s[1]] /\ stamp'[s[1]] = stamp[s[1]],
           NEW c, NEW w
    PROVE  /\ Cardinality(Through(c, w)) <= Cardinality(Through(c, w)')
           /\ Cardinality(Again(c, w)) <= Cardinality(Again(c, w)')
           /\ Sent(c, w) <= Sent(c, w)' /\ Sent(c, w) \in Nat /\ Sent(c, w)' \in Nat
  <1>1. Through(c, w) \subseteq Through(c, w)' /\ Through(c, w)' \subseteq Requests
    BY DEF Through
  <1>2. Again(c, w) \subseteq Again(c, w)' /\ Again(c, w)' \subseteq Sendings
    BY DEF Again, LimiterTypeOK
  <1>3. /\ Cardinality(Through(c, w)) <= Cardinality(Through(c, w)')
        /\ Cardinality(Through(c, w)) \in Nat /\ Cardinality(Through(c, w)') \in Nat
    BY <1>1, RequestsAreFinite, SubsetCount
  <1>4. /\ Cardinality(Again(c, w)) <= Cardinality(Again(c, w)')
        /\ Cardinality(Again(c, w)) \in Nat /\ Cardinality(Again(c, w)') \in Nat
    BY <1>2, SendingsAreFinite, SubsetCount
  <1> QED BY <1>3, <1>4 DEF Sent

\* A step that lets nobody in and refuses nobody, while counters only grow.
LEMMA NobodyIsJudged ==
    ASSUME LimiterIInv, LimiterTypeOK', StampsPassed', KeysOutlive', UsedWasSent',
           now <= now', resent \subseteq resent',
           \A q \in Requests : step[q] \in {"admitted", "open", "refused"} =>
               /\ step'[q] = step[q] /\ caller'[q] = caller[q]
               /\ stamp'[q] = stamp[q] /\ hit'[q] = hit[q],
           \A q \in Requests : step'[q] \in {"admitted", "refused"} => step[q] = step'[q],
           \A s \in resent : caller'[s[1]] = caller[s[1]] /\ stamp'[s[1]] = stamp[s[1]],
           \A c \in Callers, w \in Windows :
               WindowOf(now) <= w => counter[<<c, w>>].used <= counter'[<<c, w>>].used
    PROVE  LimiterIInv'
  <1>1. ASSUME NEW c, NEW w PROVE InTime(c, w)' = InTime(c, w)
    BY DEF InTime
  <1>2. LimiterTypeOK /\ Counted /\ WindowLimit /\ RefusedForCause
    BY DEF LimiterIInv
  <1>3. WindowOf(now) <= WindowOf(now') /\ WindowOf(now) \in Nat /\ WindowOf(now') \in Nat
    BY TimesAreNat, Windowing, <1>2 DEF LimiterTypeOK
  <1>4. Counted'
    <2> SUFFICES ASSUME NEW c \in Callers, NEW w \in Windows, WindowOf(now') <= w
                 PROVE  Cardinality(InTime(c, w)') <= counter'[<<c, w>>].used
      BY DEF Counted
    <2>1. w \in Nat /\ WindowOf(now) <= w
      BY <1>3, TimesAreNat
    <2>2. Cardinality(InTime(c, w)) <= counter[<<c, w>>].used /\ Cardinality(InTime(c, w)) \in Nat
      BY <1>2, <2>1, SetsAreRequests DEF Counted
    <2>3. counter[<<c, w>>].used <= counter'[<<c, w>>].used
      BY <2>1
    <2>4. counter[<<c, w>>].used \in Nat /\ counter'[<<c, w>>].used \in Nat
      BY <1>2 DEF LimiterTypeOK
    <2> QED BY <1>1, <2>2, <2>3, <2>4
  <1>5. WindowLimit'
    BY <1>1, <1>2 DEF WindowLimit
  <1>6. RefusedForCause'
    <2> SUFFICES ASSUME NEW r \in Requests, step'[r] = "refused"
                 PROVE  /\ (Sent(caller[r], WindowOf(stamp[r])) > MaxRequests)'
                        /\ (WindowOf(stamp[r] + RetryAfter(stamp[r])) = WindowOf(stamp[r]) + 1)'
                        /\ (RetryAfter(stamp[r]) \in 1..Window)'
      BY DEF RefusedForCause
    <2>1. step[r] = "refused" /\ caller'[r] = caller[r] /\ stamp'[r] = stamp[r]
      OBVIOUS
    <2>2. PICK c, w : c = caller[r] /\ w = WindowOf(stamp[r])
      OBVIOUS
    <2>3. Sent(c, w) > MaxRequests
      BY <1>2, <2>1, <2>2 DEF RefusedForCause
    <2>4. Sent(c, w) <= Sent(c, w)' /\ Sent(c, w) \in Nat /\ Sent(c, w)' \in Nat
      BY <1>2, SentGrows
    <2>5. Sent(caller[r], WindowOf(stamp[r]))' = Sent(c, w)'
      BY <2>1, <2>2 DEF WindowOf
    <2>6. MaxRequests \in Nat
      BY LimiterAssumption
    <2>7. (RetryAfter(stamp[r]) \in 1..Window)'
      BY <1>2, <2>1 DEF RefusedForCause, RetryAfter
    <2>8. (WindowOf(stamp[r] + RetryAfter(stamp[r])) = WindowOf(stamp[r]) + 1)'
      BY <1>2, <2>1 DEF RefusedForCause, RetryAfter, WindowOf
    <2> QED BY <2>3, <2>4, <2>5, <2>6, <2>7, <2>8
  <1> QED BY <1>4, <1>5, <1>6 DEF LimiterIInv

-----------------------------------------------------------------------------
(* The steps of the limiter.                                               *)

LEMMA StampKeeps ==
    ASSUME LimiterIInv, NEW r \in Requests, NEW c \in Callers,
           \A s \in resent : s[1] # r, Stamp(r, c)
    PROVE  LimiterIInv'
  <1>0. LimiterTypeOK /\ StampsPassed /\ KeysOutlive /\ UsedWasSent
    BY DEF LimiterIInv
  <1>1. LimiterTypeOK'
    BY <1>0 DEF Stamp, LimiterTypeOK, Steps
  <1>2. StampsPassed'
    BY <1>0, TimesAreNat DEF Stamp, StampsPassed, LimiterTypeOK, Times
  <1>3. KeysOutlive'
    BY <1>0 DEF Stamp, KeysOutlive, WindowOf
  <1>4. ASSUME NEW q \in Requests, step[q] \in {"admitted", "open", "refused"} \/ q # r
        PROVE  step'[q] = step[q] /\ caller'[q] = caller[q] /\ stamp'[q] = stamp[q] /\ hit'[q] = hit[q]
    BY <1>0, <1>4 DEF Stamp, LimiterTypeOK
  <1>5. resent \subseteq Sendings /\ resent' = resent /\ counter' = counter /\ now' = now
    BY <1>0 DEF Stamp, LimiterTypeOK
  <1>10. ASSUME NEW s \in resent
         PROVE  caller'[s[1]] = caller[s[1]] /\ stamp'[s[1]] = stamp[s[1]]
    <2>1. s[1] \in Requests /\ s[1] # r
      BY <1>5 DEF Sendings
    <2> QED BY <1>4, <2>1
  <1>6. UsedWasSent'
    <2> SUFFICES ASSUME NEW k \in Callers, NEW w \in Windows
                 PROVE  counter'[<<k, w>>].used <= Sent(k, w)'
      BY DEF UsedWasSent
    <2>1. counter[<<k, w>>].used <= Sent(k, w) /\ counter[<<k, w>>].used \in Nat
      BY <1>0 DEF UsedWasSent, LimiterTypeOK
    <2>2. Sent(k, w) <= Sent(k, w)' /\ Sent(k, w) \in Nat /\ Sent(k, w)' \in Nat
      BY <1>0, <1>1, <1>10, <1>4, <1>5, SentGrows
    <2> QED BY <1>5, <2>1, <2>2
  <1>7. \A q \in Requests : step'[q] \in {"admitted", "refused"} => step[q] = step'[q]
    BY <1>0 DEF Stamp, LimiterTypeOK
  <1>8. now <= now' /\ \A k \in Callers, w \in Windows :
            WindowOf(now) <= w => counter[<<k, w>>].used <= counter'[<<k, w>>].used
    BY <1>0, <1>5, TimesAreNat DEF LimiterTypeOK
  <1>9. /\ \A q \in Requests : step[q] \in {"admitted", "open", "refused"} =>
               /\ step'[q] = step[q] /\ caller'[q] = caller[q]
               /\ stamp'[q] = stamp[q] /\ hit'[q] = hit[q]
        /\ \A s \in resent : caller'[s[1]] = caller[s[1]] /\ stamp'[s[1]] = stamp[s[1]]
    BY <1>10, <1>4, <1>5
  <1> QED BY <1>1, <1>2, <1>3, <1>5, <1>6, <1>7, <1>8, <1>9, NobodyIsJudged

LEMMA UnreachedKeeps ==
    ASSUME LimiterIInv, NEW r \in Requests, Unreached(r)
    PROVE  LimiterIInv'
  <1>0. LimiterTypeOK /\ StampsPassed /\ KeysOutlive /\ UsedWasSent
    BY DEF LimiterIInv
  <1>1. LimiterTypeOK'
    BY <1>0 DEF Unreached, LimiterTypeOK, Steps
  <1>2. StampsPassed'
    BY <1>0 DEF Unreached, StampsPassed, LimiterTypeOK
  <1>3. KeysOutlive'
    BY <1>0 DEF Unreached, KeysOutlive, WindowOf
  <1>4. ASSUME NEW q \in Requests, step[q] \in {"admitted", "open", "refused"}
        PROVE  step'[q] = step[q]
    BY <1>0, <1>4 DEF Unreached, LimiterTypeOK
  <1>5. /\ resent \subseteq Sendings /\ resent' = resent /\ counter' = counter /\ now' = now
        /\ caller' = caller /\ stamp' = stamp /\ hit' = hit
    BY <1>0 DEF Unreached, LimiterTypeOK
  <1>6. UsedWasSent'
    <2> SUFFICES ASSUME NEW k \in Callers, NEW w \in Windows
                 PROVE  counter'[<<k, w>>].used <= Sent(k, w)'
      BY DEF UsedWasSent
    <2>1. counter[<<k, w>>].used <= Sent(k, w) /\ counter[<<k, w>>].used \in Nat
      BY <1>0 DEF UsedWasSent, LimiterTypeOK
    <2>2. Sent(k, w) <= Sent(k, w)' /\ Sent(k, w) \in Nat /\ Sent(k, w)' \in Nat
      BY <1>0, <1>1, <1>4, <1>5, SentGrows
    <2> QED BY <1>5, <2>1, <2>2
  <1>7. \A q \in Requests : step'[q] \in {"admitted", "refused"} => step[q] = step'[q]
    BY <1>0 DEF Unreached, LimiterTypeOK
  <1>8. now <= now' /\ \A k \in Callers, w \in Windows :
            WindowOf(now) <= w => counter[<<k, w>>].used <= counter'[<<k, w>>].used
    BY <1>0, <1>5, TimesAreNat DEF LimiterTypeOK
  <1>9. /\ \A q \in Requests : step[q] \in {"admitted", "open", "refused"} =>
               /\ step'[q] = step[q] /\ caller'[q] = caller[q]
               /\ stamp'[q] = stamp[q] /\ hit'[q] = hit[q]
        /\ \A s \in resent : caller'[s[1]] = caller[s[1]] /\ stamp'[s[1]] = stamp[s[1]]
    BY <1>4, <1>5
  <1> QED BY <1>1, <1>2, <1>3, <1>5, <1>6, <1>7, <1>8, <1>9, NobodyIsJudged

LEMMA TickKeeps ==
    ASSUME LimiterIInv, Tick
    PROVE  LimiterIInv'
  <1>0. LimiterTypeOK /\ StampsPassed /\ KeysOutlive /\ UsedWasSent
    BY DEF LimiterIInv
  <1>1. /\ now \in Nat /\ now' = now + 1 /\ now' \in Times
        /\ step' = step /\ caller' = caller /\ stamp' = stamp /\ hit' = hit
        /\ resent' = resent /\ counter' = counter
    BY <1>0, LimiterAssumption DEF Tick, LimiterTypeOK, Times
  <1>2. LimiterTypeOK'
    BY <1>0, <1>1 DEF LimiterTypeOK
  <1>3. StampsPassed'
    <2> SUFFICES ASSUME NEW q \in Requests
                 PROVE  hit[q] <= now' /\ (step[q] # "idle" => caller[q] \in Callers /\ stamp[q] <= now')
      BY <1>1 DEF StampsPassed
    <2>1. hit[q] \in Nat /\ stamp[q] \in Nat
      BY <1>0, TimesAreNat DEF LimiterTypeOK
    <2> QED BY <1>0, <1>1, <2>1 DEF StampsPassed
  <1>4. KeysOutlive'
    BY <1>0, <1>1 DEF KeysOutlive, WindowOf
  <1>5. UsedWasSent'
    BY <1>0, <1>1 DEF UsedWasSent, Sent, Through, Again, WindowOf
  <1>6. \A k \in Callers, w \in Windows : counter[<<k, w>>].used \in Nat
    BY <1>0 DEF LimiterTypeOK
  <1> QED BY <1>1, <1>2, <1>3, <1>4, <1>5, <1>6, NobodyIsJudged

\* A process that dies gives up the request it was counting.
LEMMA DeathKeeps ==
    ASSUME LimiterIInv, NEW r \in Requests,
           step' = [step EXCEPT ![r] = IF @ = "stamped" THEN "idle" ELSE @],
           UNCHANGED <<now, caller, stamp, hit, resent, counter>>
    PROVE  LimiterIInv'
  <1>0. LimiterTypeOK /\ StampsPassed /\ KeysOutlive /\ UsedWasSent
    BY DEF LimiterIInv
  <1>1. LimiterTypeOK'
    BY <1>0 DEF LimiterTypeOK, Steps
  <1>2. StampsPassed'
    BY <1>0 DEF StampsPassed, LimiterTypeOK
  <1>3. KeysOutlive'
    BY <1>0 DEF KeysOutlive, WindowOf
  <1>4. ASSUME NEW q \in Requests
        PROVE  /\ step[q] \in {"admitted", "open", "refused"} => step'[q] = step[q]
               /\ step'[q] \in {"admitted", "refused"} => step[q] = step'[q]
    BY <1>0 DEF LimiterTypeOK
  <1>5. resent \subseteq Sendings /\ now \in Nat
    BY <1>0, TimesAreNat DEF LimiterTypeOK
  <1>6. UsedWasSent'
    <2> SUFFICES ASSUME NEW k \in Callers, NEW w \in Windows
                 PROVE  counter'[<<k, w>>].used <= Sent(k, w)'
      BY DEF UsedWasSent
    <2>1. counter[<<k, w>>].used <= Sent(k, w) /\ counter[<<k, w>>].used \in Nat
      BY <1>0 DEF UsedWasSent, LimiterTypeOK
    <2>2. Sent(k, w) <= Sent(k, w)' /\ Sent(k, w) \in Nat /\ Sent(k, w)' \in Nat
      BY <1>0, <1>1, <1>4, <1>5, SentGrows
    <2> QED BY <2>1, <2>2
  <1>7. \A k \in Callers, w \in Windows : counter[<<k, w>>].used \in Nat
    BY <1>0 DEF LimiterTypeOK
  <1> QED BY <1>1, <1>2, <1>3, <1>4, <1>5, <1>6, <1>7, NobodyIsJudged

\* The counter of a request under way is that of a caller, of a window that has begun.
LEMMA StampedKey ==
    ASSUME LimiterIInv, NEW r \in Requests, step[r] = "stamped"
    PROVE  /\ caller[r] \in Callers /\ WindowOf(stamp[r]) \in Windows
           /\ WindowOf(stamp[r]) <= WindowOf(now)
  <1>0. LimiterTypeOK /\ StampsPassed
    BY DEF LimiterIInv
  <1>1. stamp[r] \in Times /\ stamp[r] \in Nat /\ now \in Nat
    BY <1>0, TimesAreNat DEF LimiterTypeOK
  <1>2. caller[r] \in Callers /\ stamp[r] <= now
    BY <1>0 DEF StampsPassed
  <1> QED BY <1>1, <1>2, TimesAreNat, Windowing

\* What every step that executes a transaction does to the counters.
LEMMA Counting ==
    ASSUME LimiterIInv,
           NEW c \in Callers, NEW w \in Windows, w <= WindowOf(now), Increment(<<c, w>>)
    PROVE  /\ counter' \in [Callers \X Windows -> [used : Nat, until : Nat]]
           /\ \A k \in Callers, v \in Windows : k # c \/ v # w => counter'[<<k, v>>] = counter[<<k, v>>]
           /\ counter'[<<c, w>>].used \in {1, counter[<<c, w>>].used + 1}
           /\ WindowOf(now) = w => counter'[<<c, w>>].used = counter[<<c, w>>].used + 1
           /\ \A k \in Callers, v \in Windows :
                  /\ counter'[<<k, v>>].used > 0 => WindowOf(counter'[<<k, v>>].until) > v
                  /\ WindowOf(now) <= v => counter[<<k, v>>].used <= counter'[<<k, v>>].used
  <1>0. LimiterTypeOK /\ KeysOutlive
    BY DEF LimiterIInv
  <1>3. w \in Nat /\ WindowOf(now) \in Nat
    BY <1>0, TimesAreNat, Windowing DEF LimiterTypeOK
  <1>5. /\ counter' \in [Callers \X Windows -> [used : Nat, until : Nat]]
        /\ \A k \in Callers, v \in Windows : k # c \/ v # w => counter'[<<k, v>>] = counter[<<k, v>>]
        /\ counter'[<<c, w>>].used \in {1, counter[<<c, w>>].used + 1}
        /\ WindowOf(counter'[<<c, w>>].until) > w
        /\ WindowOf(now) = w => counter'[<<c, w>>].used = counter[<<c, w>>].used + 1
    BY <1>0, IncrementKeeps
  <1>6. ASSUME NEW k \in Callers, NEW v \in Windows
        PROVE  /\ counter'[<<k, v>>].used > 0 => WindowOf(counter'[<<k, v>>].until) > v
               /\ WindowOf(now) <= v => counter[<<k, v>>].used <= counter'[<<k, v>>].used
    <2>1. counter[<<k, v>>].used \in Nat
      BY <1>0 DEF LimiterTypeOK
    <2>2. CASE k = c /\ v = w
      <3>1. WindowOf(now) <= v => WindowOf(now) = w
        BY <1>3, <2>2
      <3> QED BY <1>5, <2>1, <2>2, <3>1
    <2>3. CASE k # c \/ v # w
      <3>1. counter'[<<k, v>>] = counter[<<k, v>>]
        BY <1>5, <2>3
      <3> QED BY <1>0, <2>1, <3>1 DEF KeysOutlive
    <2> QED BY <2>2, <2>3
  <1> QED BY <1>5, <1>6

\* A counter that counts one more was sent one more.
LEMMA CountedWasSent ==
    ASSUME LimiterIInv, LimiterTypeOK', NEW c \in Callers, NEW w \in Windows,
           Sent(c, w)' = Sent(c, w) + 1,
           \A k \in Callers, v \in Windows : Sent(k, v) <= Sent(k, v)' /\ Sent(k, v)' \in Nat,
           \A k \in Callers, v \in Windows : k # c \/ v # w => counter'[<<k, v>>] = counter[<<k, v>>],
           counter'[<<c, w>>].used \in {1, counter[<<c, w>>].used + 1}
    PROVE  UsedWasSent'
  <1>0. LimiterTypeOK /\ UsedWasSent
    BY DEF LimiterIInv
  <1> SUFFICES ASSUME NEW k \in Callers, NEW v \in Windows
               PROVE  counter'[<<k, v>>].used <= Sent(k, v)'
    BY DEF UsedWasSent
  <1>1. /\ counter[<<k, v>>].used <= Sent(k, v) /\ counter[<<k, v>>].used \in Nat
        /\ Sent(k, v) \in Nat /\ Sent(k, v) <= Sent(k, v)' /\ Sent(k, v)' \in Nat
    BY <1>0, SetsAreRequests DEF UsedWasSent, LimiterTypeOK
  <1>2. CASE k = c /\ v = w
    BY <1>1, <1>2
  <1>3. CASE k # c \/ v # w
    <2>1. counter'[<<k, v>>] = counter[<<k, v>>]
      BY <1>3
    <2> QED BY <1>1, <2>1
  <1> QED BY <1>2, <1>3

LEMMA CountAgainKeeps ==
    ASSUME LimiterIInv, NEW r \in Requests, CountAgain(r)
    PROVE  LimiterIInv'
  <1>0. /\ LimiterTypeOK /\ StampsPassed /\ UsedWasSent
        /\ step[r] = "stamped" /\ Increment(Key(r))
        /\ now' = now /\ step' = step /\ caller' = caller /\ stamp' = stamp /\ hit' = hit
    BY DEF LimiterIInv, CountAgain
  <1>10. PICK n \in 1..MaxResends : <<r, n>> \notin resent /\ resent' = resent \cup {<<r, n>>}
    BY DEF CountAgain
  <1>1. PICK c, w : c = caller[r] /\ w = WindowOf(stamp[r])
    OBVIOUS
  <1>11. c \in Callers /\ w \in Windows /\ w <= WindowOf(now) /\ Increment(<<c, w>>)
    BY <1>0, <1>1, StampedKey DEF Key
  <1>2. /\ counter' \in [Callers \X Windows -> [used : Nat, until : Nat]]
        /\ \A k \in Callers, v \in Windows : k # c \/ v # w => counter'[<<k, v>>] = counter[<<k, v>>]
        /\ counter'[<<c, w>>].used \in {1, counter[<<c, w>>].used + 1}
        /\ \A k \in Callers, v \in Windows :
              /\ counter'[<<k, v>>].used > 0 => WindowOf(counter'[<<k, v>>].until) > v
              /\ WindowOf(now) <= v => counter[<<k, v>>].used <= counter'[<<k, v>>].used
    BY <1>11, Counting
  <1>3. LimiterTypeOK'
    BY <1>0, <1>10, <1>2 DEF LimiterTypeOK, Sendings
  <1>4. StampsPassed' /\ KeysOutlive'
    BY <1>0, <1>2 DEF StampsPassed, KeysOutlive, WindowOf
  <1>5. ASSUME NEW k, NEW v
        PROVE  Sent(k, v) <= Sent(k, v)' /\ Sent(k, v)' \in Nat
    BY <1>0, <1>10, <1>3, SentGrows
  <1>6. Sent(c, w)' = Sent(c, w) + 1
    <2>1. Through(c, w)' = Through(c, w)
      BY <1>0 DEF Through, WindowOf
    <2>2. Again(c, w)' = Again(c, w) \cup {<<r, n>>} /\ <<r, n>> \notin Again(c, w)
      BY <1>0, <1>10, <1>1 DEF Again, WindowOf
    <2>3. Cardinality(Again(c, w)') = Cardinality(Again(c, w)) + 1
      BY <1>0, <2>2, SetsAreRequests, OneMore
    <2>4. Cardinality(Again(c, w)) \in Nat /\ Cardinality(Through(c, w)) \in Nat
      BY <1>0, SetsAreRequests
    <2> QED BY <2>1, <2>3, <2>4 DEF Sent
  <1>7. UsedWasSent'
    BY <1>11, <1>2, <1>3, <1>5, <1>6, CountedWasSent
  <1>8. now <= now' /\ resent \subseteq resent'
    BY <1>0, <1>10, TimesAreNat DEF LimiterTypeOK
  <1> QED BY <1>0, <1>2, <1>3, <1>4, <1>7, <1>8, NobodyIsJudged

\* A request that is through is one more that was sent.
LEMMA ThroughIsSent ==
    ASSUME LimiterTypeOK, NEW r \in Requests, step[r] = "stamped",
           step'[r] \in {"admitted", "open", "refused"},
           \A q \in Requests : q # r => step'[q] = step[q],
           UNCHANGED <<caller, stamp, resent>>,
           NEW c, NEW w, c = caller[r], w = WindowOf(stamp[r])
    PROVE  Sent(c, w)' = Sent(c, w) + 1
  <1>1. Through(c, w)' = Through(c, w) \cup {r} /\ r \notin Through(c, w)
    BY DEF Through, WindowOf
  <1>2. Again(c, w)' = Again(c, w)
    BY DEF Again, WindowOf
  <1>3. Cardinality(Through(c, w)') = Cardinality(Through(c, w)) + 1
    BY <1>1, SetsAreRequests, OneMore
  <1>4. Cardinality(Again(c, w)) \in Nat /\ Cardinality(Through(c, w)) \in Nat
    BY SetsAreRequests
  <1> QED BY <1>2, <1>3, <1>4 DEF Sent

LEMMA CountUnheardKeeps ==
    ASSUME LimiterIInv, NEW r \in Requests, CountUnheard(r)
    PROVE  LimiterIInv'
  <1>0. /\ LimiterTypeOK /\ StampsPassed /\ UsedWasSent
        /\ step[r] = "stamped" /\ Increment(Key(r)) /\ step' = [step EXCEPT ![r] = "open"]
        /\ now' = now /\ resent' = resent /\ caller' = caller /\ stamp' = stamp /\ hit' = hit
    BY DEF LimiterIInv, CountUnheard
  <1>1. PICK c, w : c = caller[r] /\ w = WindowOf(stamp[r])
    OBVIOUS
  <1>11. c \in Callers /\ w \in Windows /\ w <= WindowOf(now) /\ Increment(<<c, w>>)
    BY <1>0, <1>1, StampedKey DEF Key
  <1>2. /\ counter' \in [Callers \X Windows -> [used : Nat, until : Nat]]
        /\ \A k \in Callers, v \in Windows : k # c \/ v # w => counter'[<<k, v>>] = counter[<<k, v>>]
        /\ counter'[<<c, w>>].used \in {1, counter[<<c, w>>].used + 1}
        /\ \A k \in Callers, v \in Windows :
              /\ counter'[<<k, v>>].used > 0 => WindowOf(counter'[<<k, v>>].until) > v
              /\ WindowOf(now) <= v => counter[<<k, v>>].used <= counter'[<<k, v>>].used
    BY <1>11, Counting
  <1>3. LimiterTypeOK'
    BY <1>0, <1>2 DEF LimiterTypeOK, Steps
  <1>4. StampsPassed' /\ KeysOutlive'
    BY <1>0, <1>2 DEF StampsPassed, KeysOutlive, WindowOf, LimiterTypeOK
  <1>5. ASSUME NEW q \in Requests
        PROVE  /\ q # r => step'[q] = step[q]
               /\ step'[r] = "open"
               /\ step[q] \in {"admitted", "open", "refused"} => step'[q] = step[q]
               /\ step'[q] \in {"admitted", "refused"} => step[q] = step'[q]
    BY <1>0 DEF LimiterTypeOK
  <1>6. resent \subseteq Sendings /\ now <= now'
    BY <1>0, TimesAreNat DEF LimiterTypeOK
  <1>7. ASSUME NEW k, NEW v
        PROVE  Sent(k, v) <= Sent(k, v)' /\ Sent(k, v)' \in Nat
    BY <1>0, <1>3, <1>5, <1>6, SentGrows
  <1>8. Sent(c, w)' = Sent(c, w) + 1
    BY <1>0, <1>1, <1>5, ThroughIsSent
  <1>9. UsedWasSent'
    BY <1>11, <1>2, <1>3, <1>7, <1>8, CountedWasSent
  <1> QED BY <1>0, <1>2, <1>3, <1>4, <1>5, <1>6, <1>9, NobodyIsJudged

\* Redis answers.  The request is let in by the counter of its own window, if at all.
LEMMA CountKeeps ==
    ASSUME LimiterIInv, NEW r \in Requests, Count(r)
    PROVE  LimiterIInv'
  <1>0. /\ LimiterTypeOK /\ StampsPassed /\ UsedWasSent /\ Counted /\ WindowLimit /\ RefusedForCause
        /\ step[r] = "stamped" /\ Increment(Key(r)) /\ hit' = [hit EXCEPT ![r] = now]
        /\ step' = [step EXCEPT ![r] = Verdict(counter'[Key(r)].used)]
        /\ now' = now /\ resent' = resent /\ caller' = caller /\ stamp' = stamp
    BY DEF LimiterIInv, Count
  <1>1. PICK c, w : c = caller[r] /\ w = WindowOf(stamp[r])
    OBVIOUS
  <1>2. /\ c \in Callers /\ w \in Windows /\ w <= WindowOf(now) /\ Increment(<<c, w>>)
        /\ step'[r] = Verdict(counter'[<<c, w>>].used) /\ hit'[r] = now
    BY <1>0, <1>1, StampedKey DEF Key, LimiterTypeOK
  <1>3. /\ counter' \in [Callers \X Windows -> [used : Nat, until : Nat]]
        /\ \A k \in Callers, v \in Windows : k # c \/ v # w => counter'[<<k, v>>] = counter[<<k, v>>]
        /\ counter'[<<c, w>>].used \in {1, counter[<<c, w>>].used + 1}
        /\ WindowOf(now) = w => counter'[<<c, w>>].used = counter[<<c, w>>].used + 1
        /\ \A k \in Callers, v \in Windows :
              /\ counter'[<<k, v>>].used > 0 => WindowOf(counter'[<<k, v>>].until) > v
              /\ WindowOf(now) <= v => counter[<<k, v>>].used <= counter'[<<k, v>>].used
    BY <1>2, Counting
  <1>4. counter'[<<c, w>>].used \in Nat /\ MaxRequests \in Nat
    BY <1>2, <1>3, LimiterAssumption
  <1>5. /\ step'[r] \in {"admitted", "refused"}
        /\ step'[r] = "admitted" => counter'[<<c, w>>].used <= MaxRequests
        /\ step'[r] = "refused" => counter'[<<c, w>>].used > MaxRequests
    BY <1>2, <1>4 DEF Verdict
  <1>6. ASSUME NEW q \in Requests, q # r PROVE step'[q] = step[q] /\ hit'[q] = hit[q]
    BY <1>0, <1>6 DEF LimiterTypeOK
  <1>7. LimiterTypeOK'
    <2>1. step' \in [Requests -> Steps] /\ hit' \in [Requests -> Times]
      BY <1>0, <1>2, <1>5 DEF LimiterTypeOK, Steps
    <2> QED BY <1>0, <1>3, <2>1 DEF LimiterTypeOK
  <1>8. StampsPassed' /\ KeysOutlive'
    <2>1. KeysOutlive'
      BY <1>3 DEF KeysOutlive, WindowOf
    <2>2. now \in Nat /\ caller[r] \in Callers /\ stamp[r] <= now
      BY <1>0, TimesAreNat DEF LimiterTypeOK, StampsPassed
    <2>3. StampsPassed'
      BY <1>0, <1>2, <1>6, <2>2 DEF StampsPassed
    <2> QED BY <2>1, <2>3
  <1>9. ASSUME NEW k, NEW v
        PROVE  Sent(k, v) <= Sent(k, v)' /\ Sent(k, v)' \in Nat
    <2>1. \A q \in Requests : step[q] \in {"admitted", "open", "refused"} => step'[q] = step[q]
      BY <1>0, <1>6
    <2> QED BY <1>0, <1>7, <2>1, SentGrows
  <1>10. Sent(c, w)' = Sent(c, w) + 1
    BY <1>0, <1>1, <1>5, <1>6, ThroughIsSent
  <1>11. UsedWasSent'
    BY <1>2, <1>3, <1>7, <1>9, <1>10, CountedWasSent
  <1>12. ASSUME NEW k, NEW v
         PROVE  \/ InTime(k, v)' = InTime(k, v)
                \/ /\ k = c /\ v = w /\ WindowOf(now) = w /\ step'[r] = "admitted"
                   /\ InTime(k, v)' = InTime(k, v) \cup {r} /\ r \notin InTime(k, v)
    BY <1>0, <1>1, <1>2, <1>6 DEF InTime, WindowOf
  <1>13. Counted' /\ WindowLimit'
    <2> SUFFICES ASSUME NEW k \in Callers, NEW v \in Windows
                 PROVE  /\ WindowOf(now) <= v => Cardinality(InTime(k, v)') <= counter'[<<k, v>>].used
                        /\ Cardinality(InTime(k, v)') <= MaxRequests
      BY <1>0 DEF Counted, WindowLimit, WindowOf
    <2>1. /\ WindowOf(now) <= v => Cardinality(InTime(k, v)) <= counter[<<k, v>>].used
          /\ Cardinality(InTime(k, v)) <= MaxRequests
      BY <1>0 DEF Counted, WindowLimit
    <2>2. /\ Cardinality(InTime(k, v)) \in Nat /\ IsFiniteSet(InTime(k, v))
          /\ counter[<<k, v>>].used \in Nat /\ counter'[<<k, v>>].used \in Nat
      <3>1. InTime(k, v) \subseteq Requests
        BY DEF InTime
      <3> QED BY <1>0, <1>7, <3>1, RequestsAreFinite DEF LimiterTypeOK
    <2>3. CASE InTime(k, v)' = InTime(k, v)
      BY <1>3, <2>1, <2>2, <2>3
    <2>4. CASE /\ k = c /\ v = w /\ WindowOf(now) = w /\ step'[r] = "admitted"
               /\ InTime(k, v)' = InTime(k, v) \cup {r} /\ r \notin InTime(k, v)
      <3>1. Cardinality(InTime(k, v)') = Cardinality(InTime(k, v)) + 1
        BY <2>2, <2>4, OneMore
      <3>2. counter'[<<k, v>>].used = counter[<<k, v>>].used + 1
        BY <1>3, <2>4
      <3>3. Cardinality(InTime(k, v)) <= counter[<<k, v>>].used
        BY <1>4, <2>1, <2>2, <2>4, TimesAreNat
      <3>4. counter'[<<k, v>>].used <= MaxRequests
        BY <1>5, <2>4
      <3> QED BY <1>4, <2>2, <3>1, <3>2, <3>3, <3>4
    <2> QED BY <1>12, <2>3, <2>4
  <1>14. RefusedForCause'
    <2> SUFFICES ASSUME NEW q \in Requests, step'[q] = "refused"
                 PROVE  /\ (Sent(caller[q], WindowOf(stamp[q])) > MaxRequests)'
                        /\ (WindowOf(stamp[q] + RetryAfter(stamp[q])) = WindowOf(stamp[q]) + 1)'
                        /\ (RetryAfter(stamp[q]) \in 1..Window)'
      BY DEF RefusedForCause
    <2>1. stamp'[q] = stamp[q] /\ caller'[q] = caller[q] /\ stamp[q] \in Nat
      BY <1>0, TimesAreNat DEF LimiterTypeOK
    <2>2. /\ (WindowOf(stamp[q] + RetryAfter(stamp[q])) = WindowOf(stamp[q]) + 1)'
          /\ (RetryAfter(stamp[q]) \in 1..Window)'
      BY <2>1, Windowing DEF WindowOf, RetryAfter
    <2>3. PICK k, v : k = caller[q] /\ v = WindowOf(stamp[q])
      OBVIOUS
    <2>4. Sent(caller[q], WindowOf(stamp[q]))' = Sent(k, v)'
      BY <2>1, <2>3 DEF WindowOf
    <2>5. Sent(k, v)' > MaxRequests
      <3>1. CASE q = r
        <4>1. k = c /\ v = w
          BY <1>1, <2>3, <3>1
        <4>2. counter'[<<c, w>>].used <= Sent(c, w)'
          BY <1>2, <1>11 DEF UsedWasSent
        <4>3. counter'[<<c, w>>].used > MaxRequests /\ Sent(c, w)' \in Nat
          BY <1>5, <1>9, <3>1
        <4> QED BY <1>4, <4>1, <4>2, <4>3
      <3>2. CASE q # r
        <4>1. Sent(k, v) > MaxRequests
          BY <1>0, <1>6, <2>3, <3>2 DEF RefusedForCause
        <4>2. Sent(k, v) <= Sent(k, v)' /\ Sent(k, v)' \in Nat /\ Sent(k, v) \in Nat
          BY <1>0, <1>9, SetsAreRequests
        <4> QED BY <1>4, <4>1, <4>2
      <3> QED BY <3>1, <3>2
    <2> QED BY <2>2, <2>4, <2>5
  <1> QED BY <1>7, <1>8, <1>11, <1>13, <1>14 DEF LimiterIInv

LEMMA LimiterStarts == LimiterInit => LimiterIInv
  <1> SUFFICES ASSUME LimiterInit PROVE LimiterIInv
    OBVIOUS
  <1>0. MaxTime \in Nat /\ MaxRequests \in Nat
    BY LimiterAssumption
  <1>1. LimiterTypeOK
    BY <1>0 DEF LimiterInit, LimiterTypeOK, Times, Steps, NoCount
  <1>2. StampsPassed /\ KeysOutlive /\ RefusedForCause
    BY DEF LimiterInit, StampsPassed, KeysOutlive, RefusedForCause, NoCount
  <1>3. ASSUME NEW c \in Callers, NEW w \in Windows
        PROVE  /\ Cardinality(InTime(c, w)) = 0 /\ counter[<<c, w>>].used = 0
               /\ Sent(c, w) \in Nat
    <2>1. InTime(c, w) = {}
      BY DEF InTime, LimiterInit
    <2>2. counter[<<c, w>>].used = 0
      BY DEF LimiterInit, NoCount
    <2> QED BY <1>1, <2>1, <2>2, FS_EmptySet, SetsAreRequests
  <1>4. Counted
    BY <1>3 DEF Counted
  <1>5. WindowLimit
    <2> SUFFICES ASSUME NEW c \in Callers, NEW w \in Windows
                 PROVE  Cardinality(InTime(c, w)) <= MaxRequests
      BY DEF WindowLimit
    <2>1. Cardinality(InTime(c, w)) = 0
      BY <1>3
    <2> QED BY <1>0, <2>1
  <1>6. UsedWasSent
    <2> SUFFICES ASSUME NEW c \in Callers, NEW w \in Windows
                 PROVE  counter[<<c, w>>].used <= Sent(c, w)
      BY DEF UsedWasSent
    <2>1. counter[<<c, w>>].used = 0 /\ Sent(c, w) \in Nat
      BY <1>3
    <2> QED BY <2>1
  <1> QED BY <1>1, <1>2, <1>4, <1>5, <1>6 DEF LimiterIInv

-----------------------------------------------------------------------------
(* The form.                                                               *)

LEMMA LimitKeeps ==
    ASSUME LimiterIInv, Trail, NEW r \in Requests, Limit(r)
    PROVE  LimiterIInv'
  <1>1. CASE \E c \in Callers : Stamp(r, c)
    <2>1. PICK c \in Callers : Stamp(r, c)
      BY <1>1
    <2>2. \A s \in resent : s[1] # r
      <3>1. ASSUME NEW n \in 1..MaxResends PROVE <<r, n>> \notin resent
        BY <2>1 DEF Trail, Stamp, Limit
      <3>2. ASSUME NEW s \in resent PROVE s[2] \in 1..MaxResends /\ s = <<s[1], s[2]>>
        BY DEF LimiterIInv, LimiterTypeOK, Sendings
      <3> QED BY <3>1, <3>2
    <2> QED BY <2>1, <2>2, StampKeeps
  <1>2. CASE Count(r)
    BY <1>2, CountKeeps
  <1>3. CASE CountAgain(r)
    BY <1>3, CountAgainKeeps
  <1>4. CASE CountUnheard(r)
    BY <1>4, CountUnheardKeeps
  <1>5. CASE Unreached(r)
    BY <1>5, UnreachedKeeps
  <1> QED BY <1>1, <1>2, <1>3, <1>4, <1>5 DEF Limit

LEMMA IdleLimiterKeeps ==
    ASSUME LimiterIInv, UNCHANGED limiterVars
    PROVE  LimiterIInv'
  BY DEF limiterVars, LimiterIInv, LimiterTypeOK, StampsPassed, KeysOutlive, Counted, WindowLimit,
         UsedWasSent, RefusedForCause, InTime, Through, Again, Sent, WindowOf, RetryAfter

\* What the limiter does to a request, as the form sees it.
LEMMA LimitMoves ==
    ASSUME LimiterTypeOK, NEW r \in Requests, Limit(r)
    PROVE  /\ at[r] = "limit" /\ UNCHANGED contactVars
           /\ resent' \subseteq resent \cup ({r} \X (1..MaxResends))
           /\ step'[r] # "idle" /\ \A q \in Requests : q # r => step'[q] = step[q]
  <1>1. CASE CountAgain(r)
    <2>1. PICK n \in 1..MaxResends : resent' = resent \cup {<<r, n>>}
      BY <1>1 DEF CountAgain
    <2>2. /\ at[r] = "limit" /\ UNCHANGED contactVars
          /\ step[r] = "stamped" /\ step' = step
      BY <1>1 DEF Limit, CountAgain
    <2> QED BY <2>1, <2>2
  <1>2. CASE ~CountAgain(r)
    BY <1>2 DEF Limit, Stamp, Count, CountUnheard, Unreached, LimiterTypeOK, Verdict
  <1> QED BY <1>1, <1>2

(***************************************************************************)
(* The inductive invariant.                                                *)
(***************************************************************************)
LEMMA ContactStarts == ContactInit => ContactIInv
  <1> SUFFICES ASSUME ContactInit PROVE ContactIInv
    OBVIOUS
  <1>1. LimiterIInv /\ LimiterTypeOK
    BY LimiterStarts DEF ContactInit, LimiterIInv
  <1>2. ContactTypeOK
    BY <1>1, SenderAssumption DEF ContactInit, ContactTypeOK, Places
  <1>3. Trail
    BY DEF ContactInit, LimiterInit, Trail
  <1>4. StorageIsTruth
    BY DEF ContactInit, StorageIsTruth, RecordIsTrue, SentIsStored
  <1> QED BY <1>1, <1>2, <1>3, <1>4 DEF ContactIInv

LEMMA ContactKeeps == ContactIInv /\ [ContactNext]_formVars => ContactIInv'
  <1> SUFFICES ASSUME ContactIInv, [ContactNext]_formVars PROVE ContactIInv'
    OBVIOUS
  <1>0. /\ ContactTypeOK /\ LimiterIInv /\ Trail /\ StorageIsTruth
        /\ SenderOf \in [Requests -> Senders] /\ LimiterTypeOK
    BY SenderAssumption DEF ContactIInv, ContactTypeOK
  <1> USE DEF Places
  <1>1. CASE UNCHANGED formVars
    <2>1. LimiterIInv' /\ LimiterTypeOK'
      BY <1>0, <1>1, IdleLimiterKeeps DEF formVars, LimiterIInv
    <2>2. ContactTypeOK' /\ Trail' /\ StorageIsTruth'
      BY <1>0, <1>1, <2>1 DEF formVars, limiterVars, contactVars, ContactTypeOK, Trail,
         StorageIsTruth, RecordIsTrue, SentIsStored
    <2> QED BY <2>1, <2>2 DEF ContactIInv
  <1>2. CASE Pass
    <2>1. LimiterIInv' /\ LimiterTypeOK'
      BY <1>0, <1>2, TickKeeps DEF Pass, LimiterIInv
    <2>2. ContactTypeOK' /\ Trail' /\ StorageIsTruth'
      BY <1>0, <1>2, <2>1 DEF Pass, Tick, contactVars, ContactTypeOK, Trail, StorageIsTruth,
         RecordIsTrue, SentIsStored
    <2> QED BY <2>1, <2>2 DEF ContactIInv
  <1>3. ASSUME NEW r \in Requests, Limit(r) PROVE ContactIInv'
    <2>1. LimiterIInv' /\ LimiterTypeOK'
      BY <1>0, <1>3, LimitKeeps DEF LimiterIInv
    <2>2. /\ at[r] = "limit" /\ UNCHANGED contactVars /\ resent' \subseteq resent \cup ({r} \X (1..MaxResends))
          /\ step'[r] # "idle" /\ \A q \in Requests : q # r => step'[q] = step[q]
      BY <1>0, <1>3, LimitMoves
    <2>3. ContactTypeOK' /\ StorageIsTruth'
      BY <1>0, <2>1, <2>2 DEF contactVars, ContactTypeOK, StorageIsTruth, RecordIsTrue, SentIsStored
    <2>4. Trail'
      BY <1>0, <2>2 DEF contactVars, Trail
    <2> QED BY <2>1, <2>3, <2>4 DEF ContactIInv
  <1>4. ASSUME NEW r \in Requests, HandlerDies(r) PROVE ContactIInv'
    <2>1. LimiterIInv' /\ LimiterTypeOK'
      BY <1>0, <1>4, DeathKeeps DEF HandlerDies, LimiterIInv
    <2>2. ContactTypeOK' /\ StorageIsTruth'
      BY <1>0, <1>4, <2>1 DEF HandlerDies, settings, pages, records, ContactTypeOK, StorageIsTruth,
         RecordIsTrue, SentIsStored
    <2>3. Trail'
      BY <1>0, <1>4 DEF HandlerDies, settings, pages, records, Trail, ContactTypeOK, LimiterTypeOK
    <2> QED BY <2>1, <2>2, <2>3 DEF ContactIInv
  <1>5. ASSUME NEW r \in Requests,
               \/ Send(r) \/ Hear(r) \/ HearNothing(r) \/ TurnAway(r) \/ Trap(r) \/ Store(r)
               \/ StoreFails(r) \/ Post(r) \/ PostFails(r) \/ Mark(r) \/ MarkFails(r)
        PROVE  ContactIInv'
    <2>0. UNCHANGED limiterVars
      BY <1>5 DEF Send, Hear, HearNothing, Show, TurnAway, Trap, Store, StoreFails, Post,
         PostFails, Mark, MarkFails
    <2>1. LimiterIInv' /\ LimiterTypeOK'
      BY <1>0, <2>0, IdleLimiterKeeps DEF LimiterIInv
    <2>2. step' = step /\ resent' = resent
      BY <2>0 DEF limiterVars
    <2>3. CASE Send(r)
      BY <1>0, <2>1, <2>2, <2>3 DEF Send, settings, records, ContactIInv, ContactTypeOK, Trail,
         StorageIsTruth, RecordIsTrue, SentIsStored
    <2>4. CASE Hear(r) \/ HearNothing(r)
      BY <1>0, <2>1, <2>2, <2>4 DEF Hear, HearNothing, Show, settings, records, ContactIInv,
         ContactTypeOK, Trail, StorageIsTruth, RecordIsTrue, SentIsStored
    <2>5. CASE TurnAway(r) \/ Trap(r)
      BY <1>0, <2>1, <2>2, <2>5 DEF TurnAway, Trap, LetThrough, Answer, settings, pages, records,
         ContactIInv, ContactTypeOK, Trail, StorageIsTruth, RecordIsTrue, SentIsStored
    <2>6. CASE Store(r) \/ StoreFails(r)
      BY <1>0, <2>1, <2>2, <2>6 DEF Store, StoreFails, LetThrough, Answer, Goto, settings, pages,
         ContactIInv, ContactTypeOK, Trail, StorageIsTruth, RecordIsTrue, SentIsStored
    <2>7. CASE Post(r) \/ PostFails(r)
      BY <1>0, <2>1, <2>2, <2>7 DEF Post, PostFails, Answer, Goto, settings, pages, ContactIInv,
         ContactTypeOK, Trail, StorageIsTruth, RecordIsTrue, SentIsStored
    <2>8. CASE Mark(r) \/ MarkFails(r)
      BY <1>0, <2>1, <2>2, <2>8 DEF Mark, MarkFails, Answer, settings, pages, ContactIInv,
         ContactTypeOK, Trail, StorageIsTruth, RecordIsTrue, SentIsStored
    <2> QED BY <1>5, <2>3, <2>4, <2>5, <2>6, <2>7, <2>8
  <1> QED BY <1>1, <1>2, <1>3, <1>4, <1>5 DEF ContactNext

\* The inductive invariant holds of every behaviour of the form and its limiter.
THEOREM ContactInvariance == ContactSpec => []ContactIInv
  BY ContactStarts, ContactKeeps, PTL DEF ContactSpec

\* The variables have their types.
THEOREM ContactTypeCorrect == ContactSpec => []ContactTypeOK
  <1>1. ContactIInv => ContactTypeOK
    BY DEF ContactIInv
  <1> QED BY <1>1, ContactInvariance, PTL

\* However many requests race, whenever Redis answers, and whatever it forgets at the end
\* of a lifetime, a window lets in no more than the limit (rate_limit.py:53-56, 94-123).
THEOREM WindowIsBounded == ContactSpec => []WindowLimit
  <1>1. ContactIInv => WindowLimit
    BY DEF ContactIInv, LimiterIInv
  <1> QED BY <1>1, ContactInvariance, PTL

\* Nobody is refused for what others did, and the wait a refused caller is told leads
\* into a new window (rate_limit.py:53-60, 114-123).
THEOREM RefusalsHaveCause == ContactSpec => []RefusedForCause
  <1>1. ContactIInv => RefusedForCause
    BY DEF ContactIInv, LimiterIInv
  <1> QED BY <1>1, ContactInvariance, PTL

\* What the visitor reads, the mailbox holds and the row says follow from a stored
\* message (contact_forward.py:3-8, contact.py:72-85).
THEOREM StorageHolds == ContactSpec => []StorageIsTruth
  <1>1. ContactIInv => StorageIsTruth
    BY DEF ContactIInv
  <1> QED BY <1>1, ContactInvariance, PTL

-----------------------------------------------------------------------------
(* The demo. *)

\* Setting one row's status keeps the table and its other rows (ReviewRows has
\* the UPDATE ... WHERE id = ... of review_service.py).
LEMMA SetStatusKeeps ==
    ASSUME rows \in Seq(Row), NEW i \in DOMAIN rows, NEW status,
           [rows[i] EXCEPT !.status = status] \in Row
    PROVE  LET after == SetStatus(rows, i, status) IN
           /\ after \in Seq(Row) /\ Len(after) = Len(rows)
           /\ \A k \in DOMAIN rows :
                 after[k] = IF k = i THEN [rows[k] EXCEPT !.status = status] ELSE rows[k]
  <1> DEFINE row == [rows[i] EXCEPT !.status = status]
             after == [rows EXCEPT ![i] = row]
  <1>1. SetStatus(rows, i, status) = after
    BY DEF SetStatus
  <1>2. after \in Seq(Row) /\ Len(after) = Len(rows)
    <2> HIDE DEF row
    <2>1. row \in Row BY DEF row
    <2> QED BY <2>1
  <1>3. \A k \in DOMAIN rows : after[k] = IF k = i THEN row ELSE rows[k]
    OBVIOUS
  <1> QED BY <1>1, <1>2, <1>3

\* A worker's step keeps every row but the one it works on, whose created_at
\* stays and which is neither deleted nor made live if it was not.
LEMMA WorkKeeps ==
    ASSUME IInv, NEW i \in DOMAIN rows, Work(i)
    PROVE  /\ rows' \in Seq(Row) /\ Len(rows') = Len(rows)
           /\ \A k \in DOMAIN rows :
                 \/ rows'[k] = rows[k]
                 \/ /\ rows[k].status \in ActiveStatuses
                    /\ rows'[k].status \in RowStatuses \ {"deleted"}
                    /\ rows'[k].at = rows[k].at
  <1>1. rows[i].status \in ActiveStatuses /\ rows[i] \in Row /\ rows \in Seq(Row)
    BY DEF Work, IInv, TypeOK
  <1>2. PICK to \in WorkerMove[rows[i].status] : rows' = SetStatus(rows, i, to)
    BY DEF Work
  <1>3. to \in RowStatuses \ {"deleted"}
    BY <1>1, <1>2 DEF WorkerMove, ActiveStatuses, RowStatuses, TerminalStatuses
  <1>4. [rows[i] EXCEPT !.status = to] \in Row
    BY <1>1, <1>3 DEF Row
  <1>5. /\ rows' \in Seq(Row) /\ Len(rows') = Len(rows)
        /\ \A k \in DOMAIN rows :
              rows'[k] = IF k = i THEN [rows[k] EXCEPT !.status = to] ELSE rows[k]
    BY <1>1, <1>2, <1>4, SetStatusKeeps
  <1> QED BY <1>1, <1>3, <1>5 DEF Row

\* What an insert leaves: a queued row appended over rows that kept their place,
\* their created_at and whether they are deleted, none of them live.
Inserted(v) ==
    /\ rows' \in Seq(Row) /\ Len(rows') = Len(rows) + 1
    /\ rows'[Len(rows) + 1].status = "queued"
    /\ \A k \in DOMAIN rows :
          /\ rows'[k].status \notin LiveStatuses
          /\ rows'[k].at = rows[k].at
          /\ rows'[k].status = "deleted" <=> rows[k].status = "deleted"
    /\ \/ rows'[Len(rows) + 1].at = began[v] /\ starts' = starts
       \/ rows'[Len(rows) + 1].at = starts + 1 /\ starts' = starts + 1
    /\ pc[v] = "write" /\ doomed' = doomed /\ began' = [began EXCEPT ![v] = 0]
    /\ pc' = [pc EXCEPT ![v] = "select"]
    /\ old' = [old EXCEPT ![v] = Len(rows) + 1]
    /\ saw' = [saw EXCEPT ![v] = "none"]

\* A write is refused by the index and changes nothing, or inserts.
LEMMA WriteKeeps ==
    ASSUME IInv, NEW v \in Visitors, Write(v)
    PROVE  \/ Forget(v) /\ UNCHANGED <<rows, starts>>
           \/ Inserted(v)
  <1> DEFINE freed == IF old[v] = 0 THEN rows ELSE AfterSupersede(rows, old[v], saw[v])
             moment == IF Lost(v) THEN starts + 1 ELSE began[v]
             fresh == [status |-> "queued", at |-> moment]
  <1>1. rows \in Seq(Row) /\ old[v] \in 0..Len(rows) /\ starts \in Nat /\ began[v] \in Nat
    BY DEF IInv, TypeOK
  <1>2. freed \in Seq(Row) /\ Len(freed) = Len(rows)
        /\ \A k \in DOMAIN rows :
              \/ freed[k] = rows[k]
              \/ /\ rows[k].status = "completed"
                 /\ freed[k] = [rows[k] EXCEPT !.status = "superseded"]
    <2>1. CASE old[v] = 0
      BY <1>1, <2>1
    <2>2. CASE old[v] # 0
      <3>1. old[v] \in DOMAIN rows BY <1>1, <2>2
      <3>2. rows[old[v]] \in Row BY <1>1, <3>1
      <3>3. [rows[old[v]] EXCEPT !.status = "superseded"] \in Row
        BY <3>2 DEF Row, RowStatuses, TerminalStatuses
      <3>4. CASE Supersedes(rows, old[v], saw[v])
        <4>1. freed = SetStatus(rows, old[v], "superseded")
          BY <2>2, <3>4 DEF AfterSupersede
        <4>2. rows[old[v]].status = "completed"
          BY <3>4 DEF Supersedes
        <4> QED BY <1>1, <3>1, <3>3, <4>1, <4>2, SetStatusKeeps
      <3>5. CASE ~Supersedes(rows, old[v], saw[v])
        BY <1>1, <2>2, <3>5 DEF AfterSupersede
      <3> QED BY <3>4, <3>5
    <2> QED BY <2>1, <2>2
  <1>3. moment \in Nat BY <1>1
  <1>4. fresh \in Row BY <1>3 DEF Row, RowStatuses, ActiveStatuses
  <1>0. CASE LiveRows(freed) # {}
    BY <1>0 DEF Write
  <1> SUFFICES ASSUME LiveRows(freed) = {} PROVE Inserted(v)
    BY <1>0
  <1>5. /\ rows' = Append(freed, fresh)
        /\ starts' = (IF Lost(v) THEN moment ELSE starts)
        /\ pc' = [pc EXCEPT ![v] = "select"]
        /\ began' = [began EXCEPT ![v] = 0]
        /\ old' = [old EXCEPT ![v] = Len(rows) + 1]
        /\ saw' = [saw EXCEPT ![v] = "none"]
        /\ doomed' = doomed
    BY DEF Write
  <1>6. \A k \in DOMAIN rows : rows[k] \in Row BY <1>1
  <1>7. \A k \in DOMAIN rows :
           /\ freed[k].status \notin LiveStatuses
           /\ freed[k].at = rows[k].at
           /\ freed[k].status = "deleted" <=> rows[k].status = "deleted"
    <2> SUFFICES ASSUME NEW k \in DOMAIN rows
                 PROVE  /\ freed[k].status \notin LiveStatuses
                        /\ freed[k].at = rows[k].at
                        /\ freed[k].status = "deleted" <=> rows[k].status = "deleted"
      OBVIOUS
    <2>0. LiveRows(freed) = {} OBVIOUS
    <2> HIDE DEF freed
    <2>1. k \in DOMAIN freed BY <1>1, <1>2
    <2>2. freed[k].status \notin LiveStatuses BY <2>0, <2>1 DEF LiveRows
    <2>3. CASE freed[k] = rows[k] BY <2>2, <2>3
    <2>4. CASE /\ rows[k].status = "completed"
               /\ freed[k] = [rows[k] EXCEPT !.status = "superseded"]
      BY <1>6, <2>2, <2>4 DEF Row
    <2> QED BY <1>2, <2>3, <2>4
  <1>8. /\ rows' \in Seq(Row) /\ Len(rows') = Len(rows) + 1
        /\ rows'[Len(rows) + 1] = fresh
        /\ \A k \in DOMAIN rows : rows'[k] = freed[k]
    <2> HIDE DEF freed, fresh
    <2> QED BY <1>1, <1>2, <1>4, <1>5
  <1>9. \/ fresh.at = began[v] /\ starts' = starts
        \/ fresh.at = starts + 1 /\ starts' = starts + 1
    BY <1>5
  <1>10. pc[v] = "write" BY DEF Write
  <1> QED BY <1>5, <1>7, <1>8, <1>9, <1>10 DEF Inserted

\* A prune selects only finished reviews, each with a newer one that is kept.
LEMMA PastKeepIsOld ==
    ASSUME NEW i \in PastKeep
    PROVE  /\ i \in Finished
           /\ \E k \in Finished : rows[k].at > rows[i].at
  <1>1. i \in Finished /\ Newer(i, Finished) >= Keep
    BY DEF PastKeep
  <1>2. Keep >= 1 /\ Keep \in Nat
    BY KeepAssumption
  <1>3. {k \in Finished : rows[k].at > rows[i].at} # {}
    BY <1>1, <1>2, FS_EmptySet DEF Newer
  <1> QED BY <1>1, <1>3

LEMMA RowsAreFinite ==
    ASSUME TypeOK, NEW S, S \subseteq DOMAIN rows
    PROVE  IsFiniteSet(S) /\ Cardinality(S) \in Nat
  <1>1. DOMAIN rows = 1..Len(rows) /\ Len(rows) \in Nat
    BY DEF TypeOK
  <1>2. IsFiniteSet(1..Len(rows))
    BY <1>1, FS_Interval
  <1> QED BY <1>1, <1>2, FS_Subset, FS_CardinalityType

LEMMA SmallerIsFewer ==
    ASSUME TypeOK, NEW S, S \subseteq DOMAIN rows, NEW T, T \subseteq S
    PROVE  Cardinality(T) \in Nat /\ Cardinality(S) \in Nat /\ Cardinality(T) <= Cardinality(S)
  BY RowsAreFinite, FS_Subset, FS_CardinalityType

\* Of two finished reviews the later one has fewer newer ones, for it is itself newer
\* than the earlier one.
LEMMA LaterHasFewer ==
    ASSUME TypeOK, NEW i \in Finished, NEW k \in Finished, rows[i].at < rows[k].at
    PROVE  Newer(k, Finished) < Newer(i, Finished)
  <1> DEFINE Over(j) == {l \in Finished : rows[l].at > rows[j].at}
  <1>1. Finished \subseteq DOMAIN rows /\ \A l \in Finished : rows[l].at \in Nat
    <2>1. \A l \in DOMAIN rows : rows[l] \in Row BY DEF TypeOK
    <2> QED BY <2>1 DEF Finished, Kept, Row
  <1>2. k \notin Over(k) /\ Over(k) \cup {k} \subseteq Over(i)
    BY <1>1
  <1>3. IsFiniteSet(Over(k)) /\ Cardinality(Over(k)) \in Nat
    BY <1>1, RowsAreFinite
  <1>4. Cardinality(Over(k) \cup {k}) = Cardinality(Over(k)) + 1
    BY <1>2, <1>3, FS_AddElement
  <1>5. Cardinality(Over(k) \cup {k}) <= Cardinality(Over(i)) /\ Cardinality(Over(i)) \in Nat
    BY <1>1, <1>2, SmallerIsFewer
  <1> QED BY <1>3, <1>4, <1>5 DEF Newer

\* A prune selects all but the newest Keep: each of the others has less than Keep
\* newer ones, and no two of them equally many.
LEMMA PruneLeavesKeep ==
    ASSUME TypeOK, StartsDiffer
    PROVE  Cardinality(Finished \ PastKeep) <= Keep
  <1> DEFINE left == Finished \ PastKeep
             newer == [i \in left |-> Newer(i, Finished)]
  <1>1. Finished \subseteq DOMAIN rows /\ \A l \in Finished : l \in Kept /\ rows[l].at \in Nat
    <2>1. \A l \in DOMAIN rows : rows[l] \in Row BY DEF TypeOK
    <2> QED BY <2>1 DEF Finished, Kept, Row
  <1>2. Keep \in Nat /\ Keep >= 1
    BY KeepAssumption
  <1>3. newer \in [left -> 0..(Keep - 1)]
    <2> SUFFICES ASSUME NEW i \in left PROVE Newer(i, Finished) \in 0..(Keep - 1)
      OBVIOUS
    <2>1. Newer(i, Finished) \in Nat
      BY <1>1, RowsAreFinite DEF Newer
    <2>2. ~(Newer(i, Finished) >= Keep)
      BY DEF PastKeep
    <2> QED BY <1>2, <2>1, <2>2
  <1>4. IsFiniteSet(0..(Keep - 1)) /\ Cardinality(0..(Keep - 1)) = Keep
    BY <1>2, FS_Interval
  <1>5. IsFiniteSet(left) /\ Cardinality(left) \in Nat
    BY <1>1, RowsAreFinite
  <1> SUFFICES ASSUME Cardinality(0..(Keep - 1)) < Cardinality(left) PROVE FALSE
    BY <1>2, <1>4, <1>5
  <1>6. PICK i, k \in left : i # k /\ newer[i] = newer[k]
    <2> HIDE DEF left, newer
    <2> QED BY <1>3, <1>4, <1>5, FS_PigeonHole
  <1>7. i \in Finished /\ k \in Finished /\ Newer(i, Finished) = Newer(k, Finished)
    BY <1>6
  <1>8. rows[i].at # rows[k].at
    BY <1>1, <1>6, <1>7 DEF StartsDiffer
  <1>9. Newer(i, Finished) \in Nat /\ Newer(k, Finished) \in Nat
    BY <1>1, RowsAreFinite DEF Newer
  <1>10. rows[i].at < rows[k].at \/ rows[k].at < rows[i].at
    BY <1>1, <1>7, <1>8
  <1> QED BY <1>7, <1>9, <1>10, LaterHasFewer

\* With the one that may be live, a prune leaves Keep + 1.
LEMMA SelectIsEnough ==
    ASSUME IInv
    PROVE  Cardinality(Kept \ PastKeep) <= Keep + 1
  <1> DEFINE live == {i \in Kept : rows[i].status \in ActiveStatuses}
             left == Finished \ PastKeep
  <1>1. Kept \ PastKeep = left \cup live /\ Kept \subseteq DOMAIN rows
    BY DEF Finished, Kept, PastKeep
  <1>2. Cardinality(left) <= Keep /\ Cardinality(left) \in Nat /\ IsFiniteSet(left)
    BY <1>1, PruneLeavesKeep, RowsAreFinite DEF IInv, Finished
  <1>3. \A i, k \in live : i = k
    BY <1>1 DEF IInv, OneLiveDemo, LiveRows, LiveStatuses, ActiveStatuses
  <1>4. Keep \in Nat
    BY KeepAssumption
  <1>5. CASE live = {}
    <2>1. Kept \ PastKeep = left BY <1>1, <1>5
    <2> HIDE DEF left, live
    <2>2. Cardinality(Kept \ PastKeep) = Cardinality(left) BY <2>1
    <2> QED BY <1>2, <1>4, <2>2
  <1>6. CASE live # {}
    <2>1. PICK i \in live : TRUE
      BY <1>6
    <2>2. left \cup live = left \cup {i}
      BY <1>3, <2>1
    <2>3. Cardinality(left \cup {i}) <= Cardinality(left) + 1
      BY <1>2, FS_AddElement
    <2> QED
      <3> HIDE DEF left, live
      <3>1. Cardinality(Kept \ PastKeep) <= Cardinality(left) + 1
        BY <1>1, <2>2, <2>3
      <3>2. Cardinality(Kept \ PastKeep) \in Nat
        BY <1>1, RowsAreFinite DEF IInv
      <3> QED BY <1>2, <1>4, <3>1, <3>2
  <1> QED BY <1>5, <1>6

-----------------------------------------------------------------------------
(* The steps keep the inductive invariant.                                 *)

\* Steps after which no transaction has begun and no review has been added.
LEMMA ClockKeeps ==
    ASSUME IInv, starts' \in Nat, starts <= starts',
           \A v \in Visitors :
              /\ began'[v] \in {0, began[v]}
              /\ Writing(v)' => Writing(v) /\ began'[v] = began[v],
           Kept' \subseteq Kept, \A i \in Kept' : rows'[i].at = rows[i].at
    PROVE  StartsDiffer'
  <1>1. starts \in Nat /\ (\A v \in Visitors : began[v] \in Nat) /\ \A i \in Kept : rows[i].at \in Nat
    <2>1. \A l \in DOMAIN rows : rows[l] \in Row BY DEF IInv, TypeOK
    <2> QED BY <2>1 DEF IInv, TypeOK, Kept, Row
  <1>2. StartsDiffer
    BY DEF IInv
  <1>3. \A i \in Kept' : rows'[i].at <= starts'
    BY <1>1, <1>2 DEF StartsDiffer
  <1>4. \A i, k \in Kept' : rows'[i].at = rows'[k].at => i = k
    BY <1>2 DEF StartsDiffer
  <1>5. \A v \in Visitors : began'[v] <= starts'
    BY <1>1, <1>2 DEF StartsDiffer
  <1>6. \A v \in Visitors : Writing(v)' => \A i \in Kept' : rows'[i].at # began'[v]
    BY <1>2 DEF StartsDiffer
  <1>7. \A u, v \in Visitors : Writing(u)' /\ Writing(v)' /\ began'[u] = began'[v] => u = v
    BY <1>2 DEF StartsDiffer
  <1> QED BY <1>3, <1>4, <1>5, <1>6, <1>7 DEF StartsDiffer

\* Steps that leave the rows alone and select either nothing or what a prune does.
LEMMA HistoryKeeps ==
    ASSUME IInv, rows' = rows, pruned' = pruned,
           \A v \in Visitors : pc'[v] = "delete" =>
              \/ pc[v] = "delete" /\ old'[v] = old[v] /\ doomed'[v] = doomed[v]
              \/ doomed'[v] = PastKeep
    PROVE  LastPruneIsEnough' /\ HistoryBounded'
  <1>1. Kept' = Kept
    BY DEF Kept
  <1>2. HistoryBounded'
    BY <1>1 DEF IInv, HistoryBounded
  <1>3. LastPruneIsEnough'
    BY <1>1, SelectIsEnough DEF IInv, LastPruneIsEnough
  <1> QED BY <1>2, <1>3

\* Steps that leave the rows alone and select either nothing or what a prune does.
LEMMA QuietKeeps ==
    ASSUME IInv, TypeOK', rows' = rows, pruned' = pruned,
           \A v \in Visitors :
              /\ doomed'[v] = doomed[v] \/ doomed'[v] = {} \/ doomed'[v] = PastKeep
              /\ pc'[v] = "delete" =>
                    \/ pc[v] = "delete" /\ old'[v] = old[v] /\ doomed'[v] = doomed[v]
                    \/ doomed'[v] = PastKeep,
           StartsDiffer'
    PROVE  IInv'
  <1>1. OneLiveDemo' /\ NewestIsKept'
    BY DEF IInv, OneLiveDemo, LiveRows, NewestIsKept, Kept
  <1>2. DoomedAreOld'
    <2> SUFFICES ASSUME NEW v \in Visitors, NEW i \in doomed'[v]
                 PROVE  /\ rows[i].status \notin ActiveStatuses
                        /\ i \in Kept => \E k \in Kept : rows[k].at > rows[i].at
      BY DEF DoomedAreOld, Kept
    <2>1. CASE doomed'[v] = doomed[v]
      BY <2>1 DEF IInv, DoomedAreOld
    <2>2. CASE doomed'[v] = PastKeep
      BY <2>2, PastKeepIsOld DEF Finished
    <2> QED BY <2>1, <2>2
  <1> QED BY <1>1, <1>2, HistoryKeeps DEF IInv

LEMMA WorkStep ==
    ASSUME IInv, NEW i \in DOMAIN rows, Work(i)
    PROVE  IInv'
  <1>1. UNCHANGED <<starts, pc, began, old, saw, doomed, pruned>>
        /\ claimed' \in {i, claimed}
    BY DEF Work, request
  <1>2. DOMAIN rows' = DOMAIN rows
    BY WorkKeeps DEF IInv, TypeOK
  <1>3. TypeOK'
    BY <1>1, WorkKeeps DEF IInv, TypeOK
  <1>4. \A k \in DOMAIN rows : /\ rows'[k].at = rows[k].at
                               /\ k \in Kept' <=> k \in Kept
                               /\ k \in LiveRows(rows)' => k \in LiveRows(rows)
                               /\ rows[k].status \notin ActiveStatuses => rows'[k] = rows[k]
    BY <1>2, WorkKeeps DEF Kept, LiveRows, ActiveStatuses, LiveStatuses
  <1>5. Kept' = Kept
    BY <1>2, <1>4 DEF Kept
  <1>6. OneLiveDemo'
    BY <1>2, <1>4 DEF IInv, OneLiveDemo, LiveRows
  <1>7. NewestIsKept'
    BY <1>2, <1>4, <1>5 DEF IInv, NewestIsKept, Kept
  <1>8. DoomedAreOld'
    BY <1>1, <1>4, <1>5 DEF IInv, DoomedAreOld, TypeOK, Kept
  <1>9. StartsDiffer'
    <2>1. \A k \in Kept' : rows'[k].at = rows[k].at
      BY <1>4, <1>5 DEF Kept
    <2> QED BY <1>1, <1>5, <2>1, ClockKeeps DEF IInv, TypeOK, Writing
  <1>10. LastPruneIsEnough' /\ HistoryBounded'
    <2>1. Len(rows') = Len(rows) /\ (rows' # <<>> => rows # <<>>)
      BY WorkKeeps DEF IInv, TypeOK
    <2> QED BY <1>1, <1>5, <2>1 DEF IInv, LastPruneIsEnough, HistoryBounded
  <1> QED BY <1>3, <1>6, <1>7, <1>8, <1>9, <1>10 DEF IInv

LEMMA InsertStep ==
    ASSUME IInv, NEW v \in Visitors, Inserted(v), UNCHANGED <<claimed, pruned>>
    PROVE  IInv'
  <1>1. /\ rows \in Seq(Row) /\ Len(rows) \in Nat /\ DOMAIN rows = 1..Len(rows)
        /\ DOMAIN rows' = 1..(Len(rows) + 1)
        /\ \A k \in DOMAIN rows : rows[k] \in Row
        /\ \A k \in DOMAIN rows' : rows'[k] \in Row
    BY DEF Inserted, IInv, TypeOK
  <1>2. TypeOK'
    BY <1>1 DEF Inserted, IInv, TypeOK
  <1>3. LiveRows(rows)' \subseteq {Len(rows) + 1}
    BY <1>1 DEF Inserted, LiveRows
  <1>4. OneLiveDemo'
    BY <1>3 DEF OneLiveDemo
  <1>5. Kept' = Kept \cup {Len(rows) + 1}
    BY <1>1 DEF Inserted, Kept
  <1>6. NewestIsKept'
    <2>1. CASE Kept = {}
      BY <1>1, <1>5, <2>1 DEF NewestIsKept, Row
    <2>2. CASE Kept # {}
      <3>1. PICK m \in Kept : \A k \in Kept : rows[k].at <= rows[m].at
        BY <2>2 DEF IInv, NewestIsKept, Kept
      <3>2. \A k \in Kept : rows'[k].at = rows[k].at /\ rows'[k].at \in Nat
        BY <1>1 DEF Inserted, Kept, Row
      <3>3. CASE rows'[Len(rows) + 1].at <= rows[m].at
        BY <1>5, <3>1, <3>2, <3>3 DEF NewestIsKept
      <3>4. CASE rows'[Len(rows) + 1].at > rows[m].at
        <4>1. \A k \in Kept' : rows'[k].at <= rows'[Len(rows) + 1].at
          BY <1>1, <1>5, <3>1, <3>2, <3>4 DEF Row
        <4> QED BY <1>5, <4>1 DEF NewestIsKept
      <3>5. rows'[Len(rows) + 1] \in Row BY <1>1
      <3>6. rows'[Len(rows) + 1].at \in Nat BY <3>5 DEF Row
      <3>7. rows[m].at \in Nat BY <3>2
      <3> QED BY <3>3, <3>4, <3>6, <3>7
    <2> QED BY <2>1, <2>2
  <1>7. DoomedAreOld'
    BY <1>1, <1>5 DEF Inserted, IInv, DoomedAreOld, TypeOK, Kept, LiveStatuses, ActiveStatuses
  <1>8. StartsDiffer'
    <2> DEFINE new == Len(rows) + 1
    <2>1. /\ StartsDiffer /\ starts \in Nat /\ began \in [Visitors -> Nat]
          /\ pc \in [Visitors -> {"idle", "load", "write", "select", "delete"}]
          /\ \A k \in Kept : rows[k].at \in Nat /\ k # new
      BY <1>1 DEF IInv, TypeOK, Kept, Row
    <2>2. \/ rows'[new].at = began[v] /\ starts' = starts
          \/ rows'[new].at = starts + 1 /\ starts' = starts + 1
      BY DEF Inserted
    <2>3. \A k \in Kept : rows'[k].at = rows[k].at
      BY DEF Inserted, Kept
    <2>4. Writing(v) /\ ~Writing(v)' /\ began'[v] = 0
      BY <2>1 DEF Inserted, Writing
    <2>5. \A u \in Visitors \ {v} : began'[u] = began[u] /\ (Writing(u)' => Writing(u))
      BY <2>1 DEF Inserted, Writing
    <2>6. \A k \in Kept : rows'[k].at # rows'[new].at
      BY <2>1, <2>2, <2>3, <2>4 DEF StartsDiffer
    <2>7. \A u \in Visitors : Writing(u)' => u # v /\ Writing(u) /\ rows'[new].at # began[u]
      BY <2>1, <2>2, <2>4, <2>5 DEF StartsDiffer
    <2> HIDE DEF new
    <2>8. Kept' = Kept \cup {new}
      BY <1>5 DEF new
    <2>9. \A k \in Kept' : rows'[k].at <= starts'
      BY <2>1, <2>2, <2>3, <2>8 DEF StartsDiffer
    <2>10. \A i, k \in Kept' : rows'[i].at = rows'[k].at => i = k
      BY <2>1, <2>3, <2>6, <2>8 DEF StartsDiffer
    <2>11. \A u \in Visitors : began'[u] <= starts'
      BY <2>1, <2>2, <2>4, <2>5 DEF StartsDiffer
    <2>12. \A u \in Visitors : Writing(u)' => \A k \in Kept' : rows'[k].at # began'[u]
      BY <2>1, <2>3, <2>5, <2>7, <2>8 DEF StartsDiffer
    <2>13. \A u, w \in Visitors : Writing(u)' /\ Writing(w)' /\ began'[u] = began'[w] => u = w
      BY <2>1, <2>5, <2>7 DEF StartsDiffer
    <2> QED BY <2>9, <2>10, <2>11, <2>12, <2>13 DEF StartsDiffer
  <1>9. LastPruneIsEnough' /\ HistoryBounded'
    <2>1. \A u \in Visitors : pc'[u] = "delete" => u # v /\ old'[u] \in 0..Len(rows)
      BY <1>1 DEF Inserted, IInv, TypeOK
    <2>2. Len(rows') = Len(rows) + 1 /\ pruned' \in 0..Len(rows)
      BY DEF Inserted, IInv, TypeOK
    <2> QED BY <1>1, <2>1, <2>2 DEF LastPruneIsEnough, HistoryBounded
  <1> QED BY <1>2, <1>4, <1>6, <1>7, <1>8, <1>9 DEF IInv

LEMMA DeleteStep ==
    ASSUME IInv, NEW v \in Visitors, PruneDelete(v)
    PROVE  IInv'
  <1>1. /\ DOMAIN rows' = DOMAIN rows /\ rows \in Seq(Row)
        /\ \A k \in DOMAIN rows :
              rows'[k] = IF k \in doomed[v] THEN [status |-> "deleted", at |-> 0] ELSE rows[k]
    BY DEF PruneDelete, IInv, TypeOK
  <1>2. rows' \in Seq(Row) /\ Len(rows') = Len(rows)
    BY <1>1 DEF PruneDelete, Row, RowStatuses
  <1>3. TypeOK'
    BY <1>1, <1>2 DEF PruneDelete, Forget, IInv, TypeOK
  <1>4. Kept' = Kept \ doomed[v]
    BY <1>1 DEF Kept
  <1>5. OneLiveDemo'
    <2>1. LiveRows(rows)' \subseteq LiveRows(rows)
      BY <1>1 DEF LiveRows, LiveStatuses
    <2> QED BY <2>1 DEF IInv, OneLiveDemo
  <1>6. \A k \in DOMAIN rows : rows[k].at \in Nat
    <2>1. \A k \in DOMAIN rows : rows[k] \in Row BY <1>1
    <2> QED BY <2>1 DEF Row
  <1>7. ASSUME rows # <<>>
        PROVE  \E m \in Kept' : \A k \in Kept : rows[k].at <= rows[m].at
    <2>1. PICK m \in Kept : \A k \in Kept : rows[k].at <= rows[m].at
      BY <1>7 DEF IInv, NewestIsKept
    <2>2. m \notin doomed[v]
      BY <1>6, <2>1 DEF IInv, DoomedAreOld, Kept
    <2> QED BY <1>4, <2>1, <2>2
  <1>8. NewestIsKept'
    <2> SUFFICES ASSUME rows' # <<>>
                 PROVE  \E m \in Kept' : \A k \in Kept' : rows'[k].at <= rows'[m].at
      BY DEF NewestIsKept
    <2>1. rows # <<>> BY <1>1, <1>2
    <2>2. PICK m \in Kept' : \A k \in Kept : rows[k].at <= rows[m].at
      BY <1>7, <2>1
    <2>3. \A k \in Kept' : k \in Kept /\ rows'[k] = rows[k]
      BY <1>1, <1>4 DEF Kept
    <2> QED BY <2>2, <2>3
  <1>9. DoomedAreOld'
    <2> SUFFICES ASSUME NEW u \in Visitors, NEW i \in doomed'[u]
                 PROVE  /\ rows'[i].status \notin ActiveStatuses
                        /\ i \in Kept' => \E k \in Kept' : rows'[k].at > rows'[i].at
      BY DEF DoomedAreOld
    <2>1. i \in doomed[u] /\ i \in DOMAIN rows
      BY DEF PruneDelete, Forget, IInv, TypeOK
    <2>2. rows'[i].status \notin ActiveStatuses
      BY <1>1, <2>1 DEF IInv, DoomedAreOld, ActiveStatuses
    <2>3. ASSUME i \in Kept' PROVE \E k \in Kept' : rows'[k].at > rows'[i].at
      <3>1. PICK k \in Kept : rows[k].at > rows[i].at
        BY <1>4, <2>1, <2>3 DEF IInv, DoomedAreOld
      <3>2. PICK m \in Kept' : \A l \in Kept : rows[l].at <= rows[m].at
        BY <1>7, <2>1
      <3>3. rows[m].at > rows[i].at /\ rows'[m] = rows[m] /\ rows'[i] = rows[i]
        BY <1>1, <1>4, <1>6, <2>1, <2>3, <3>1, <3>2 DEF Kept
      <3> QED BY <3>3
    <2> QED BY <2>2, <2>3
  <1>10. StartsDiffer'
    <2>1. Kept' \subseteq Kept /\ \A k \in Kept' : rows'[k].at = rows[k].at
      BY <1>1, <1>4 DEF Kept
    <2>2. /\ starts' = starts /\ starts \in Nat
          /\ \A u \in Visitors : began'[u] \in {0, began[u]}
          /\ \A u \in Visitors : Writing(u)' => Writing(u) /\ began'[u] = began[u]
      BY DEF PruneDelete, Forget, Writing, IInv, TypeOK
    <2> QED BY <2>1, <2>2, ClockKeeps
  <1>11. LastPruneIsEnough'
    <2> SUFFICES ASSUME NEW u \in Visitors, pc'[u] = "delete", old'[u] = Len(rows)
                 PROVE  Cardinality(Kept' \ doomed'[u]) <= Keep + 1
      BY <1>2 DEF LastPruneIsEnough
    <2>1. pc[u] = "delete" /\ old[u] = Len(rows) /\ doomed'[u] = doomed[u]
      BY DEF PruneDelete, Forget, IInv, TypeOK
    <2>2. Cardinality(Kept \ doomed[u]) <= Keep + 1
      BY <2>1 DEF IInv, LastPruneIsEnough
    <2>3. Kept' \ doomed'[u] \subseteq Kept \ doomed[u] /\ Kept \subseteq DOMAIN rows
      BY <1>4, <2>1 DEF Kept
    <2> QED BY <2>2, <2>3, SmallerIsFewer, KeepAssumption DEF IInv
  <1>12. HistoryBounded'
    <2> SUFFICES ASSUME pruned' = Len(rows), rows # <<>>
                 PROVE  Cardinality(Kept') <= Keep + 1
      BY <1>1, <1>2 DEF HistoryBounded
    <2>1. old[v] = Len(rows) \/ pruned = Len(rows)
      BY DEF PruneDelete, IInv, TypeOK
    <2>2. CASE old[v] = Len(rows)
      BY <1>4, <2>2 DEF PruneDelete, IInv, LastPruneIsEnough
    <2>3. CASE pruned = Len(rows)
      <3>1. Cardinality(Kept) <= Keep + 1
        BY <2>3 DEF IInv, HistoryBounded
      <3>2. Kept' \subseteq Kept /\ Kept \subseteq DOMAIN rows
        BY <1>4 DEF Kept
      <3> QED BY <3>1, <3>2, SmallerIsFewer, KeepAssumption DEF IInv
    <2> QED BY <2>1, <2>2, <2>3
  <1> QED BY <1>3, <1>5, <1>8, <1>9, <1>10, <1>11, <1>12 DEF IInv

\* Steps of a request, or of nobody, that begin no transaction and leave the rows.
LEMMA StillKeeps ==
    ASSUME IInv, TypeOK', UNCHANGED <<rows, starts, pruned>>,
           \A v \in Visitors :
              /\ began'[v] \in {0, began[v]}
              /\ Writing(v)' => Writing(v) /\ began'[v] = began[v]
              /\ doomed'[v] = doomed[v] \/ doomed'[v] = {} \/ doomed'[v] = PastKeep
              /\ pc'[v] = "delete" =>
                    \/ pc[v] = "delete" /\ old'[v] = old[v] /\ doomed'[v] = doomed[v]
                    \/ doomed'[v] = PastKeep
    PROVE  IInv'
  <1>1. Kept' = Kept /\ starts \in Nat
    BY DEF Kept, IInv, TypeOK
  <1>2. StartsDiffer'
    BY <1>1, ClockKeeps
  <1> QED BY <1>2, QuietKeeps

LEMMA ForgetStep ==
    ASSUME IInv, NEW v \in Visitors, Forget(v), UNCHANGED <<rows, starts, claimed, pruned>>
    PROVE  IInv'
  <1>1. TypeOK'
    BY DEF Forget, IInv, TypeOK
  <1> QED BY <1>1, StillKeeps DEF Forget, Writing, IInv, TypeOK

LEMMA StartStep ==
    ASSUME IInv, NEW v \in Visitors, Start(v)
    PROVE  IInv'
  <1>1. TypeOK'
    BY DEF Start, IInv, TypeOK
  <1>2. /\ rows' = rows /\ starts' = starts + 1 /\ starts \in Nat /\ began'[v] = starts + 1
        /\ \A u \in Visitors \ {v} : began'[u] = began[u] /\ (Writing(u)' => Writing(u))
        /\ \A u \in Visitors : began[u] \in Nat
        /\ \A k \in Kept : rows[k].at \in Nat
    <2>1. \A l \in DOMAIN rows : rows[l] \in Row BY DEF IInv, TypeOK
    <2> QED BY <2>1 DEF Start, Writing, IInv, TypeOK, Kept, Row
  <1>3. StartsDiffer /\ Kept' = Kept
    BY <1>2 DEF IInv, Kept
  <1>4. StartsDiffer'
    <2>1. \A k \in Kept' : rows'[k].at <= starts'
      BY <1>2, <1>3 DEF StartsDiffer
    <2>2. \A i, k \in Kept' : rows'[i].at = rows'[k].at => i = k
      BY <1>2, <1>3 DEF StartsDiffer
    <2>3. \A u \in Visitors : began'[u] <= starts'
      BY <1>2, <1>3 DEF StartsDiffer
    <2>4. \A u \in Visitors : Writing(u)' => \A k \in Kept' : rows'[k].at # began'[u]
      BY <1>2, <1>3 DEF StartsDiffer
    <2>5. \A u, w \in Visitors : Writing(u)' /\ Writing(w)' /\ began'[u] = began'[w] => u = w
      BY <1>2, <1>3 DEF StartsDiffer
    <2> QED BY <2>1, <2>2, <2>3, <2>4, <2>5 DEF StartsDiffer
  <1> QED BY <1>1, <1>4, QuietKeeps DEF Start, IInv, TypeOK

LEMMA LoadStep ==
    ASSUME IInv, NEW v \in Visitors, Load(v)
    PROVE  IInv'
  <1>1. rows' = rows /\ UNCHANGED <<starts, claimed, pruned>> /\ pc[v] = "load"
    BY DEF Load
  <1>2. CASE Forget(v)
    BY <1>1, <1>2, ForgetStep
  <1>3. ASSUME NEW id \in 0..Len(rows), NEW status \in TerminalStatuses \cup {"none"},
               Replaces(v, id, status)
        PROVE  IInv'
    <2>1. TypeOK'
      BY <1>1, <1>3 DEF Replaces, IInv, TypeOK
    <2> QED BY <1>1, <1>3, <2>1, StillKeeps DEF Replaces, Writing, IInv, TypeOK
  <1>4. 0 \in 0..Len(rows)
    BY DEF IInv, TypeOK
  <1>5. ASSUME NEW i \in Current, rows[i].status \notin ActiveStatuses
        PROVE  i \in 0..Len(rows) /\ rows[i].status \in TerminalStatuses
    <2>1. i \in DOMAIN rows /\ rows[i] \in Row /\ rows[i].status # "deleted"
      BY DEF Current, Kept, IInv, TypeOK
    <2> QED BY <1>5, <2>1 DEF Row, RowStatuses, IInv, TypeOK
  <1> QED BY <1>2, <1>3, <1>4, <1>5 DEF Load

LEMMA SelectStep ==
    ASSUME IInv, NEW v \in Visitors, PruneSelect(v)
    PROVE  IInv'
  <1>1. PastKeep \subseteq DOMAIN rows
    BY DEF PastKeep, Finished, Kept
  <1>2. TypeOK'
    BY <1>1 DEF PruneSelect, IInv, TypeOK
  <1> QED BY <1>2, StillKeeps DEF PruneSelect, Writing, IInv, TypeOK

LEMMA NextKeeps ==
    ASSUME IInv, [Next]_vars
    PROVE  IInv'
  <1>1. ASSUME NEW i \in DOMAIN rows, Work(i) PROVE IInv'
    BY <1>1, WorkStep
  <1>2. CASE LoadClaimed
    <2>1. TypeOK'
      BY <1>2 DEF LoadClaimed, request, IInv, TypeOK
    <2> QED BY <1>2, <2>1, StillKeeps DEF LoadClaimed, request, Writing
  <1>3. ASSUME NEW v \in Visitors, Start(v) PROVE IInv'
    BY <1>3, StartStep
  <1>4. ASSUME NEW v \in Visitors, Load(v) PROVE IInv'
    BY <1>4, LoadStep
  <1>5. ASSUME NEW v \in Visitors, Write(v) PROVE IInv'
    <2>1. UNCHANGED <<claimed, pruned>> BY <1>5 DEF Write
    <2> QED BY <1>5, <2>1, WriteKeeps, InsertStep, ForgetStep
  <1>6. ASSUME NEW v \in Visitors, PruneSelect(v) PROVE IInv'
    BY <1>6, SelectStep
  <1>7. ASSUME NEW v \in Visitors, PruneDelete(v) PROVE IInv'
    BY <1>7, DeleteStep
  <1>8. ASSUME NEW v \in Visitors, Die(v) PROVE IInv'
    BY <1>8, ForgetStep DEF Die
  <1>9. CASE UNCHANGED vars
    <2>1. TypeOK'
      BY <1>9 DEF vars, request, IInv, TypeOK
    <2> QED BY <1>9, <2>1, StillKeeps DEF vars, request, Writing
  <1> QED BY <1>1, <1>2, <1>3, <1>4, <1>5, <1>6, <1>7, <1>8, <1>9 DEF Next

\* IInv holds in every reachable state.
THEOREM DemoInvariance == Spec => []IInv
  <1>1. Init => IInv
    BY DEF Init, IInv, TypeOK, OneLiveDemo, NewestIsKept, DoomedAreOld, LiveRows,
           StartsDiffer, Writing, Kept, LastPruneIsEnough, HistoryBounded
  <1>2. IInv /\ [Next]_vars => IInv' BY NextKeeps
  <1> QED BY <1>1, <1>2, PTL DEF Spec

\* At most one demo review is live (demo/service.py:26-29).
THEOREM OneLive == Spec => []OneLiveDemo
  <1>1. IInv => OneLiveDemo BY DEF IInv
  <1> QED BY <1>1, DemoInvariance, PTL

\* Overlapping prunes never delete the last review of the page.
THEOREM NeverEmpty == Spec => []PageNeverEmpty
  <1>1. IInv => PageNeverEmpty BY DEF IInv, NewestIsKept, PageNeverEmpty
  <1> QED BY <1>1, DemoInvariance, PTL

\* The history never outgrows Keep and the running review once the last rerun's own
\* prune went through, whatever earlier prunes raced it or died (demo/service.py:26-29).
THEOREM HistoryIsBounded == Spec => []HistoryBounded
  <1>1. IInv => HistoryBounded BY DEF IInv
  <1> QED BY <1>1, DemoInvariance, PTL

\* A prune never deletes a live review (demo/service.py:172-175).
THEOREM LiveIsSpared == Spec => PruneSparesLive
  <1>1. ASSUME IInv, [Next]_vars, NEW i \in DOMAIN rows PROVE Spared(i)
    <2>1. CASE rows' = rows
      BY <2>1 DEF Spared, ActiveStatuses
    <2>2. ASSUME NEW k \in DOMAIN rows, Work(k) PROVE Spared(i)
      BY <1>1, <2>2, WorkKeeps DEF Spared, ActiveStatuses
    <2>3. ASSUME NEW v \in Visitors, Write(v) PROVE Spared(i)
      BY <1>1, <2>1, <2>3, WriteKeeps DEF Inserted, Spared, ActiveStatuses
    <2>4. ASSUME NEW v \in Visitors, PruneDelete(v) PROVE Spared(i)
      <3>1. i \in doomed[v] => rows[i].status \notin ActiveStatuses
        BY <1>1 DEF IInv, DoomedAreOld
      <3>2. rows'[i] = IF i \in doomed[v] THEN [status |-> "deleted", at |-> 0] ELSE rows[i]
        BY <2>4 DEF PruneDelete
      <3> QED BY <3>1, <3>2 DEF Spared, ActiveStatuses
    <2>5. ASSUME LoadClaimed \/ \E v \in Visitors :
                    Start(v) \/ Load(v) \/ PruneSelect(v) \/ Die(v)
          PROVE  rows' = rows
      BY <2>5 DEF LoadClaimed, Start, Load, PruneSelect, Die
    <2> QED BY <1>1, <2>1, <2>2, <2>3, <2>4, <2>5 DEF Next, vars
  <1>2. IInv /\ [Next]_vars => \A i \in DOMAIN rows : Spared(i)
    BY <1>1
  <1>3. Spec => [][\A i \in DOMAIN rows : Spared(i)]_vars
    BY <1>2, DemoInvariance, PTL DEF Spec
  <1> QED BY <1>3 DEF PruneSparesLive
=============================================================================
