------------------------- MODULE RateLimiter_proof -------------------------
(***************************************************************************)
(* Proofs about RateLimiter, for any number of keys and callers, any limit *)
(* and window of each key. A bucket forgets; the history forgets nothing.  *)
(* What carries the bound from one to the other is that the bucket still   *)
(* has all of the history that is within the present window.               *)
(***************************************************************************)
EXTENDS RateLimiter, FiniteSetTheorems, TLAPS

Finite == \A k \in LimitKeys : IsFiniteSet(admitted[k])

\* No admission lies in the future, or has a number not yet given.
Past == \A k \in LimitKeys : \A a \in admitted[k] :
    a.at <= clock /\ a.nth < Cardinality(admitted[k])

\* A bucket invents nothing and forgets only what has left the window.
Remembered == \A k \in LimitKeys :
    /\ timestamps[k] \subseteq admitted[k]
    /\ \A a \in admitted[k] : a.at + Window[k] > clock => a \in timestamps[k]

IInv == LimiterTypeOK /\ Finite /\ Past /\ Remembered /\ WindowBound

\* The times allow keeps of a bucket are all the admissions of its key in the
\* window that ends now.
LEMMA ValidIsWindow ==
    ASSUME IInv, NEW k \in LimitKeys
    PROVE  /\ Valid(k) = AdmittedUpTo(k, clock)
           /\ Valid(k) \subseteq admitted[k]
           /\ IsFiniteSet(Valid(k))
<1>1. Valid(k) \subseteq admitted[k]
    BY DEF IInv, Remembered, Valid
<1>2. IsFiniteSet(Valid(k))
    BY <1>1, FS_Subset DEF IInv, Finite
<1>3. Valid(k) = AdmittedUpTo(k, clock)
    BY DEF IInv, Remembered, Past, Valid, AdmittedUpTo
<1> QED BY <1>1, <1>2, <1>3

\* allow gives an admission a number of its own, so that the history grows by
\* one, also by a second admission at the same instant.
LEMMA AdmitIsNew ==
    ASSUME IInv, NEW k \in LimitKeys
    PROVE  /\ Admit(k) \in Admission
           /\ Admit(k) \notin admitted[k]
           /\ IsFiniteSet(admitted[k] \cup {Admit(k)})
           /\ Cardinality(admitted[k]) \in Nat
           /\ Cardinality(admitted[k] \cup {Admit(k)}) = Cardinality(admitted[k]) + 1
<1>1. IsFiniteSet(admitted[k])
    BY DEF IInv, Finite
<1>2. Cardinality(admitted[k]) \in Nat
    BY <1>1, FS_CardinalityType
<1>3. Admit(k) \in Admission
    BY <1>2 DEF IInv, LimiterTypeOK, Admit, Admission
<1>4. Admit(k) \notin admitted[k]
    BY <1>2 DEF IInv, Past, Admit
<1>5. /\ IsFiniteSet(admitted[k] \cup {Admit(k)})
      /\ Cardinality(admitted[k] \cup {Admit(k)}) = Cardinality(admitted[k]) + 1
    BY <1>1, <1>4, FS_AddElement
<1> QED BY <1>2, <1>3, <1>4, <1>5

\* One admission by allow, of a bucket that has room, keeps every window of the
\* key within the limit: a window that ends before now does not change, and one
\* that ends later has at most the present window and the new admission.
LEMMA WindowAfterAdmit ==
    ASSUME IInv, NEW k \in LimitKeys, NEW t \in 0..LastTick,
           Cardinality(Valid(k)) < Limit[k], admitted'[k] = admitted[k] \cup {Admit(k)}
    PROVE  Cardinality(AdmittedUpTo(k, t)') <= Limit[k]
<1> USE LimiterAssumption
<1>1. clock \in Nat /\ t \in Nat /\ Window[k] \in Nat /\ Limit[k] \in Nat
    BY DEF IInv, LimiterTypeOK
<1>2. \A a \in admitted[k] : a.at \in Nat
    BY DEF IInv, LimiterTypeOK, Admission
<1>3. CASE t < clock
    <2>1. AdmittedUpTo(k, t)' = AdmittedUpTo(k, t)
        BY <1>1, <1>3 DEF AdmittedUpTo, Admit
    <2> QED BY <2>1 DEF IInv, WindowBound
<1>4. CASE t >= clock
    <2>1. AdmittedUpTo(k, t)' \in SUBSET (Valid(k) \cup {Admit(k)})
        <3> SUFFICES ASSUME NEW a \in AdmittedUpTo(k, t)', a # Admit(k)
                     PROVE  a \in Valid(k)
            OBVIOUS
        <3>1. a \in admitted[k] /\ a.at + Window[k] > t
            BY DEF AdmittedUpTo
        <3>2. a.at + Window[k] > clock
            BY <1>1, <1>2, <1>4, <3>1
        <3> QED BY <3>1, <3>2 DEF IInv, Remembered, Valid
    <2>2. /\ IsFiniteSet(Valid(k) \cup {Admit(k)})
          /\ Cardinality(Valid(k)) \in Nat
          /\ Cardinality(Valid(k) \cup {Admit(k)}) <= Cardinality(Valid(k)) + 1
        <3>1. IsFiniteSet(Valid(k))
            BY ValidIsWindow
        <3>2. Cardinality(Valid(k)) \in Nat
            BY <3>1, FS_CardinalityType
        <3>3. /\ IsFiniteSet(Valid(k) \cup {Admit(k)})
              /\ Cardinality(Valid(k) \cup {Admit(k)}) =
                    IF Admit(k) \in Valid(k) THEN Cardinality(Valid(k))
                                             ELSE Cardinality(Valid(k)) + 1
            BY <3>1, FS_AddElement
        <3> QED BY <3>2, <3>3
    <2>3. /\ IsFiniteSet(AdmittedUpTo(k, t)')
          /\ Cardinality(AdmittedUpTo(k, t)') <= Cardinality(Valid(k) \cup {Admit(k)})
        BY <2>1, <2>2, FS_Subset
    <2>4. /\ Cardinality(AdmittedUpTo(k, t)') \in Nat
          /\ Cardinality(Valid(k) \cup {Admit(k)}) \in Nat
        BY <2>2, <2>3, FS_CardinalityType
    <2> QED BY <1>1, <2>2, <2>3, <2>4
<1> QED BY <1>1, <1>3, <1>4

\* No bucket exists when the process starts.
LEMMA InitHolds == LimiterInit => IInv
<1> SUFFICES ASSUME LimiterInit PROVE IInv
    OBVIOUS
<1> USE LimiterAssumption DEF LimiterInit
<1>1. LimiterTypeOK
    BY DEF LimiterTypeOK
<1>2. Finite
    BY FS_EmptySet DEF Finite
<1>3. Past /\ Remembered
    BY DEF Past, Remembered
<1>4. WindowBound
    <2> SUFFICES ASSUME NEW k \in LimitKeys, NEW t \in 0..LastTick
                 PROVE  Cardinality(AdmittedUpTo(k, t)) <= Limit[k]
        BY DEF WindowBound
    <2>1. AdmittedUpTo(k, t) = {}
        BY DEF AdmittedUpTo
    <2> QED BY <2>1, FS_EmptySet
<1> QED BY <1>1, <1>2, <1>3, <1>4 DEF IInv

\* getOrCreate writes no bucket.
LEMMA GetOrCreateKeeps ==
    ASSUME IInv, NEW c \in Callers, GetOrCreate(c) PROVE IInv'
<1>1. LimiterTypeOK'
    BY DEF IInv, LimiterTypeOK, GetOrCreate
<1>2. (Finite /\ Past /\ Remembered /\ WindowBound)'
    BY DEF IInv, Finite, Past, Remembered, WindowBound, AdmittedUpTo, GetOrCreate
<1> QED BY <1>1, <1>2 DEF IInv

\* What allow forgets has left the window for good, and what it admits fits.
LEMMA AllowKeeps ==
    ASSUME IInv, NEW c \in Callers, Allow(c) PROVE IInv'
<1> DEFINE k == caller[c]
<1> USE LimiterAssumption
<1>1. k \in LimitKeys /\ clock' = clock
    BY DEF IInv, LimiterTypeOK, Allow
<1>2. clock \in Nat /\ \A q \in LimitKeys : Window[q] \in Nat
    BY DEF IInv, LimiterTypeOK
<1>3. CASE timestamps' = [timestamps EXCEPT ![k] = Valid(k)] /\ UNCHANGED admitted
    <2>1. Valid(k) \subseteq timestamps[k]
        BY DEF Valid
    <2>2. LimiterTypeOK'
        BY <1>1, <1>3, <2>1 DEF IInv, LimiterTypeOK, Allow
    <2>3. (Finite /\ Past /\ WindowBound)'
        BY <1>1, <1>3 DEF IInv, Finite, Past, WindowBound, AdmittedUpTo
    <2>4. Remembered'
        BY <1>1, <1>3, <2>1 DEF IInv, LimiterTypeOK, Remembered, Valid
    <2> QED BY <2>2, <2>3, <2>4 DEF IInv
<1>4. CASE /\ Cardinality(Valid(k)) < Limit[k]
           /\ timestamps' = [timestamps EXCEPT ![k] = Valid(k) \cup {Admit(k)}]
           /\ admitted' = [admitted EXCEPT ![k] = @ \cup {Admit(k)}]
    <2>1. Valid(k) \subseteq timestamps[k]
        BY DEF Valid
    <2>2. /\ Admit(k) \in Admission
          /\ IsFiniteSet(admitted[k] \cup {Admit(k)})
          /\ Cardinality(admitted[k]) \in Nat
          /\ Cardinality(admitted[k] \cup {Admit(k)}) = Cardinality(admitted[k]) + 1
        BY <1>1, AdmitIsNew
    <2>3. /\ admitted'[k] = admitted[k] \cup {Admit(k)}
          /\ timestamps'[k] = Valid(k) \cup {Admit(k)}
          /\ \A q \in LimitKeys \ {k} :
                admitted'[q] = admitted[q] /\ timestamps'[q] = timestamps[q]
        BY <1>1, <1>4 DEF IInv, LimiterTypeOK
    <2>4. LimiterTypeOK'
        BY <1>1, <1>4, <2>1, <2>2 DEF IInv, LimiterTypeOK, Allow
    <2>5. Finite'
        BY <2>2, <2>3 DEF IInv, Finite
    <2>6. Past'
        <3> SUFFICES ASSUME NEW q \in LimitKeys, NEW a \in admitted'[q]
                     PROVE  a.at <= clock /\ a.nth < Cardinality(admitted'[q])
            BY <1>1 DEF Past
        <3>1. CASE q # k
            BY <2>3, <3>1 DEF IInv, Past
        <3>2. CASE q = k /\ a \in admitted[k]
            <4>1. a.at <= clock /\ a.nth < Cardinality(admitted[k])
                BY <1>1, <3>2 DEF IInv, Past
            <4>2. a \in Admission
                BY <1>1, <3>2 DEF IInv, LimiterTypeOK
            <4>3. a.nth \in Nat
                BY <4>2 DEF Admission
            <4>4. Cardinality(admitted'[q]) = Cardinality(admitted[k]) + 1
                BY <2>2, <2>3, <3>2
            <4> HIDE DEF k
            <4> QED BY <2>2, <4>1, <4>3, <4>4
        <3>3. CASE q = k /\ a = Admit(k)
            <4>1. a.at = clock /\ a.nth = Cardinality(admitted[k])
                BY <3>3 DEF Admit
            <4>2. Cardinality(admitted'[q]) = Cardinality(admitted[k]) + 1
                BY <2>2, <2>3, <3>3
            <4> HIDE DEF k
            <4> QED BY <1>2, <2>2, <4>1, <4>2
        <3> QED BY <2>3, <3>1, <3>2, <3>3
    <2>7. Remembered'
        <3>1. timestamps[k] \subseteq admitted[k]
            BY <1>1 DEF IInv, Remembered
        <3>2. timestamps'[k] \subseteq admitted'[k]
            BY <2>1, <2>3, <3>1
        <3>3. \A a \in admitted'[k] : a.at + Window[k] > clock => a \in timestamps'[k]
            BY <1>1, <2>3 DEF IInv, Remembered, Valid
        <3>4. ASSUME NEW q \in LimitKeys, q # k
              PROVE  /\ timestamps'[q] \subseteq admitted'[q]
                     /\ \A a \in admitted'[q] :
                            a.at + Window[q] > clock => a \in timestamps'[q]
            BY <2>3, <3>4 DEF IInv, Remembered
        <3> QED BY <1>1, <3>2, <3>3, <3>4 DEF Remembered
    <2>8. WindowBound'
        <3> SUFFICES ASSUME NEW q \in LimitKeys, NEW t \in 0..LastTick
                     PROVE  Cardinality(AdmittedUpTo(q, t)') <= Limit[q]
            BY DEF WindowBound
        <3>1. CASE q = k
            BY <1>1, <1>4, <2>3, <3>1, WindowAfterAdmit
        <3>2. CASE q # k
            BY <2>3, <3>2 DEF IInv, WindowBound, AdmittedUpTo
        <3> QED BY <3>1, <3>2
    <2> QED BY <2>4, <2>5, <2>6, <2>7, <2>8 DEF IInv
<1> QED BY <1>3, <1>4 DEF Allow

\* Time only takes admissions out of the window.
LEMMA TimePassesKeeps ==
    ASSUME IInv, TimePasses PROVE IInv'
<1> USE LimiterAssumption
<1>1. LimiterTypeOK'
    BY DEF IInv, LimiterTypeOK, TimePasses
<1>2. (Finite /\ WindowBound)'
    BY DEF IInv, Finite, WindowBound, AdmittedUpTo, TimePasses
<1>3. clock \in Nat /\ \A k \in LimitKeys : \A a \in admitted[k] : a.at \in Nat
    BY DEF IInv, LimiterTypeOK, Admission
<1>4. Past'
    BY <1>3 DEF IInv, Past, TimePasses
<1>5. Remembered'
    BY <1>3 DEF IInv, Remembered, TimePasses
<1> QED BY <1>1, <1>2, <1>4, <1>5 DEF IInv

\* The invariant holds through every step of every caller.
THEOREM LimiterInvariance == LimiterSpec => []IInv
<1>1. LimiterInit => IInv
    BY InitHolds
<1>2. IInv /\ [LimiterNext]_limiterVars => IInv'
    <2> SUFFICES ASSUME IInv, [LimiterNext]_limiterVars PROVE IInv'
        OBVIOUS
    <2>1. ASSUME NEW c \in Callers, GetOrCreate(c) PROVE IInv'
        BY <2>1, GetOrCreateKeeps
    <2>2. ASSUME NEW c \in Callers, Allow(c) PROVE IInv'
        BY <2>2, AllowKeeps
    <2>3. CASE TimePasses
        BY <2>3, TimePassesKeeps
    <2>4. CASE UNCHANGED limiterVars
        BY <2>4 DEF limiterVars, IInv, LimiterTypeOK, Finite, Past, Remembered,
            WindowBound, AdmittedUpTo
    <2> QED BY <2>1, <2>2, <2>3, <2>4 DEF LimiterNext
<1> QED BY <1>1, <1>2, PTL DEF LimiterSpec

\* The buckets, the callers and the history keep their types.
THEOREM LimiterTypeCorrect == LimiterSpec => []LimiterTypeOK
<1>1. IInv => LimiterTypeOK
    BY DEF IInv
<1> QED BY <1>1, LimiterInvariance, PTL

\* rateLimitBucket.allow: in no window, wherever it lies, more requests of a key
\* are admitted than its limit, however many callers ask at once.
THEOREM NoWindowOverrun == LimiterSpec => []WindowBound
<1>1. IInv => WindowBound
    BY DEF IInv
<1> QED BY <1>1, LimiterInvariance, PTL

\* rateLimitBucket.allow: a 429 is only answered when the limit of the key is
\* used up in the window that ends now, exactly.
THEOREM RefusalsJustified == LimiterSpec => RefusedOnlyAtLimit
<1> DEFINE Justified(c) ==
        caller[c] # NoLimitKey /\ caller'[c] = NoLimitKey /\ admitted' = admitted
            => Cardinality(AdmittedUpTo(caller[c], clock)) = Limit[caller[c]]
<1>1. IInv /\ [LimiterNext]_limiterVars => [\A c \in Callers : Justified(c)]_limiterVars
    <2> SUFFICES ASSUME IInv, LimiterNext, NEW c \in Callers,
                        caller[c] # NoLimitKey, caller'[c] = NoLimitKey,
                        admitted' = admitted
                 PROVE  Cardinality(AdmittedUpTo(caller[c], clock)) = Limit[caller[c]]
        OBVIOUS
    <2> DEFINE k == caller[c]
    <2>1. k \in LimitKeys
        BY DEF IInv, LimiterTypeOK
    <2>2. ASSUME NEW d \in Callers, GetOrCreate(d) PROVE FALSE
        <3>1. d # c
            BY <2>2 DEF GetOrCreate
        <3> QED BY <2>2, <3>1 DEF GetOrCreate, IInv, LimiterTypeOK
    <2>3. ASSUME NEW d \in Callers, Allow(d)
          PROVE  Cardinality(Valid(k)) >= Limit[k]
        <3>1. d = c
            BY <2>3 DEF Allow, IInv, LimiterTypeOK
        <3>2. admitted' # [admitted EXCEPT ![k] = @ \cup {Admit(k)}]
            BY <2>1, AdmitIsNew DEF IInv, LimiterTypeOK
        <3> QED BY <2>3, <3>1, <3>2 DEF Allow
    <2>4. ~TimePasses
        BY DEF TimePasses
    <2>5. Cardinality(Valid(k)) >= Limit[k]
        BY <2>2, <2>3, <2>4 DEF LimiterNext
    <2>6. /\ Valid(k) = AdmittedUpTo(k, clock)
          /\ Cardinality(Valid(k)) \in Nat
        BY <2>1, ValidIsWindow, FS_CardinalityType
    <2>7. Cardinality(AdmittedUpTo(k, clock)) <= Limit[k]
        BY <2>1 DEF IInv, WindowBound, LimiterTypeOK
    <2> QED BY <2>1, <2>5, <2>6, <2>7, LimiterAssumption
<1> QED BY <1>1, LimiterInvariance, PTL DEF LimiterSpec, RefusedOnlyAtLimit
=============================================================================
