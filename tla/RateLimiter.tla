---------------------------- MODULE RateLimiter ----------------------------
(***************************************************************************)
(* The rate limiter of internal/api/ratelimit.go: for each key, which is   *)
(* made of the route and the student id, the client's address or the user, *)
(* the times of the requests admitted within the last window. A request    *)
(* looks its bucket up under one mutex and asks it under another, so that  *)
(* time passes and other requests are served between the two.              *)
(*                                                                         *)
(* The code's slices of times are sets here: only how many times are in    *)
(* the window matters, not their order. Each time carries the number of    *)
(* its admission, which tells apart those of one instant.                  *)
(*                                                                         *)
(* Requests without a key (a body that cannot be read, no student id) are  *)
(* not limited and not modelled. Buckets are never removed.                *)
(***************************************************************************)
EXTENDS Naturals, FiniteSets

CONSTANTS
    LimitKeys, NoLimitKey,
    Limit, Window, \* of each key: 5 a minute, 10 an hour, 30 a minute
    Callers,       \* goroutines that serve requests
    LastTick       \* bound on the clock

ASSUME LimiterAssumption ==
    /\ NoLimitKey \notin LimitKeys
    /\ Limit \in [LimitKeys -> Nat \ {0}]
    /\ Window \in [LimitKeys -> Nat \ {0}]
    /\ LastTick \in Nat

VARIABLES
    clock,
    timestamps, \* of each key's bucket
    caller,     \* the key whose bucket each caller holds
    admitted    \* history: all requests of each key that were admitted

limiterVars == <<clock, timestamps, caller, admitted>>

Admission == [nth : Nat, at : 0..LastTick]

LimiterTypeOK ==
    /\ clock \in 0..LastTick
    /\ timestamps \in [LimitKeys -> SUBSET Admission]
    /\ caller \in [Callers -> LimitKeys \cup {NoLimitKey}]
    /\ admitted \in [LimitKeys -> SUBSET Admission]

\* getOrCreate finds a key's only bucket, or makes it, empty.
GetOrCreate(c) ==
    /\ caller[c] = NoLimitKey
    /\ \E k \in LimitKeys : caller' = [caller EXCEPT ![c] = k]
    /\ UNCHANGED <<clock, timestamps, admitted>>

\* Faulty: a request at the cutoff still counts.
ValidFromCutoff(k) == {ts \in timestamps[k] : ts.at + Window[k] >= clock}

\* The timestamps after the cutoff.
Valid(k) == {ts \in timestamps[k] : ts.at + Window[k] > clock}

Admit(k) == [nth |-> Cardinality(admitted[k]), at |-> clock]

\* Faulty: one request too many is admitted.
AllowOneMore(c) ==
    LET k == caller[c]
    IN  /\ k # NoLimitKey
        /\ caller' = [caller EXCEPT ![c] = NoLimitKey]
        /\ \/ /\ Cardinality(Valid(k)) > Limit[k]
              /\ timestamps' = [timestamps EXCEPT ![k] = Valid(k)]
              /\ UNCHANGED admitted
           \/ /\ Cardinality(Valid(k)) <= Limit[k]
              /\ timestamps' = [timestamps EXCEPT ![k] = Valid(k) \cup {Admit(k)}]
              /\ admitted' = [admitted EXCEPT ![k] = @ \cup {Admit(k)}]
        /\ UNCHANGED clock

\* allow, with the bucket locked; the request is served or answered with 429.
Allow(c) ==
    LET k == caller[c]
    IN  /\ k # NoLimitKey
        /\ caller' = [caller EXCEPT ![c] = NoLimitKey]
        /\ \/ /\ Cardinality(Valid(k)) >= Limit[k]
              /\ timestamps' = [timestamps EXCEPT ![k] = Valid(k)]
              /\ UNCHANGED admitted
           \/ /\ Cardinality(Valid(k)) < Limit[k]
              /\ timestamps' = [timestamps EXCEPT ![k] = Valid(k) \cup {Admit(k)}]
              /\ admitted' = [admitted EXCEPT ![k] = @ \cup {Admit(k)}]
        /\ UNCHANGED clock

TimePasses ==
    /\ clock < LastTick
    /\ clock' = clock + 1
    /\ UNCHANGED <<timestamps, caller, admitted>>

LimiterInit ==
    /\ clock = 0
    /\ timestamps = [k \in LimitKeys |-> {}]
    /\ caller = [c \in Callers |-> NoLimitKey]
    /\ admitted = [k \in LimitKeys |-> {}]

LimiterNext ==
    \/ \E c \in Callers : GetOrCreate(c) \/ Allow(c)
    \/ TimePasses

LimiterSpec == LimiterInit /\ [][LimiterNext]_limiterVars

-----------------------------------------------------------------------------
(* Properties.                                                             *)

\* The admissions in the window that ends with t.
AdmittedUpTo(k, t) == {a \in admitted[k] : a.at <= t /\ a.at + Window[k] > t}

\* No window, wherever it lies, holds more admissions of a key than its limit,
\* although the bucket forgets all but the timestamps of the present window.
WindowBound ==
    \A k \in LimitKeys, t \in 0..LastTick : Cardinality(AdmittedUpTo(k, t)) <= Limit[k]

\* A request is refused only if its key has used up the limit in the window that
\* ends now: neither old timestamps nor other keys count against it.
RefusedOnlyAtLimit ==
    [][\A c \in Callers :
        caller[c] # NoLimitKey /\ caller'[c] = NoLimitKey /\ admitted' = admitted
            => Cardinality(AdmittedUpTo(caller[c], clock)) = Limit[caller[c]]]_limiterVars

=============================================================================
