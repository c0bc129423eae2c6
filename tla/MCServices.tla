----------------------------- MODULE MCServices -----------------------------
(***************************************************************************)
(* Parts of the server that share no variable, for TLC: registration with  *)
(* fairness, accounts, the rate limiter and the migrations. Each is        *)
(* explored beside initial states of the others.                           *)
(***************************************************************************)
EXTENDS Registration, Account, RateLimiter, Migrations, TLC

CONSTANTS admin, user, p1, login, peer

VARIABLE part

mcVars == <<part, vars, accountVars, limiterVars, migrationVars>>

\* One administrator and one user, who start with the same password.
SamePassword == admin :> p1 @@ user :> p1

\* Two in three ticks for one route, one in two ticks for another.
Limits == login :> 2 @@ peer :> 1
Windows == login :> 3 @@ peer :> 2

MCInit ==
    /\ part \in {"registration", "account", "limiter", "migrations"}
    /\ Init /\ AccountInit /\ LimiterInit /\ MigrationsInit
    \* only where they run do the migrations start from every database
    /\ part # "migrations" => tables = 0 /\ shipped = 1

MCNext ==
    \/ part = "registration" /\ Next
       /\ UNCHANGED <<part, accountVars, limiterVars, migrationVars>>
    \/ part = "account" /\ AccountNext
       /\ UNCHANGED <<part, vars, limiterVars, migrationVars>>
    \/ part = "limiter" /\ LimiterNext
       /\ UNCHANGED <<part, vars, accountVars, migrationVars>>
    \/ part = "migrations" /\ MigrationsNext
       /\ UNCHANGED <<part, vars, accountVars, limiterVars>>

\* Where registration is not explored none of its fair actions is enabled.
MCSpec == MCInit /\ [][MCNext]_mcVars /\ Fairness

\* The types of the parts that have no other run.
ServicesTypeOK == AccountTypeOK /\ LimiterTypeOK /\ MigrationsTypeOK
=============================================================================
