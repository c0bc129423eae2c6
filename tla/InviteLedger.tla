---------------------------- MODULE InviteLedger ----------------------------
(***************************************************************************)
(* What registration promises, without the statements and locks of its     *)
(* transactions: an account and the use of an invite that it costs come    *)
(* into being in one indivisible step. The first account is the only one   *)
(* that needs no invite and the only administrator that registration       *)
(* makes. Expiry is left out.                                              *)
(***************************************************************************)
EXTENDS Naturals

CONSTANTS Students, Invites, NoInvite, MaxUses

VARIABLES
    members, \* the role ("none": no account) and the invite of each student
    books    \* the state, max_uses and use_count of each invite

ledgerVars == <<members, books>>

NotMember == [role |-> "none", invite |-> NoInvite]
NotIssued == [state |-> "none", max |-> 0, uses |-> 0]

LedgerInit ==
    /\ members = [s \in Students |-> NotMember]
    /\ books = [i \in Invites |-> NotIssued]

\* The first account.
Found(s) ==
    /\ \A t \in Students : members[t] = NotMember
    /\ members' = [members EXCEPT ![s] = [role |-> "admin", invite |-> NoInvite]]
    /\ UNCHANGED books

\* An account for a use of an invite that has one left.
Join(s, i) ==
    /\ members[s] = NotMember
    /\ books[i].state = "live"
    /\ books[i].uses < books[i].max
    /\ members' = [members EXCEPT ![s] = [role |-> "user", invite |-> i]]
    /\ books' = [books EXCEPT ![i].uses = @ + 1]

\* The administrator's side.
Issue(i, m) ==
    /\ \E s \in Students : members[s].role = "admin"
    /\ m >= 1
    /\ books[i] = NotIssued
    /\ books' = [books EXCEPT ![i] = [state |-> "live", max |-> m, uses |-> 0]]
    /\ UNCHANGED members

Amend(i, m) ==
    /\ m >= 1
    /\ books[i].state = "live"
    /\ books' = [books EXCEPT ![i].max = m]
    /\ UNCHANGED members

Withdraw(i) ==
    /\ books[i].state = "live"
    /\ books' = [books EXCEPT ![i].state = "deleted"]
    /\ UNCHANGED members

LedgerNext ==
    \/ \E s \in Students : Found(s) \/ \E i \in Invites : Join(s, i)
    \/ \E i \in Invites : Withdraw(i) \/ \E m \in MaxUses : Issue(i, m) \/ Amend(i, m)

LedgerSpec == LedgerInit /\ [][LedgerNext]_ledgerVars

=============================================================================
