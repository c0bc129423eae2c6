----------------------------- MODULE PeerLedger -----------------------------
(***************************************************************************)
(* What the peer subsystem promises about the peers table, without the     *)
(* calls that its requests make one after another to queries, device and   *)
(* IPAM: which row a key belongs to, which address a peer gets, and what   *)
(* becomes of a row, each decided and done in one indivisible step.        *)
(***************************************************************************)
CONSTANTS
    Users, Keys, Rows,
    Addresses,  \* those that peers may get
    NoUser, NoKey, NoAddr

VARIABLE
    book        \* owner, key, address and status of each row

NoEntry == [user |-> NoUser, key |-> NoKey, ip |-> NoAddr, status |-> "none"]

LedgerInit == book = [r \in Rows |-> NoEntry]

\* No peer in use has the address.
Available(a) == \A r \in Rows : book[r].status = "active" => book[r].ip # a

\* No other row, in whatever status, has the key.
Unclaimed(r, k) == \A q \in Rows \ {r} : book[q].status # "none" => book[q].key # k

\* A user's new peer.
Register(r, u, k, a) ==
    /\ book[r].status = "none"
    /\ Unclaimed(r, k) /\ Available(a)
    /\ book' = [book EXCEPT ![r] = [user |-> u, key |-> k, ip |-> a, status |-> "active"]]

\* A peer that was disconnected, and no other, comes back, at a new address.
Reconnect(r, a) ==
    /\ book[r].status = "disconnected"
    /\ Available(a)
    /\ book' = [book EXCEPT ![r].ip = a, ![r].status = "active"]

\* A peer's key, unless it was revoked, is replaced by one that no row has.
Rekey(r, k) ==
    /\ book[r].status \in {"active", "disconnected"}
    /\ Unclaimed(r, k)
    /\ book' = [book EXCEPT ![r].key = k]

Disconnect(r) ==
    /\ book[r].status = "active"
    /\ book' = [book EXCEPT ![r].status = "disconnected"]

Revoke(r) ==
    /\ book[r].status # "none"
    /\ book' = [book EXCEPT ![r].status = "revoked"]

\* The administrator's word alone ends a revocation.
Pardon(r) ==
    /\ book[r].status = "revoked"
    /\ book' = [book EXCEPT ![r].status = "disconnected"]

LedgerNext == \E r \in Rows :
    \/ \E u \in Users, k \in Keys, a \in Addresses : Register(r, u, k, a)
    \/ \E a \in Addresses : Reconnect(r, a)
    \/ \E k \in Keys : Rekey(r, k)
    \/ Disconnect(r) \/ Revoke(r) \/ Pardon(r)

LedgerSpec == LedgerInit /\ [][LedgerNext]_book

=============================================================================
