----------------------------- MODULE PeerTypes -----------------------------
(***************************************************************************)
(* The values the peer subsystem passes between its parts: the address     *)
(* manager (IPAM), the peers table (PeerStore), the kernel device          *)
(* (WireGuard) and the manager that keeps the three in step (PeerManager). *)
(***************************************************************************)
EXTENDS Naturals, FiniteSets

CONSTANTS
    Users,       \* ids of registered accounts
    Keys,        \* client public keys
    NoKey,       \* no public key
    Rows,        \* ids of rows of the peers table
    NoRow,       \* no row
    NoUser,      \* no user
    TotalHosts,  \* number of addresses in the WireGuard subnet (1 << hostBits)
    ServerAddr,  \* host index of the server's own address
    ServerKeys,  \* server private keys
    NoServerKey  \* the zero private key, which turns the interface off

\* resolveWireGuardAddress rejects an address outside the subnet, so the
\* server's address is always one of the subnet's.
ASSUME SubnetAssumption ==
    /\ TotalHosts \in Nat \ {0}
    /\ ServerAddr \in 0..(TotalHosts - 1)

ASSUME RowsAssumption == Rows \subseteq Nat

ASSUME NullsAssumption ==
    /\ NoKey \notin Keys
    /\ NoRow \notin Rows
    /\ NoUser \notin Users
    /\ NoServerKey \notin ServerKeys

\* net.IPNet: addresses are host indices; NoAddr is an unset address.
Subnet == 0..(TotalHosts - 1)
NoAddr == TotalHosts
MaybeAddr == Subnet \cup {NoAddr}

Statuses == {"none", "active", "disconnected", "revoked"}

\* A row of the peers table (model.Peer). Status "none": no such row yet.
Peer == [user : Users \cup {NoUser}, key : Keys \cup {NoKey},
         ip : MaybeAddr, status : Statuses]
NoPeer == [user |-> NoUser, key |-> NoKey, ip |-> NoAddr, status |-> "none"]

\* What a caller of ListActive keeps of a row: its key and its address.
Listed == [key : Keys, ip : Subnet]

\* A private key is 32 bytes, which Go copies in two halves.
PrivateKeys == ServerKeys \X ServerKeys
ZeroKey == <<NoServerKey, NoServerKey>>
=============================================================================
