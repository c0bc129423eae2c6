----------------------------- MODULE WireGuard -----------------------------
(***************************************************************************)
(* The kernel's WireGuard device, which is outside the repository, as far  *)
(* as internal/peer uses it through wgctrl's ConfigureDevice and Device.   *)
(*                                                                         *)
(* A device is its private key, its set of peers, and its cryptokey        *)
(* routing table: an allowed address belongs to at most one peer, so       *)
(* giving it to one peer takes it from another. Adding a peer that is      *)
(* already there (the code sets no UpdateOnly and, outside RotateServerKey,*)
(* no ReplaceAllowedIPs) adds to the addresses that it has.                *)
(***************************************************************************)
EXTENDS PeerTypes

NoRoutes == [a \in Subnet |-> NoKey]

Device == [key : PrivateKeys \cup {ZeroKey}, peers : SUBSET Keys,
           route : [Subnet -> Keys \cup {NoKey}]]

AddPeerTo(dev, k, a) ==
    [dev EXCEPT !.peers = @ \cup {k}, !.route = [@ EXCEPT ![a] = k]]

RemovePeersFrom(dev, ks) ==
    [dev EXCEPT !.peers = @ \ ks,
                !.route = [a \in Subnet |-> IF @[a] \in ks THEN NoKey ELSE @[a]]]

\* The keys that a list of peers gives address a to.
Claimants(list, a) == {p.key : p \in {q \in list : q.ip = a}}

\* The routing tables that adding a list of peers to table r can produce: the
\* last peer that claims an address gets it, and the list is in the arbitrary
\* order of an SQL result.
RoutesAfter(r, list) ==
    {s \in [Subnet -> Keys \cup {NoKey}] :
        \A a \in Subnet : IF Claimants(list, a) = {}
                          THEN s[a] = r[a]
                          ELSE s[a] \in Claimants(list, a)}

\* One ConfigureDevice call that adds a list of peers.
AddPeersTo(dev, list) ==
    {[dev EXCEPT !.peers = @ \cup {p.key : p \in list}, !.route = s] :
        s \in RoutesAfter(dev.route, list)}

\* One ConfigureDevice call with a private key and ReplacePeers.
ReplacePeers(k, list) ==
    AddPeersTo([key |-> k, peers |-> {}, route |-> NoRoutes], list)
=============================================================================
