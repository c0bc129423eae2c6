------------------------------- MODULE IPAM -------------------------------
(***************************************************************************)
(* internal/peer/ipam.go: the in-memory set of taken addresses. Every      *)
(* operation holds the IPAM's mutex from entry to return, so each is one   *)
(* atomic function of the set `used`.                                      *)
(*                                                                         *)
(* Here and in the other modules a definition marked "Faulty" is a variant *)
(* with a plausible mistake, next to the definition it would replace; the  *)
(* properties are known to tell the two apart. No specification uses it.   *)
(***************************************************************************)
EXTENDS PeerTypes

\* Faulty: the loop runs to idx <= totalHosts.
PoolPastEnd == 1..TotalHosts

\* Allocate walks idx = 1, 2, ... while idx < totalHosts - 1: the network and
\* the broadcast address are never handed out.
Pool == {a \in Subnet : a >= 1 /\ a + 1 < TotalHosts}

NewIPAM == {}

Free(used) == Pool \ used

\* The addresses Allocate may return: the lowest free one, none when full.
Allocatable(used) == {a \in Free(used) : \A b \in Free(used) : a <= b}

Release(used, a) == used \ {a}

\* Reserve takes any address of the subnet, the unusable ones too. It refuses one
\* outside, which no row has as long as the subnet is the one rows got theirs from.
Reserve(used, a) == used \cup {a}
=============================================================================
