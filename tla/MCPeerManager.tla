--------------------------- MODULE MCPeerManager ---------------------------
(* Instances of PeerManager for TLC: which handler serves which requests. *)
EXTENDS PeerManager, TLC

CONSTANTS h1, h2

\* Every kind of request, one after another.
Serial == h1 :> AllRequests

\* Registrations race with revocations and with changes of the peer limit.
AddsAndRevokes == h1 :> {"add"} @@ h2 :> {"revoke", "update"}

\* Registrations race with the other requests of users.
AddsAndChanges == h1 :> {"add"} @@ h2 :> {"replace", "remove"}

\* Registrations and key changes race with each other and with all that replaces
\* the device's peers: rotations, and the interface being turned off and on.
AddsAndToggles == h1 :> {"add", "disable"} @@ h2 :> {"add", "replace", "rotate", "enable"}

\* Two registrations race.
TwoAdders == h1 :> {"add"} @@ h2 :> {"add"}

\* Registrations race with an administrator who disconnects and revokes.
AddsAndAdmin == h1 :> {"add"} @@ h2 :> AdminRequests

\* One registration or disconnection at a time, beside the reconciliation loop.
AddsAndRemoves == h1 :> {"add", "remove"}

UsersAndKeys == Permutations(Users) \cup Permutations(Keys)
KeysOnly == Permutations(Keys)
=============================================================================
