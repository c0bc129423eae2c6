---------------------------- MODULE PeerManager ----------------------------
(***************************************************************************)
(* internal/peer/manager.go and the HTTP handlers that drive it.           *)
(*                                                                         *)
(* The manager takes no lock: every request runs in a goroutine of its     *)
(* own and makes one call after another to the database, to the kernel     *)
(* device and to the IPAM, while the reconciliation loop does the same in  *)
(* the background. A call is atomic; between two calls of one goroutine    *)
(* any other may run. So there is one action per call, each goroutine has  *)
(* a program counter and the local variables its later calls still use.    *)
(***************************************************************************)
EXTENDS IPAM, WireGuard, PeerStore

CONSTANTS
    Handlers,         \* goroutines serving requests
    Requests,         \* for each of them, the kinds of requests it serves
    Events,           \* what the environment does: see EventsAssumption
    DefaultMaxPeers,  \* users.max_peers of a new account
    MaxPeersChoices,  \* values an administrator sets it to
    ConfigKey         \* the server's private key in the configuration

PeerRequests == {"add", "remove", "replace"}
AdminRequests == {"disconnect", "revoke"}
DeviceRequests == {"rotate", "enable", "disable"}
AllRequests == PeerRequests \cup AdminRequests \cup DeviceRequests \cup {"update"}

\* "lost": a call to the database or the device fails and has no effect.
\* "ambiguous": a write fails although the database did apply it, as when the
\* client disconnects and the request's context is cancelled meanwhile.
\* "restart": the server process dies and starts again.
\* "settle": from some moment on there are no new requests, failures, restarts.
ASSUME EventsAssumption ==
    /\ Events \subseteq {"lost", "ambiguous", "restart", "settle"}
    /\ Requests \in [Handlers -> SUBSET AllRequests]

ASSUME ConfigAssumption ==
    /\ DefaultMaxPeers \in Nat
    /\ MaxPeersChoices \subseteq Nat
    /\ ConfigKey \in ServerKeys

VARIABLES
    users,      \* the users table: status active or not, and max_peers
    peers,      \* the peers table
    used,       \* IPAMImpl.used
    wg,         \* the kernel device
    serverKey,  \* PeerManagerImpl.serverPrivateKey
    pc, loc,    \* each handler's next call and its local variables
    rpc, rloc,  \* the same of the reconciliation loop
    quiet       \* the environment has settled

vars == <<users, peers, used, wg, serverKey, pc, loc, rpc, rloc, quiet>>

User == [active : BOOLEAN, maxPeers : Nat]

Labels == {"idle",
           "add_user", "add_count", "add_mine", "add_bykey", "add_alloc",
           "add_wg", "add_store", "add_undo", "add_release",
           "rm_find", "rm_wg", "rm_status", "rm_release",
           "rk_find", "rk_wg", "rk_store",
           "admin_find", "admin_status",
           "rot_list", "rot_wg", "rot_lo", "rot_hi",
           "en_list", "en_wg"}

\* The local variables of a request: its kind, the user and keys it names, the
\* peer id in its URL, the server key in its body, and what it has read so far:
\* the row it found, that row's or the allocated address, user.MaxPeers, and
\* the list of active peers.
Locals == [op : AllRequests \cup {"none"}, user : Users \cup {NoUser},
           key : Keys \cup {NoKey}, new : Keys \cup {NoKey},
           id : Rows \cup {NoRow}, skey : ServerKeys \cup {NoServerKey},
           row : Rows \cup {NoRow}, ip : MaybeAddr, quota : Nat,
           list : SUBSET Listed]

NoLocals == [op |-> "none", user |-> NoUser, key |-> NoKey, new |-> NoKey,
             id |-> NoRow, skey |-> NoServerKey, row |-> NoRow, ip |-> NoAddr,
             quota |-> 0, list |-> {}]

\* Reconcile's: ListActive's rows, the addresses still to reserve, and the
\* changes to make to the device: peers to add and keys to remove.
ReconcileLocals == [list : SUBSET Listed, todo : SUBSET Subnet,
                    add : SUBSET Listed, remove : SUBSET Keys]
NoReconcile == [list |-> {}, todo |-> {}, add |-> {}, remove |-> {}]

TypeOK ==
    /\ users \in [Users -> User]
    /\ peers \in [Rows -> Peer]
    /\ used \subseteq Subnet
    /\ wg \in Device
    /\ serverKey \in PrivateKeys
    /\ pc \in [Handlers -> Labels]
    /\ loc \in [Handlers -> Locals]
    /\ rpc \in {"idle", "reserve", "configure"}
    /\ rloc \in ReconcileLocals
    /\ quiet \in BOOLEAN

-----------------------------------------------------------------------------
(* How a handler moves on, and how calls fail.                             *)

Goto(h, l) == pc' = [pc EXCEPT ![h] = l]

\* The request is answered; its goroutine's variables are gone.
Return(h) ==
    /\ Goto(h, "idle")
    /\ loc' = [loc EXCEPT ![h] = NoLocals]

\* RemovePeer returns, with or without an error: to DisconnectPeer's answer, or
\* to the admin handler, which then sets the status whatever RemovePeer said.
RemoveReturn(h) ==
    IF loc[h].op = "remove"
    THEN Return(h)
    ELSE /\ Goto(h, "admin_status")
         /\ loc' = [loc EXCEPT ![h] = [NoLocals EXCEPT !.op = loc[h].op,
                                                      !.id = loc[h].id]]

CallFails == ~quiet /\ Events \cap {"lost", "ambiguous"} # {}
WriteLost == ~quiet /\ "lost" \in Events
WriteAmbiguous == ~quiet /\ "ambiguous" \in Events

KeepStore == UNCHANGED <<users, peers>>
KeepDevice == UNCHANGED <<wg, serverKey>>
KeepReconciler == UNCHANGED <<rpc, rloc>>

\* A query of the handler fails: the error ends the request.
QueryFails(h) ==
    /\ CallFails
    /\ pc[h] \in {"add_user", "add_count", "add_mine", "add_bykey", "rm_find",
                  "rk_find", "admin_find", "rot_list", "en_list"}
    /\ IF pc[h] = "rm_find" THEN RemoveReturn(h) ELSE Return(h)
    /\ KeepStore /\ KeepDevice /\ KeepReconciler /\ UNCHANGED <<used, quiet>>

-----------------------------------------------------------------------------
(* Requests arrive. RequireActiveUser has admitted the user of a peer      *)
(* request; the admin requests name a peer id or the device.               *)

Accept(h, l, v) ==
    /\ ~quiet
    /\ pc[h] = "idle"
    /\ v.op \in Requests[h]
    /\ Goto(h, l)
    /\ loc' = [loc EXCEPT ![h] = v]
    /\ KeepStore /\ KeepDevice /\ KeepReconciler /\ UNCHANGED <<used, quiet>>

RegisterPeer(h) == \E u \in Users, k \in Keys :
    /\ users[u].active
    /\ Accept(h, "add_user", [NoLocals EXCEPT !.op = "add", !.user = u, !.key = k])

DisconnectPeer(h) == \E u \in Users, k \in Keys :
    /\ users[u].active
    /\ Accept(h, "rm_find", [NoLocals EXCEPT !.op = "remove", !.user = u, !.key = k])

ReplaceKey(h) == \E u \in Users, k, n \in Keys :
    /\ users[u].active
    /\ Accept(h, "rk_find", [NoLocals EXCEPT !.op = "replace", !.user = u, !.key = k, !.new = n])

AdminPeer(h) == \E o \in AdminRequests, r \in Rows :
    /\ peers[r].status # "none"
    /\ Accept(h, "admin_find", [NoLocals EXCEPT !.op = o, !.id = r])

AdminRotateWGKey(h) == \E k \in ServerKeys :
    Accept(h, "rot_list", [NoLocals EXCEPT !.op = "rotate", !.skey = k])

AdminEnableWG(h) == Accept(h, "en_list", [NoLocals EXCEPT !.op = "enable"])

\* disableWG is a single device call: zero key, no peers.
AdminDisableWG(h) ==
    /\ ~quiet
    /\ pc[h] = "idle"
    /\ "disable" \in Requests[h]
    /\ wg' \in ReplacePeers(ZeroKey, {})
    /\ KeepStore /\ KeepReconciler /\ UNCHANGED <<used, serverKey, pc, loc, quiet>>

\* UpdateUser is a single UPDATE of max_peers and status.
AdminUpdateUser(h) == \E u \in Users, a \in BOOLEAN, m \in MaxPeersChoices :
    /\ ~quiet
    /\ pc[h] = "idle"
    /\ "update" \in Requests[h]
    /\ users' = [users EXCEPT ![u] = [active |-> a, maxPeers |-> m]]
    /\ KeepDevice /\ KeepReconciler /\ UNCHANGED <<peers, used, pc, loc, quiet>>

Request(h) ==
    \/ RegisterPeer(h) \/ DisconnectPeer(h) \/ ReplaceKey(h)
    \/ AdminPeer(h) \/ AdminRotateWGKey(h) \/ AdminEnableWG(h)
    \/ AdminDisableWG(h) \/ AdminUpdateUser(h)

-----------------------------------------------------------------------------
(* AddPeer: four queries decide, an address is taken, the device is told   *)
(* and then the table. The failure of a call undoes the earlier ones.      *)

\* A query ends the request, or the handler goes on to l with locals v.
Query(h, rejected, l, v) ==
    /\ IF rejected THEN Return(h) ELSE Goto(h, l) /\ loc' = [loc EXCEPT ![h] = v]
    /\ KeepStore /\ KeepDevice /\ KeepReconciler /\ UNCHANGED <<used, quiet>>

AddFindUser(h) ==
    /\ pc[h] = "add_user"
    /\ LET user == users[loc[h].user]
       IN  Query(h, ~user.active, "add_count", [loc[h] EXCEPT !.quota = user.maxPeers])

\* Faulty: one peer more than the limit gets through.
AddCountOffByOne(h) ==
    /\ pc[h] = "add_count"
    /\ Query(h, CountActiveByUserID(peers, loc[h].user) > loc[h].quota, "add_mine", loc[h])

AddCount(h) ==
    /\ pc[h] = "add_count"
    /\ Query(h, CountActiveByUserID(peers, loc[h].user) >= loc[h].quota, "add_mine", loc[h])

AddFindMine(h) ==
    /\ pc[h] = "add_mine"
    /\ Query(h, \E r \in FindActiveByUserID(peers, loc[h].user) : peers[r].key = loc[h].key,
             "add_bykey", loc[h])

\* Faulty: whose row it is goes unchecked.
AddFindByKeyAnyUser(h) ==
    /\ pc[h] = "add_bykey"
    /\ LET found == FindByPublicKey(peers, loc[h].key)
       IN  \/ /\ found = {}
              /\ Query(h, FALSE, "add_alloc", loc[h])
           \/ \E r \in found : Query(h, peers[r].status # "disconnected", "add_alloc",
                                     [loc[h] EXCEPT !.row = r])

\* Faulty: a revoked row is taken for a disconnected one.
AddFindByKeyRevoked(h) ==
    /\ pc[h] = "add_bykey"
    /\ LET found == FindByPublicKey(peers, loc[h].key)
           refused == \E r \in found : \/ peers[r].user # loc[h].user
                                       \/ peers[r].status = "active"
       IN  \/ /\ found = {}
              /\ Query(h, FALSE, "add_alloc", loc[h])
           \/ \E r \in found : Query(h, refused, "add_alloc", [loc[h] EXCEPT !.row = r])

\* A key known under another user, or whose row is active or revoked, is
\* refused; a disconnected row is remembered, to be activated again.
AddFindByKey(h) ==
    /\ pc[h] = "add_bykey"
    /\ LET found == FindByPublicKey(peers, loc[h].key)
           refused == \E r \in found : \/ peers[r].user # loc[h].user
                                       \/ peers[r].status # "disconnected"
       IN  \/ /\ found = {}
              /\ Query(h, FALSE, "add_alloc", loc[h])
           \/ \E r \in found : Query(h, refused, "add_alloc", [loc[h] EXCEPT !.row = r])

AddAllocate(h) ==
    /\ pc[h] = "add_alloc"
    /\ \/ /\ Allocatable(used) = {}
          /\ Return(h)
          /\ UNCHANGED used
       \/ \E a \in Allocatable(used) :
            /\ used' = Reserve(used, a)
            /\ Goto(h, "add_wg")
            /\ loc' = [loc EXCEPT ![h].ip = a]
    /\ KeepStore /\ KeepDevice /\ KeepReconciler /\ UNCHANGED quiet

AddConfigure(h) ==
    /\ pc[h] = "add_wg"
    /\ \/ /\ wg' = AddPeerTo(wg, loc[h].key, loc[h].ip)
          /\ Goto(h, "add_store")
       \/ /\ CallFails
          /\ UNCHANGED wg
          /\ Goto(h, "add_release")
    /\ KeepStore /\ KeepReconciler /\ UNCHANGED <<used, serverKey, loc, quiet>>

\* The tables that Activate, or else Create, can leave; none when the UNIQUE
\* constraint on the key refuses the new row.
AddedTo(t, v) ==
    IF v.row # NoRow THEN {Activate(t, v.row, v.ip)}
    ELSE IF KeyTaken(t, NoRow, v.key) THEN {}
    ELSE {Create(t, r, v.user, v.key, v.ip) : r \in FreshRow(t)}

AddStore(h) ==
    /\ pc[h] = "add_store"
    /\ peers' \in AddedTo(peers, loc[h])
    /\ Return(h)
    /\ KeepDevice /\ KeepReconciler /\ UNCHANGED <<users, used, quiet>>

AddStoreFails(h) ==
    /\ pc[h] = "add_store"
    /\ \/ /\ WriteLost \/ (loc[h].row = NoRow /\ KeyTaken(peers, NoRow, loc[h].key))
          /\ UNCHANGED peers
       \/ /\ WriteAmbiguous
          /\ peers' \in AddedTo(peers, loc[h])
    /\ Goto(h, "add_undo")
    /\ KeepDevice /\ KeepReconciler /\ UNCHANGED <<users, used, loc, quiet>>

\* The error of this device call is ignored.
AddUndo(h) ==
    /\ pc[h] = "add_undo"
    /\ \/ wg' = RemovePeersFrom(wg, {loc[h].key})
       \/ CallFails /\ UNCHANGED wg
    /\ Goto(h, "add_release")
    /\ KeepStore /\ KeepReconciler /\ UNCHANGED <<used, serverKey, loc, quiet>>

AddRelease(h) ==
    /\ pc[h] = "add_release"
    /\ used' = Release(used, loc[h].ip)
    /\ Return(h)
    /\ KeepStore /\ KeepDevice /\ KeepReconciler /\ UNCHANGED quiet

AddPeer(h) ==
    \/ AddFindUser(h) \/ AddCount(h) \/ AddFindMine(h) \/ AddFindByKey(h)
    \/ AddAllocate(h) \/ AddConfigure(h) \/ AddStore(h) \/ AddStoreFails(h)
    \/ AddUndo(h) \/ AddRelease(h)

-----------------------------------------------------------------------------
(* RemovePeer: device, then table, then IPAM; nothing is undone.           *)

RemoveFind(h) ==
    /\ pc[h] = "rm_find"
    /\ LET found == {r \in FindActiveByUserID(peers, loc[h].user) : peers[r].key = loc[h].key}
       IN  \/ /\ found = {}
              /\ RemoveReturn(h)
           \/ \E r \in found :
                /\ Goto(h, "rm_wg")
                /\ loc' = [loc EXCEPT ![h].row = r, ![h].ip = peers[r].ip]
    /\ KeepStore /\ KeepDevice /\ KeepReconciler /\ UNCHANGED <<used, quiet>>

\* Faulty: the address is free as soon as the device is told.
RemoveConfigureReleases(h) ==
    /\ pc[h] = "rm_wg"
    /\ wg' = RemovePeersFrom(wg, {loc[h].key})
    /\ used' = Release(used, loc[h].ip)
    /\ Goto(h, "rm_status")
    /\ KeepStore /\ KeepReconciler /\ UNCHANGED <<serverKey, loc, quiet>>

RemoveConfigure(h) ==
    /\ pc[h] = "rm_wg"
    /\ \/ /\ wg' = RemovePeersFrom(wg, {loc[h].key})
          /\ Goto(h, "rm_status")
          /\ UNCHANGED loc
       \/ /\ CallFails
          /\ UNCHANGED wg
          /\ RemoveReturn(h)
    /\ KeepStore /\ KeepReconciler /\ UNCHANGED <<used, serverKey, quiet>>

\* Faulty: the address is released even if the row stays active.
RemoveStatusUnchecked(h) ==
    /\ pc[h] = "rm_status"
    /\ \/ peers' = UpdateStatus(peers, loc[h].row, "disconnected")
       \/ WriteLost /\ UNCHANGED peers
    /\ Goto(h, "rm_release")
    /\ KeepDevice /\ KeepReconciler /\ UNCHANGED <<users, used, loc, quiet>>

RemoveStatus(h) ==
    /\ pc[h] = "rm_status"
    /\ \/ /\ peers' = UpdateStatus(peers, loc[h].row, "disconnected")
          /\ Goto(h, "rm_release")
          /\ UNCHANGED loc
       \/ /\ WriteLost
          /\ UNCHANGED peers
          /\ RemoveReturn(h)
       \/ /\ WriteAmbiguous
          /\ peers' = UpdateStatus(peers, loc[h].row, "disconnected")
          /\ RemoveReturn(h)
    /\ KeepDevice /\ KeepReconciler /\ UNCHANGED <<users, used, quiet>>

RemoveRelease(h) ==
    /\ pc[h] = "rm_release"
    /\ used' = Release(used, loc[h].ip)
    /\ RemoveReturn(h)
    /\ KeepStore /\ KeepDevice /\ KeepReconciler /\ UNCHANGED quiet

RemovePeer(h) ==
    RemoveFind(h) \/ RemoveConfigure(h) \/ RemoveStatus(h) \/ RemoveRelease(h)

-----------------------------------------------------------------------------
(* AdminDisconnectPeer and AdminRevokePeer: look the peer up, let          *)
(* RemovePeer take an active one down, then write the final status.        *)

AdminFind(h) ==
    /\ pc[h] = "admin_find"
    /\ LET p == peers[loc[h].id]
       IN  \/ /\ p.status = "active"
              /\ Query(h, FALSE, "rm_find", [loc[h] EXCEPT !.user = p.user, !.key = p.key])
           \/ /\ p.status # "active"
              /\ Query(h, FALSE, "admin_status", loc[h])

AdminStatus(h) ==
    /\ pc[h] = "admin_status"
    /\ \/ peers' = UpdateStatus(peers, loc[h].id,
                    IF loc[h].op = "revoke" THEN "revoked" ELSE "disconnected")
       \/ WriteLost /\ UNCHANGED peers
    /\ Return(h)
    /\ KeepDevice /\ KeepReconciler /\ UNCHANGED <<users, used, quiet>>

-----------------------------------------------------------------------------
(* ReplaceKey: device first, then table; nothing is undone.                *)

ReplaceFind(h) ==
    /\ pc[h] = "rk_find"
    /\ LET found == {r \in FindActiveByUserID(peers, loc[h].user) : peers[r].key = loc[h].key}
       IN  \/ /\ found = {}
              /\ Query(h, TRUE, "rk_wg", loc[h])
           \/ \E r \in found :
                Query(h, FALSE, "rk_wg", [loc[h] EXCEPT !.row = r, !.ip = peers[r].ip])

ReplaceConfigure(h) ==
    /\ pc[h] = "rk_wg"
    /\ \/ /\ wg' = AddPeerTo(RemovePeersFrom(wg, {loc[h].key}), loc[h].new, loc[h].ip)
          /\ Goto(h, "rk_store")
          /\ UNCHANGED loc
       \/ /\ CallFails
          /\ UNCHANGED wg
          /\ Return(h)
    /\ KeepStore /\ KeepReconciler /\ UNCHANGED <<used, serverKey, quiet>>

ReplaceStore(h) ==
    /\ pc[h] = "rk_store"
    /\ \/ /\ ~KeyTaken(peers, loc[h].row, loc[h].new)
          /\ peers' = UpdatePublicKey(peers, loc[h].row, loc[h].new)
       \/ /\ WriteLost \/ KeyTaken(peers, loc[h].row, loc[h].new)
          /\ UNCHANGED peers
    /\ Return(h)
    /\ KeepDevice /\ KeepReconciler /\ UNCHANGED <<users, used, quiet>>

-----------------------------------------------------------------------------
(* RotateServerKey and enableWG: list the active peers, rebuild the device *)
(* from the list. Rotation then assigns the manager's own copy of the key, *)
(* without a lock: two halves, between which another goroutine may read.   *)

ListPeers(h, l) ==
    Query(h, FALSE, l, [loc[h] EXCEPT !.list = ListActive(peers)])

RotateList(h) == pc[h] = "rot_list" /\ ListPeers(h, "rot_wg")

\* Faulty: the manager's own copy of the key is forgotten.
RotateConfigureOnly(h) ==
    /\ pc[h] = "rot_wg"
    /\ wg' \in ReplacePeers(<<loc[h].skey, loc[h].skey>>, loc[h].list)
    /\ Return(h)
    /\ KeepStore /\ KeepReconciler /\ UNCHANGED <<used, serverKey, quiet>>

RotateConfigure(h) ==
    /\ pc[h] = "rot_wg"
    /\ \/ /\ wg' \in ReplacePeers(<<loc[h].skey, loc[h].skey>>, loc[h].list)
          /\ Goto(h, "rot_lo")
          /\ loc' = [loc EXCEPT ![h].list = {}]
       \/ /\ CallFails
          /\ UNCHANGED wg
          /\ Return(h)
    /\ KeepStore /\ KeepReconciler /\ UNCHANGED <<used, serverKey, quiet>>

RotateStoreLow(h) ==
    /\ pc[h] = "rot_lo"
    /\ serverKey' = <<loc[h].skey, serverKey[2]>>
    /\ Goto(h, "rot_hi")
    /\ KeepStore /\ KeepReconciler /\ UNCHANGED <<used, wg, loc, quiet>>

RotateStoreHigh(h) ==
    /\ pc[h] = "rot_hi"
    /\ serverKey' = <<serverKey[1], loc[h].skey>>
    /\ Return(h)
    /\ KeepStore /\ KeepReconciler /\ UNCHANGED <<used, wg, quiet>>

EnableList(h) == pc[h] = "en_list" /\ ListPeers(h, "en_wg")

EnableConfigure(h) ==
    /\ pc[h] = "en_wg"
    /\ \/ wg' \in ReplacePeers(serverKey, loc[h].list)
       \/ CallFails /\ UNCHANGED wg
    /\ Return(h)
    /\ KeepStore /\ KeepReconciler /\ UNCHANGED <<used, serverKey, quiet>>

HandlerStep(h) ==
    \/ QueryFails(h) \/ AddPeer(h) \/ RemovePeer(h)
    \/ AdminFind(h) \/ AdminStatus(h)
    \/ ReplaceFind(h) \/ ReplaceConfigure(h) \/ ReplaceStore(h)
    \/ RotateList(h) \/ RotateConfigure(h) \/ RotateStoreLow(h) \/ RotateStoreHigh(h)
    \/ EnableList(h) \/ EnableConfigure(h)

-----------------------------------------------------------------------------
(* The reconciliation loop: every five minutes, Reconcile.                 *)

ReconcileList ==
    /\ rpc = "idle"
    /\ LET list == ListActive(peers)
       IN  rloc' = [NoReconcile EXCEPT !.list = list, !.todo = {p.ip : p \in list}]
    /\ rpc' = "reserve"
    /\ KeepStore /\ KeepDevice /\ UNCHANGED <<used, pc, loc, quiet>>

ReconcileReserve == \E a \in rloc.todo :
    /\ rpc = "reserve"
    /\ used' = Reserve(used, a)
    /\ rloc' = [rloc EXCEPT !.todo = @ \ {a}]
    /\ KeepStore /\ KeepDevice /\ UNCHANGED <<rpc, pc, loc, quiet>>

\* Faulty: what the device has and the table has not is never looked for.
StrayIgnored(list, keys) == {}

\* Keys only are compared: a listed key that the device has is left as it is.
Missing(list, keys) == {p \in list : p.key \notin keys}
Stray(list, keys) == keys \ {p.key : p \in list}

ReconcileDevice ==
    /\ rpc = "reserve"
    /\ rloc.todo = {}
    /\ LET add == Missing(rloc.list, wg.peers)
           remove == Stray(rloc.list, wg.peers)
       IN  /\ rloc' = [NoReconcile EXCEPT !.add = add, !.remove = remove]
           /\ rpc' = IF add = {} /\ remove = {} THEN "idle" ELSE "configure"
    /\ KeepStore /\ KeepDevice /\ UNCHANGED <<used, pc, loc, quiet>>

ReconcileConfigure ==
    /\ rpc = "configure"
    /\ wg' \in AddPeersTo(RemovePeersFrom(wg, rloc.remove), rloc.add)
    /\ rpc' = "idle"
    /\ rloc' = NoReconcile
    /\ KeepStore /\ UNCHANGED <<used, serverKey, pc, loc, quiet>>

\* Any of its calls fails, UpdateLastSeen included: the run is given up.
ReconcileFails ==
    /\ CallFails
    /\ rpc # "idle"
    /\ rpc' = "idle"
    /\ rloc' = NoReconcile
    /\ KeepStore /\ KeepDevice /\ UNCHANGED <<used, pc, loc, quiet>>

Reconcile ==
    ReconcileList \/ ReconcileReserve \/ ReconcileDevice \/ ReconcileConfigure

-----------------------------------------------------------------------------
(* The process, and the specification.                                     *)

\* Faulty: the server's address is not reserved.
StartedUnreserved ==
    /\ used' = NewIPAM
    /\ serverKey' = <<ConfigKey, ConfigKey>>
    /\ wg' \in ReplacePeers(<<ConfigKey, ConfigKey>>, ListActive(peers))
    /\ pc' = [h \in Handlers |-> "idle"]
    /\ loc' = [h \in Handlers |-> NoLocals]
    /\ rpc' = "idle"
    /\ rloc' = NoReconcile

\* What main does before it serves: a new IPAM that knows only the server's
\* address, the configured key, and enableWG from the peers table.
Started ==
    /\ used' = Reserve(NewIPAM, ServerAddr)
    /\ serverKey' = <<ConfigKey, ConfigKey>>
    /\ wg' \in ReplacePeers(<<ConfigKey, ConfigKey>>, ListActive(peers))
    /\ pc' = [h \in Handlers |-> "idle"]
    /\ loc' = [h \in Handlers |-> NoLocals]
    /\ rpc' = "idle"
    /\ rloc' = NoReconcile

Restart ==
    /\ ~quiet
    /\ "restart" \in Events
    /\ Started
    /\ KeepStore /\ UNCHANGED quiet

Settle ==
    /\ ~quiet
    /\ "settle" \in Events
    /\ quiet' = TRUE
    /\ KeepStore /\ KeepDevice /\ KeepReconciler /\ UNCHANGED <<used, pc, loc>>

\* A server started on an empty peers table.
Init ==
    /\ users = [u \in Users |-> [active |-> TRUE, maxPeers |-> DefaultMaxPeers]]
    /\ peers = [r \in Rows |-> NoPeer]
    /\ used = Reserve(NewIPAM, ServerAddr)
    /\ wg = [key |-> <<ConfigKey, ConfigKey>>, peers |-> {}, route |-> NoRoutes]
    /\ serverKey = <<ConfigKey, ConfigKey>>
    /\ pc = [h \in Handlers |-> "idle"]
    /\ loc = [h \in Handlers |-> NoLocals]
    /\ rpc = "idle"
    /\ rloc = NoReconcile
    /\ quiet = FALSE

Next ==
    \/ \E h \in Handlers : Request(h) \/ HandlerStep(h)
    \/ Reconcile \/ ReconcileFails
    \/ Restart \/ Settle

Spec == Init /\ [][Next]_vars

\* A goroutine whose calls return goes on, and the ticker fires again.
Fairness ==
    /\ \A h \in Handlers : WF_vars(HandlerStep(h))
    /\ WF_vars(Reconcile)

LiveSpec == Spec /\ Fairness

-----------------------------------------------------------------------------
(* Safety.                                                                 *)

\* Two active peers never have the same address: Allocate skips the addresses
\* that active peers hold.
NoSharedAddress ==
    \A r, s \in Active(peers) : r # s => peers[r].ip # peers[s].ip

\* No two active peers hold the same address, and the IPAM knows every address
\* that an active peer holds, so Allocate will not hand it out again. AddPeer
\* takes an address before the row exists and RemovePeer gives it back after
\* the row is inactive, while Reconcile reserves from a list that may be old.
ActiveAddressesDistinct ==
    /\ NoSharedAddress
    /\ \A r \in Active(peers) : peers[r].ip \in used

\* Whatever runs concurrently, fails or restarts, the address main reserves for
\* the server stays reserved and is never routed to a client.
ServerAddressReserved ==
    /\ ServerAddr \in used
    /\ wg.route[ServerAddr] = NoKey

\* A user never has more active peers than the account's max_peers allows (as
\* long as no administrator lowers it).
PeerLimit == \A u \in Users : CountActiveByUserID(peers, u) <= users[u].maxPeers

\* A step by which a user's count of active peers grows leaves it within the
\* max_peers that the AddPeer taking the step has read.
WithinQuota ==
    [][\A u \in Users :
         CountActiveByUserID(peers', u) > CountActiveByUserID(peers, u)
           => \E h \in Handlers :
                /\ pc[h] = "add_store"
                /\ loc[h].user = u
                /\ CountActiveByUserID(peers', u) <= loc[h].quota]_vars

\* A request of a user changes no other user's rows, whichever rows and keys
\* it found before others changed them.
UsersKeepToOwnRows ==
    [][\A h \in Handlers, r \in Rows :
         loc[h].op \in PeerRequests /\ pc'[h] # pc[h] /\ peers'[r] # peers[r]
           => peers'[r].user = loc[h].user
              /\ peers[r].user \in {loc[h].user, NoUser}]_vars

\* A revoked row keeps its status and its key until an administrator disconnects
\* it, so that the key stays refused: neither the activation nor the
\* disconnection nor the new key of a row that was found in another status,
\* several calls ago, takes a revocation back.
RevokedStaysRevoked ==
    [][\A r \in Rows :
         /\ peers[r].status = "revoked"
         /\ peers'[r].status # "revoked" \/ peers'[r].key # peers[r].key
         => \E h \in Handlers : /\ pc[h] = "admin_status" /\ pc'[h] # pc[h]
                               /\ loc[h].op = "disconnect" /\ loc[h].id = r]_vars

\* When no request is changing the device's key, the key the manager tells to
\* clients (ServerPublicKey) is the one the device uses, unless it is disabled.
ServerKeyInStep ==
    (\A h \in Handlers : pc[h] \notin {"rot_lo", "rot_hi"})
        => wg.key \in {serverKey, ZeroKey}

\* The peers table is the ledger of PeerLedger: whatever calls the requests make,
\* each write of the table is one of the ledger's steps.
Ledger == INSTANCE PeerLedger WITH book <- peers, Addresses <- Pool \ {ServerAddr}
ImplementsPeerLedger == Ledger!LedgerSpec

-----------------------------------------------------------------------------
(* Liveness.                                                               *)

\* Once requests and failures stop, the device comes to have the active peers
\* of the table and no others, for good, whatever was half done before.
Converges == quiet ~> [](wg.peers = {peers[r].key : r \in Active(peers)})

\* The same of the allowed addresses: the device comes to route every active
\* peer's address to that peer.
RoutesConverge ==
    quiet ~> [](\A r \in Active(peers) : wg.route[peers[r].ip] = peers[r].key)

=============================================================================
