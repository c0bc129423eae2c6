------------------------- MODULE PeerManager_proof -------------------------
(***************************************************************************)
(* Proofs about PeerManager for every number of users, keys, rows,         *)
(* handlers and addresses, every mix of requests and every kind of failure.*)
(*                                                                         *)
(* Neither TypeOK nor ServerAddressReserved is inductive alone. That a     *)
(* released address is never the server's depends on where the handler     *)
(* got it: from Allocate, or from a row it found many calls ago. So the    *)
(* inductive invariant says what a handler's variables may hold at each    *)
(* of its steps, and what the rows of the table and the copies of its      *)
(* active rows may hold.                                                   *)
(*                                                                         *)
(* Five properties hold only as long as certain requests are not at        *)
(* certain calls at once. The theorems about them say which: each has a    *)
(* hypothesis about the states that a behaviour goes through (CountsApart, *)
(* RemovalsApart, RevocationsApart, RotationsApart), and an inductive      *)
(* invariant of its own beside IInv. The code keeps no request apart from  *)
(* another: what goes wrong otherwise is left to runs of the model checker.*)
(***************************************************************************)
EXTENDS PeerManager, FiniteSetTheorems, TLAPS

ClientAddrs == Subnet \ {ServerAddr}
ClientPeers == [key : Keys, ip : ClientAddrs]

Present(t) == {r \in Rows : t[r].status # "none"}

AddSteps == {"add_user", "add_count", "add_mine", "add_bykey", "add_alloc",
             "add_wg", "add_store", "add_undo", "add_release"}
RemoveSteps == {"rm_find", "rm_wg", "rm_status", "rm_release"}
ReplaceSteps == {"rk_find", "rk_wg", "rk_store"}
RotateSteps == {"rot_list", "rot_wg", "rot_lo", "rot_hi"}
\* Steps of a handler that holds an address, and of one that has found a row.
AddrSteps == {"add_wg", "add_store", "add_undo", "add_release",
              "rm_wg", "rm_status", "rm_release", "rk_wg", "rk_store"}
RowSteps == {"rm_wg", "rm_status", "rm_release", "rk_wg", "rk_store"}

\* What locals v may hold at step l, when t is the peers table.
HandlerOK(l, v, t) ==
    /\ v.list \subseteq ClientPeers
    /\ l \in AddSteps => v.op = "add" /\ v.user \in Users /\ v.key \in Keys
    /\ l \in RemoveSteps => /\ v.key \in Keys
                            /\ v.op = "remove" \/ (v.op \in AdminRequests /\ v.id \in Present(t))
    /\ l \in ReplaceSteps => v.op = "replace" /\ v.key \in Keys /\ v.new \in Keys
    /\ l \in {"admin_find", "admin_status"} =>
            v.op \in AdminRequests /\ v.id \in Present(t) /\ v.row = NoRow
    /\ l \in RotateSteps => v.skey \in ServerKeys
    /\ l \in AddrSteps => v.ip \in ClientAddrs
    /\ l \in RowSteps => v.row \in Present(t)
    /\ v.row # NoRow => v.row \in Present(t) /\ t[v.row].user = v.user

\* What the parts of the state may hold.
TableOK(t) ==
    /\ t \in [Rows -> Peer]
    /\ \A r \in Present(t) : t[r].user \in Users /\ t[r].key \in Keys /\ t[r].ip \in ClientAddrs
    /\ \A r \in Rows \ Present(t) : t[r].user = NoUser

UsedOK(us) == us \subseteq Subnet /\ ServerAddr \in us

DeviceOK(d) == d \in Device /\ d.route[ServerAddr] = NoKey

HandlersOK(p, ls, t) ==
    /\ p \in [Handlers -> Labels]
    /\ ls \in [Handlers -> Locals]
    /\ \A h \in Handlers : HandlerOK(p[h], ls[h], t)

ReconcilerOK(l, v) ==
    /\ l \in {"idle", "reserve", "configure"}
    /\ v \in ReconcileLocals
    /\ v.list \subseteq ClientPeers
    /\ v.add \subseteq ClientPeers

\* The inductive invariant.
IInv ==
    /\ users \in [Users -> User]
    /\ TableOK(peers)
    /\ UsedOK(used)
    /\ DeviceOK(wg)
    /\ serverKey \in PrivateKeys
    /\ HandlersOK(pc, loc, peers)
    /\ ReconcilerOK(rpc, rloc)
    /\ quiet \in BOOLEAN

\* Table s comes from t by statements that delete no row and change no owner.
Follows(s, t) ==
    \A r \in Present(t) : r \in Present(s) /\ s[r].user = t[r].user

-----------------------------------------------------------------------------
(* Lemmas about the operators of IPAM, WireGuard and PeerStore.            *)

\* Allocate returns an address of the pool that is not taken, so never the
\* server's while that is reserved.
LEMMA AllocateClient ==
    ASSUME NEW us, UsedOK(us), NEW a \in Allocatable(us)
    PROVE  a \in ClientAddrs
BY DEF UsedOK, Allocatable, Free, Pool, ClientAddrs

\* Taking an address keeps the set well-formed; so does releasing a client's.
LEMMA UsedSteps ==
    ASSUME NEW us, UsedOK(us)
    PROVE  /\ \A a \in Subnet : UsedOK(Reserve(us, a))
           /\ \A a \in ClientAddrs : UsedOK(Release(us, a))
BY DEF UsedOK, Reserve, Release, ClientAddrs

\* A device of client peers stays one when a client peer is added ...
LEMMA AddPeerOK ==
    ASSUME NEW d, DeviceOK(d), NEW k \in Keys, NEW a \in ClientAddrs
    PROVE  DeviceOK(AddPeerTo(d, k, a))
BY SubnetAssumption DEF DeviceOK, Device, AddPeerTo, ClientAddrs, Subnet

\* ... and when peers are removed, whichever they are.
LEMMA RemovePeersOK ==
    ASSUME NEW d, DeviceOK(d), NEW ks
    PROVE  DeviceOK(RemovePeersFrom(d, ks))
<1>1. RemovePeersFrom(d, ks) \in Device
    BY DEF DeviceOK, Device, RemovePeersFrom
<1>2. RemovePeersFrom(d, ks).route[ServerAddr] = NoKey
    BY SubnetAssumption DEF DeviceOK, Device, RemovePeersFrom, Subnet
<1> QED
    BY <1>1, <1>2 DEF DeviceOK

\* A list of client peers gives the server's address to nobody.
LEMMA AddPeersOK ==
    ASSUME NEW d, DeviceOK(d), NEW list \in SUBSET ClientPeers,
           NEW e \in AddPeersTo(d, list)
    PROVE  DeviceOK(e)
<1>1. PICK s \in RoutesAfter(d.route, list) :
            e = [d EXCEPT !.peers = @ \cup {p.key : p \in list}, !.route = s]
    BY DEF AddPeersTo
<1>2. {p.key : p \in list} \subseteq Keys
    BY DEF ClientPeers
<1>3. s \in [Subnet -> Keys \cup {NoKey}]
    BY <1>1 DEF RoutesAfter
<1>4. e \in Device
    BY <1>1, <1>2, <1>3 DEF DeviceOK, Device
<1>5. Claimants(list, ServerAddr) = {}
    BY DEF Claimants, ClientPeers, ClientAddrs
<1>6. ServerAddr \in Subnet
    BY SubnetAssumption DEF Subnet
<1>7. s[ServerAddr] = d.route[ServerAddr]
    BY <1>1, <1>5, <1>6 DEF RoutesAfter
<1>8. e.route = s
    BY <1>1 DEF DeviceOK, Device
<1> QED
    BY <1>4, <1>7, <1>8 DEF DeviceOK

\* A device rebuilt from a list of client peers routes nothing to the server's address.
LEMMA ReplacePeersOK ==
    ASSUME NEW k \in PrivateKeys \cup {ZeroKey}, NEW list \in SUBSET ClientPeers,
           NEW e \in ReplacePeers(k, list)
    PROVE  DeviceOK(e)
<1> DEFINE d == [key |-> k, peers |-> {}, route |-> NoRoutes]
<1>1. ServerAddr \in Subnet
    BY SubnetAssumption DEF Subnet
<1>2. DeviceOK(d)
    BY <1>1 DEF DeviceOK, Device, NoRoutes
<1> QED
    BY <1>2, AddPeersOK DEF ReplacePeers

\* ListActive copies only client peers.
LEMMA ListActiveOK ==
    ASSUME NEW t, TableOK(t)
    PROVE  ListActive(t) \subseteq ClientPeers
BY DEF TableOK, ListActive, ClientPeers, Active, Present

\* The statements on the peers table: Create adds a row of a client.
LEMMA CreateOK ==
    ASSUME NEW t, TableOK(t), NEW r \in FreshRow(t), NEW u \in Users, NEW k \in Keys,
           NEW a \in ClientAddrs
    PROVE  TableOK(Create(t, r, u, k, a)) /\ Follows(Create(t, r, u, k, a), t)
BY DEF TableOK, Follows, Present, Create, FreshRow, Unused, Peer, Statuses, ClientAddrs,
       MaybeAddr

\* Activate keeps the table well-formed, every row and its owner.
LEMMA ActivateOK ==
    ASSUME NEW t, TableOK(t), NEW r \in Present(t), NEW a \in ClientAddrs
    PROVE  TableOK(Activate(t, r, a)) /\ Follows(Activate(t, r, a), t)
<1> DEFINE p == [t[r] EXCEPT !.ip = a, !.status = "active"]
<1>1. t \in [Rows -> Peer] /\ r \in Rows /\ t[r] \in Peer
    BY DEF TableOK, Present
<1>2. p \in Peer /\ p.user = t[r].user /\ p.key = t[r].key /\ p.ip = a /\ p.status = "active"
    BY <1>1 DEF Peer, Statuses, ClientAddrs, MaybeAddr
<1>3. Activate(t, r, a) = [t EXCEPT ![r] = p]
    BY <1>1 DEF Activate
<1> HIDE DEF p
<1>4. /\ Activate(t, r, a) \in [Rows -> Peer]
      /\ \A q \in Rows : Activate(t, r, a)[q] = IF q = r THEN p ELSE t[q]
    BY <1>1, <1>2, <1>3
<1> QED
    BY <1>1, <1>2, <1>4 DEF TableOK, Follows, Present

\* So does a status other than "none" ...
LEMMA UpdateStatusOK ==
    ASSUME NEW t, TableOK(t), NEW r \in Present(t), NEW s \in Statuses \ {"none"}
    PROVE  TableOK(UpdateStatus(t, r, s)) /\ Follows(UpdateStatus(t, r, s), t)
BY DEF TableOK, Follows, Present, UpdateStatus, Peer, Statuses

\* ... and a new key.
LEMMA UpdatePublicKeyOK ==
    ASSUME NEW t, TableOK(t), NEW r \in Present(t), NEW k \in Keys
    PROVE  TableOK(UpdatePublicKey(t, r, k)) /\ Follows(UpdatePublicKey(t, r, k), t)
BY DEF TableOK, Follows, Present, UpdatePublicKey, Peer

\* A table follows itself.
LEMMA FollowsSelf == \A t : Follows(t, t)
BY DEF Follows

-----------------------------------------------------------------------------
(* Lemmas about handlers.                                                  *)

\* What a handler may hold does not depend on what others do to the table.
LEMMA HandlerFollows ==
    ASSUME NEW l, NEW v, NEW t, NEW s, HandlerOK(l, v, t), Follows(s, t)
    PROVE  HandlerOK(l, v, s)
BY DEF HandlerOK, Follows

\* One handler moves to step l with locals v; the others keep what they may hold.
LEMMA OneHandlerMoves ==
    ASSUME IInv, NEW h \in Handlers, NEW l \in Labels, NEW v \in Locals,
           Follows(peers', peers), Goto(h, l), loc' = [loc EXCEPT ![h] = v],
           HandlerOK(l, v, peers')
    PROVE  HandlersOK(pc', loc', peers')
<1>1. HandlersOK(pc, loc, peers)
    BY DEF IInv
<1>2. pc' \in [Handlers -> Labels] /\ loc' \in [Handlers -> Locals]
    BY <1>1 DEF HandlersOK, Goto
<1>3. ASSUME NEW g \in Handlers PROVE HandlerOK(pc'[g], loc'[g], peers')
    <2>1. CASE g = h
        BY <1>1, <2>1 DEF HandlersOK, Goto
    <2>2. CASE g # h
        <3>1. pc'[g] = pc[g] /\ loc'[g] = loc[g]
            BY <1>1, <2>2 DEF HandlersOK, Goto
        <3>2. HandlerOK(pc[g], loc[g], peers)
            BY <1>1 DEF HandlersOK
        <3> QED
            BY <3>1, <3>2, HandlerFollows
    <2> QED
        BY <2>1, <2>2
<1> QED
    BY <1>2, <1>3 DEF HandlersOK

\* An idle handler holds nothing.
LEMMA NoLocalsOK ==
    /\ NoLocals \in Locals
    /\ "idle" \in Labels
    /\ \A t : HandlerOK("idle", NoLocals, t)
BY NullsAssumption DEF NoLocals, Locals, Labels, HandlerOK, MaybeAddr, AddSteps, RemoveSteps,
    ReplaceSteps, RotateSteps, AddrSteps, RowSteps

\* A handler that answers its request leaves the handlers well-formed.
LEMMA HandlerReturns ==
    ASSUME IInv, NEW h \in Handlers, Follows(peers', peers), Return(h)
    PROVE  HandlersOK(pc', loc', peers')
BY NoLocalsOK, OneHandlerMoves DEF Return

\* RemovePeer returns to the user or to the admin handler.
LEMMA RemoveReturns ==
    ASSUME IInv, NEW h \in Handlers, Follows(peers', peers), pc[h] \in RemoveSteps,
           RemoveReturn(h)
    PROVE  HandlersOK(pc', loc', peers')
<1>1. CASE loc[h].op = "remove"
    BY <1>1, HandlerReturns DEF RemoveReturn
<1>2. CASE loc[h].op # "remove"
    <2> DEFINE v == [NoLocals EXCEPT !.op = loc[h].op, !.id = loc[h].id]
    <2>1. HandlerOK(pc[h], loc[h], peers) /\ loc[h] \in Locals
        BY DEF IInv, HandlersOK
    <2>2. loc[h].op \in AdminRequests /\ loc[h].id \in Present(peers)
        BY <1>2, <2>1 DEF HandlerOK
    <2>3. /\ v \in Locals
          /\ v.op = loc[h].op /\ v.id = loc[h].id /\ v.list = {} /\ v.row = NoRow
        BY <2>1, NoLocalsOK DEF NoLocals, Locals
    <2>4. Goto(h, "admin_status") /\ loc' = [loc EXCEPT ![h] = v]
        BY <1>2 DEF RemoveReturn
    <2> HIDE DEF v
    <2>5. HandlerOK("admin_status", v, peers)
        BY <2>2, <2>3 DEF HandlerOK, AddSteps, RemoveSteps, ReplaceSteps, RotateSteps,
            AddrSteps, RowSteps
    <2>6. HandlerOK("admin_status", v, peers') /\ "admin_status" \in Labels
        BY <2>5, HandlerFollows DEF Labels
    <2> QED
        BY <2>3, <2>4, <2>6, OneHandlerMoves
<1> QED
    BY <1>1, <1>2

\* Steps that touch nothing but the handler: it returns, or moves on.
LEMMA OnlyHandlersChange ==
    ASSUME IInv, HandlersOK(pc', loc', peers'), KeepStore, KeepDevice, KeepReconciler,
           UNCHANGED <<used, quiet>>
    PROVE  IInv'
BY DEF IInv, KeepStore, KeepDevice, KeepReconciler

\* A query by which a handler goes on keeps the invariant ...
LEMMA OnlyMoves ==
    ASSUME IInv, NEW h \in Handlers, NEW l \in Labels, NEW v \in Locals,
           Query(h, FALSE, l, v), HandlerOK(l, v, peers)
    PROVE  IInv'
<1>1. peers' = peers
    BY DEF Query, KeepStore
<1>2. Follows(peers', peers) /\ HandlerOK(l, v, peers')
    BY <1>1, FollowsSelf
<1>3. HandlersOK(pc', loc', peers')
    BY <1>2, OneHandlerMoves DEF Query
<1> QED
    BY <1>3, OnlyHandlersChange DEF Query

\* ... and so does one that ends its request.
LEMMA OnlyReturns ==
    ASSUME IInv, NEW h \in Handlers, NEW l, NEW v, Query(h, TRUE, l, v)
    PROVE  IInv'
<1>1. peers' = peers
    BY DEF Query, KeepStore
<1>2. Follows(peers', peers)
    BY <1>1, FollowsSelf
<1>3. HandlersOK(pc', loc', peers')
    BY <1>2, HandlerReturns DEF Query
<1> QED
    BY <1>3, OnlyHandlersChange DEF Query

-----------------------------------------------------------------------------
(* Every step keeps the invariant: requests.                               *)

\* Accepting a request is such a step.
LEMMA AcceptOK ==
    ASSUME IInv, NEW h \in Handlers, NEW l \in Labels, NEW v \in Locals,
           Accept(h, l, v), HandlerOK(l, v, peers)
    PROVE  IInv'
<1>1. Query(h, FALSE, l, v)
    BY DEF Accept, Query
<1> QED
    BY <1>1, OnlyMoves

\* Every request that arrives keeps the invariant.
LEMMA RequestOK ==
    ASSUME IInv, NEW h \in Handlers, Request(h)
    PROVE  IInv'
<1> USE DEF AddSteps, RemoveSteps, ReplaceSteps, RotateSteps, AddrSteps, RowSteps
<1>1. CASE RegisterPeer(h)
    <2>1. PICK u \in Users, k \in Keys :
            Accept(h, "add_user", [NoLocals EXCEPT !.op = "add", !.user = u, !.key = k])
        BY <1>1 DEF RegisterPeer
    <2> DEFINE v == [NoLocals EXCEPT !.op = "add", !.user = u, !.key = k]
    <2>2. /\ v \in Locals /\ v.op = "add" /\ v.user = u /\ v.key = k
          /\ v.list = {} /\ v.row = NoRow
        BY NoLocalsOK DEF NoLocals, Locals, AllRequests, PeerRequests
    <2> HIDE DEF v
    <2>3. HandlerOK("add_user", v, peers)
        BY <2>2 DEF HandlerOK
    <2> QED
        BY <2>1, <2>2, <2>3, AcceptOK DEF v, Labels
<1>2. CASE DisconnectPeer(h)
    <2>1. PICK u \in Users, k \in Keys :
            Accept(h, "rm_find", [NoLocals EXCEPT !.op = "remove", !.user = u, !.key = k])
        BY <1>2 DEF DisconnectPeer
    <2> DEFINE v == [NoLocals EXCEPT !.op = "remove", !.user = u, !.key = k]
    <2>2. /\ v \in Locals /\ v.op = "remove" /\ v.user = u /\ v.key = k
          /\ v.list = {} /\ v.row = NoRow
        BY NoLocalsOK DEF NoLocals, Locals, AllRequests, PeerRequests
    <2> HIDE DEF v
    <2>3. HandlerOK("rm_find", v, peers)
        BY <2>2 DEF HandlerOK
    <2> QED
        BY <2>1, <2>2, <2>3, AcceptOK DEF v, Labels
<1>3. CASE ReplaceKey(h)
    <2>1. PICK u \in Users, k \in Keys, n \in Keys :
            Accept(h, "rk_find",
                   [NoLocals EXCEPT !.op = "replace", !.user = u, !.key = k, !.new = n])
        BY <1>3 DEF ReplaceKey
    <2> DEFINE v == [NoLocals EXCEPT !.op = "replace", !.user = u, !.key = k, !.new = n]
    <2>2. /\ v \in Locals /\ v.op = "replace" /\ v.user = u /\ v.key = k /\ v.new = n
          /\ v.list = {} /\ v.row = NoRow
        BY NoLocalsOK DEF NoLocals, Locals, AllRequests, PeerRequests
    <2> HIDE DEF v
    <2>3. HandlerOK("rk_find", v, peers)
        BY <2>2 DEF HandlerOK
    <2> QED
        BY <2>1, <2>2, <2>3, AcceptOK DEF v, Labels
<1>4. CASE AdminPeer(h)
    <2>1. PICK o \in AdminRequests, r \in Rows :
            /\ peers[r].status # "none"
            /\ Accept(h, "admin_find", [NoLocals EXCEPT !.op = o, !.id = r])
        BY <1>4 DEF AdminPeer
    <2> DEFINE v == [NoLocals EXCEPT !.op = o, !.id = r]
    <2>2. /\ v \in Locals /\ v.op = o /\ v.id = r /\ v.list = {} /\ v.row = NoRow
        BY NoLocalsOK DEF NoLocals, Locals, AllRequests
    <2> HIDE DEF v
    <2>3. HandlerOK("admin_find", v, peers)
        BY <2>1, <2>2 DEF HandlerOK, Present
    <2> QED
        BY <2>1, <2>2, <2>3, AcceptOK DEF v, Labels
<1>5. CASE AdminRotateWGKey(h)
    <2>1. PICK k \in ServerKeys :
            Accept(h, "rot_list", [NoLocals EXCEPT !.op = "rotate", !.skey = k])
        BY <1>5 DEF AdminRotateWGKey
    <2> DEFINE v == [NoLocals EXCEPT !.op = "rotate", !.skey = k]
    <2>2. v \in Locals /\ v.skey = k /\ v.list = {} /\ v.row = NoRow
        BY NoLocalsOK DEF NoLocals, Locals, AllRequests, DeviceRequests
    <2> HIDE DEF v
    <2>3. HandlerOK("rot_list", v, peers)
        BY <2>2 DEF HandlerOK
    <2> QED
        BY <2>1, <2>2, <2>3, AcceptOK DEF v, Labels
<1>6. CASE AdminEnableWG(h)
    <2> DEFINE v == [NoLocals EXCEPT !.op = "enable"]
    <2>2. v \in Locals /\ v.list = {} /\ v.row = NoRow
        BY NoLocalsOK DEF NoLocals, Locals, AllRequests, DeviceRequests
    <2> HIDE DEF v
    <2>3. HandlerOK("en_list", v, peers)
        BY <2>2 DEF HandlerOK
    <2> QED
        BY <1>6, <2>2, <2>3, AcceptOK DEF v, Labels, AdminEnableWG
<1>7. CASE AdminDisableWG(h)
    <2>1. DeviceOK(wg')
        BY <1>7, ReplacePeersOK DEF AdminDisableWG
    <2> QED
        BY <1>7, <2>1 DEF AdminDisableWG, IInv, KeepStore, KeepReconciler
<1>8. CASE AdminUpdateUser(h)
    <2>1. users' \in [Users -> User]
        BY <1>8, ConfigAssumption DEF AdminUpdateUser, IInv, User
    <2> QED
        BY <1>8, <2>1 DEF AdminUpdateUser, IInv, KeepDevice, KeepReconciler
<1> QED
    BY <1>1, <1>2, <1>3, <1>4, <1>5, <1>6, <1>7, <1>8 DEF Request

-----------------------------------------------------------------------------
(* AddPeer.                                                                *)

\* What the invariant says of one handler.
LEMMA HandlerFacts ==
    ASSUME IInv, NEW h \in Handlers
    PROVE  loc[h] \in Locals /\ HandlerOK(pc[h], loc[h], peers)
BY DEF IInv, HandlersOK

\* The four queries of AddPeer: a row remembered for activation is the user's own.
LEMMA AddQueriesOK ==
    ASSUME IInv, NEW h \in Handlers,
           AddFindUser(h) \/ AddCount(h) \/ AddFindMine(h) \/ AddFindByKey(h)
    PROVE  IInv'
<1> USE DEF AddSteps, RemoveSteps, ReplaceSteps, RotateSteps, AddrSteps, RowSteps
<1>0. loc[h] \in Locals /\ HandlerOK(pc[h], loc[h], peers)
    BY HandlerFacts
<1>1. CASE AddFindUser(h)
    <2> DEFINE user == users[loc[h].user]
               v == [loc[h] EXCEPT !.quota = user.maxPeers]
    <2>1. pc[h] = "add_user" /\ Query(h, ~user.active, "add_count", v)
        BY <1>1 DEF AddFindUser
    <2>2. user \in User
        BY <1>0, <2>1 DEF HandlerOK, IInv
    <2>3. /\ v \in Locals
          /\ v.op = loc[h].op /\ v.user = loc[h].user /\ v.key = loc[h].key
          /\ v.list = loc[h].list /\ v.row = loc[h].row
        BY <1>0, <2>2 DEF Locals, User
    <2>4. Query(h, TRUE, "add_count", v) \/ Query(h, FALSE, "add_count", v)
        BY <2>1 DEF Query
    <2> HIDE DEF v
    <2>5. HandlerOK("add_count", v, peers)
        BY <1>0, <2>1, <2>3 DEF HandlerOK
    <2> QED
        BY <2>3, <2>4, <2>5, OnlyMoves, OnlyReturns DEF Labels
<1>2. CASE AddCount(h)
    <2>1. Query(h, TRUE, "add_mine", loc[h]) \/ Query(h, FALSE, "add_mine", loc[h])
        BY <1>2 DEF AddCount, Query
    <2>2. HandlerOK("add_mine", loc[h], peers)
        BY <1>0, <1>2 DEF HandlerOK, AddCount
    <2> QED
        BY <1>0, <2>1, <2>2, OnlyMoves, OnlyReturns DEF Labels
<1>3. CASE AddFindMine(h)
    <2>1. Query(h, TRUE, "add_bykey", loc[h]) \/ Query(h, FALSE, "add_bykey", loc[h])
        BY <1>3 DEF AddFindMine, Query
    <2>2. HandlerOK("add_bykey", loc[h], peers)
        BY <1>0, <1>3 DEF HandlerOK, AddFindMine
    <2> QED
        BY <1>0, <2>1, <2>2, OnlyMoves, OnlyReturns DEF Labels
<1>4. CASE AddFindByKey(h)
    <2> DEFINE found == FindByPublicKey(peers, loc[h].key)
               refused == \E r \in found : \/ peers[r].user # loc[h].user
                                           \/ peers[r].status # "disconnected"
               v(r) == [loc[h] EXCEPT !.row = r]
    <2>1. pc[h] = "add_bykey"
        BY <1>4 DEF AddFindByKey
    <2>2. CASE Query(h, FALSE, "add_alloc", loc[h])
        <3>1. HandlerOK("add_alloc", loc[h], peers)
            BY <1>0, <2>1 DEF HandlerOK
        <3> QED
            BY <1>0, <2>2, <3>1, OnlyMoves DEF Labels
    <2>3. ASSUME NEW r \in found, Query(h, refused, "add_alloc", v(r)) PROVE IInv'
        <3>1. CASE refused
            BY <2>3, <3>1, OnlyReturns DEF Query
        <3>2. CASE ~refused
            <4>1. r \in Present(peers) /\ peers[r].user = loc[h].user /\ r \in Rows
                BY <3>2 DEF FindByPublicKey, Present
            <4>2. /\ v(r) \in Locals /\ v(r).row = r
                  /\ v(r).op = loc[h].op /\ v(r).user = loc[h].user
                  /\ v(r).key = loc[h].key /\ v(r).list = loc[h].list
                BY <1>0, <4>1 DEF Locals
            <4>3. Query(h, FALSE, "add_alloc", v(r))
                BY <2>3, <3>2 DEF Query
            <4> HIDE DEF v
            <4>4. HandlerOK("add_alloc", v(r), peers)
                BY <1>0, <2>1, <4>1, <4>2 DEF HandlerOK
            <4> QED
                BY <4>2, <4>3, <4>4, OnlyMoves DEF Labels
        <3> QED
            BY <3>1, <3>2
    <2> QED
        BY <1>4, <2>2, <2>3 DEF AddFindByKey
<1> QED
    BY <1>1, <1>2, <1>3, <1>4

\* The address AddPeer allocates is a client's.
LEMMA AddAllocateOK ==
    ASSUME IInv, NEW h \in Handlers, AddAllocate(h)
    PROVE  IInv'
<1> USE DEF AddSteps, RemoveSteps, ReplaceSteps, RotateSteps, AddrSteps, RowSteps
<1>0. loc[h] \in Locals /\ HandlerOK(pc[h], loc[h], peers) /\ pc[h] = "add_alloc"
    BY HandlerFacts DEF AddAllocate
<1>1. Follows(peers', peers) /\ peers' = peers
    BY FollowsSelf DEF AddAllocate, KeepStore
<1>2. CASE Return(h) /\ UNCHANGED used
    <2>1. HandlersOK(pc', loc', peers')
        BY <1>1, <1>2, HandlerReturns
    <2> QED
        BY <1>2, <2>1, OnlyHandlersChange DEF AddAllocate
<1>3. ASSUME NEW a \in Allocatable(used), used' = Reserve(used, a), Goto(h, "add_wg"),
             loc' = [loc EXCEPT ![h].ip = a]
      PROVE  IInv'
    <2> DEFINE v == [loc[h] EXCEPT !.ip = a]
    <2>1. UsedOK(used)
        BY DEF IInv
    <2>2. a \in ClientAddrs
        BY <2>1, AllocateClient
    <2>3. UsedOK(used')
        BY <1>3, <2>1, <2>2, UsedSteps DEF ClientAddrs
    <2>4. /\ v \in Locals /\ v.ip = a
          /\ v.op = loc[h].op /\ v.user = loc[h].user /\ v.key = loc[h].key
          /\ v.list = loc[h].list /\ v.row = loc[h].row
        BY <1>0, <2>2 DEF Locals, ClientAddrs, MaybeAddr
    <2>5. loc' = [loc EXCEPT ![h] = v]
        BY <1>3
    <2> HIDE DEF v
    <2>6. HandlerOK("add_wg", v, peers')
        BY <1>0, <1>1, <2>2, <2>4 DEF HandlerOK
    <2>7. HandlersOK(pc', loc', peers')
        BY <1>1, <1>3, <2>4, <2>5, <2>6, OneHandlerMoves DEF Labels
    <2> QED
        BY <2>3, <2>7 DEF AddAllocate, IInv, KeepStore, KeepDevice, KeepReconciler
<1> QED
    BY <1>2, <1>3 DEF AddAllocate

\* The handler goes on to step l with the variables it has.
LEMMA StepsOn ==
    ASSUME IInv, NEW h \in Handlers, NEW l \in Labels, Follows(peers', peers),
           Goto(h, l), UNCHANGED loc, HandlerOK(l, loc[h], peers)
    PROVE  HandlersOK(pc', loc', peers')
<1>1. loc[h] \in Locals /\ loc \in [Handlers -> Locals]
    BY DEF IInv, HandlersOK
<1>2. loc' = [loc EXCEPT ![h] = loc[h]]
    BY <1>1
<1>3. HandlerOK(l, loc[h], peers')
    BY HandlerFollows
<1> QED
    BY <1>1, <1>2, <1>3, OneHandlerMoves

\* AddPeer's device call gives a client's address to the client.
LEMMA AddConfigureOK ==
    ASSUME IInv, NEW h \in Handlers, AddConfigure(h)
    PROVE  IInv'
<1> USE DEF AddSteps, RemoveSteps, ReplaceSteps, RotateSteps, AddrSteps, RowSteps
<1>0. HandlerOK(pc[h], loc[h], peers) /\ pc[h] = "add_wg"
    BY HandlerFacts DEF AddConfigure
<1>1. Follows(peers', peers)
    BY FollowsSelf DEF AddConfigure, KeepStore
<1>2. HandlerOK("add_store", loc[h], peers) /\ HandlerOK("add_release", loc[h], peers)
    BY <1>0 DEF HandlerOK
<1>3. HandlersOK(pc', loc', peers')
    BY <1>1, <1>2, StepsOn DEF AddConfigure, Labels
<1>4. DeviceOK(AddPeerTo(wg, loc[h].key, loc[h].ip))
    BY <1>0, AddPeerOK DEF IInv, HandlerOK
<1>5. DeviceOK(wg')
    BY <1>4 DEF AddConfigure, IInv
<1> QED
    BY <1>3, <1>5 DEF AddConfigure, IInv, KeepStore, KeepReconciler

\* Whichever of Activate and Create runs, the row is a client's and belongs to
\* the handler's user.
LEMMA AddedToOK ==
    ASSUME IInv, NEW h \in Handlers, pc[h] = "add_store", peers' \in AddedTo(peers, loc[h])
    PROVE  TableOK(peers') /\ Follows(peers', peers)
<1> USE DEF AddSteps, RemoveSteps, ReplaceSteps, RotateSteps, AddrSteps, RowSteps
<1>0. HandlerOK(pc[h], loc[h], peers) /\ TableOK(peers)
    BY HandlerFacts DEF IInv
<1>1. loc[h].user \in Users /\ loc[h].key \in Keys /\ loc[h].ip \in ClientAddrs
    BY <1>0 DEF HandlerOK
<1>2. CASE loc[h].row # NoRow
    <2>1. loc[h].row \in Present(peers)
        BY <1>0, <1>2 DEF HandlerOK
    <2>2. peers' = Activate(peers, loc[h].row, loc[h].ip)
        BY <1>2 DEF AddedTo
    <2> QED
        BY <1>0, <1>1, <2>1, <2>2, ActivateOK
<1>3. CASE loc[h].row = NoRow
    <2>1. PICK r \in FreshRow(peers) :
            peers' = Create(peers, r, loc[h].user, loc[h].key, loc[h].ip)
        BY <1>3 DEF AddedTo
    <2> QED
        BY <1>0, <1>1, <2>1, CreateOK
<1> QED
    BY <1>2, <1>3

\* AddPeer's write, and its failure.
LEMMA AddStoreOK ==
    ASSUME IInv, NEW h \in Handlers, AddStore(h) \/ AddStoreFails(h)
    PROVE  IInv'
<1> USE DEF AddSteps, RemoveSteps, ReplaceSteps, RotateSteps, AddrSteps, RowSteps
<1>0. HandlerOK(pc[h], loc[h], peers) /\ pc[h] = "add_store"
    BY HandlerFacts DEF AddStore, AddStoreFails
<1>1. TableOK(peers') /\ Follows(peers', peers)
    <2>1. CASE peers' \in AddedTo(peers, loc[h])
        BY <1>0, <2>1, AddedToOK
    <2>2. CASE peers' = peers
        BY <2>2, FollowsSelf DEF IInv
    <2> QED
        BY <2>1, <2>2 DEF AddStore, AddStoreFails
<1>2. CASE AddStore(h)
    <2>1. HandlersOK(pc', loc', peers')
        BY <1>1, <1>2, HandlerReturns DEF AddStore
    <2> QED
        BY <1>1, <1>2, <2>1 DEF AddStore, IInv, KeepDevice, KeepReconciler
<1>3. CASE AddStoreFails(h)
    <2>1. HandlerOK("add_undo", loc[h], peers)
        BY <1>0 DEF HandlerOK
    <2>2. HandlersOK(pc', loc', peers')
        BY <1>1, <1>3, <2>1, StepsOn DEF AddStoreFails, Labels
    <2> QED
        BY <1>1, <1>3, <2>2 DEF AddStoreFails, IInv, KeepDevice, KeepReconciler
<1> QED
    BY <1>2, <1>3

\* AddPeer's undoing: it removes its own key and releases a client's address.
LEMMA AddUndoOK ==
    ASSUME IInv, NEW h \in Handlers, AddUndo(h) \/ AddRelease(h)
    PROVE  IInv'
<1> USE DEF AddSteps, RemoveSteps, ReplaceSteps, RotateSteps, AddrSteps, RowSteps
<1>0. HandlerOK(pc[h], loc[h], peers)
    BY HandlerFacts
<1>1. Follows(peers', peers)
    BY FollowsSelf DEF AddUndo, AddRelease, KeepStore
<1>2. CASE AddUndo(h)
    <2>1. HandlerOK("add_release", loc[h], peers)
        BY <1>0, <1>2 DEF HandlerOK, AddUndo
    <2>2. HandlersOK(pc', loc', peers')
        BY <1>1, <1>2, <2>1, StepsOn DEF AddUndo, Labels
    <2>3. DeviceOK(wg')
        BY <1>2, RemovePeersOK DEF AddUndo, IInv
    <2> QED
        BY <1>2, <2>2, <2>3 DEF AddUndo, IInv, KeepStore, KeepReconciler
<1>3. CASE AddRelease(h)
    <2>1. loc[h].ip \in ClientAddrs
        BY <1>0, <1>3 DEF HandlerOK, AddRelease
    <2>2. UsedOK(used')
        BY <1>3, <2>1, UsedSteps DEF AddRelease, IInv
    <2>3. HandlersOK(pc', loc', peers')
        BY <1>1, <1>3, HandlerReturns DEF AddRelease
    <2> QED
        BY <1>3, <2>2, <2>3 DEF AddRelease, IInv, KeepStore, KeepDevice, KeepReconciler
<1> QED
    BY <1>2, <1>3

-----------------------------------------------------------------------------
(* RemovePeer and the admin handlers around it.                            *)

\* The address RemovePeer will release is that of a row of the table.
LEMMA RemoveFindOK ==
    ASSUME IInv, NEW h \in Handlers, RemoveFind(h)
    PROVE  IInv'
<1> USE DEF AddSteps, RemoveSteps, ReplaceSteps, RotateSteps, AddrSteps, RowSteps
<1> DEFINE found == {r \in FindActiveByUserID(peers, loc[h].user) : peers[r].key = loc[h].key}
<1>0. loc[h] \in Locals /\ HandlerOK(pc[h], loc[h], peers) /\ pc[h] = "rm_find"
    BY HandlerFacts DEF RemoveFind
<1>1. Follows(peers', peers) /\ peers' = peers
    BY FollowsSelf DEF RemoveFind, KeepStore
<1>2. CASE RemoveReturn(h)
    <2>1. HandlersOK(pc', loc', peers')
        BY <1>0, <1>1, <1>2, RemoveReturns
    <2> QED
        BY <2>1, OnlyHandlersChange DEF RemoveFind
<1>3. ASSUME NEW r \in found, Goto(h, "rm_wg"),
             loc' = [loc EXCEPT ![h].row = r, ![h].ip = peers[r].ip]
      PROVE  IInv'
    <2> DEFINE v == [loc[h] EXCEPT !.row = r, !.ip = peers[r].ip]
    <2>1. r \in Present(peers) /\ r \in Rows /\ peers[r].user = loc[h].user
        BY DEF FindActiveByUserID, Active, Present
    <2>2. peers[r].ip \in ClientAddrs
        BY <2>1 DEF IInv, TableOK
    <2>3. /\ v \in Locals /\ v.ip = peers[r].ip /\ v.row = r
          /\ v.op = loc[h].op /\ v.user = loc[h].user /\ v.key = loc[h].key
          /\ v.list = loc[h].list /\ v.id = loc[h].id
        BY <1>0, <2>1, <2>2 DEF Locals, ClientAddrs, MaybeAddr
    <2>4. loc' = [loc EXCEPT ![h] = v]
        <3>1. loc \in [Handlers -> Locals]
            BY DEF IInv, HandlersOK
        <3> QED
            BY <1>3, <3>1
    <2> HIDE DEF v
    <2>5. HandlerOK("rm_wg", v, peers')
        BY <1>0, <1>1, <2>1, <2>2, <2>3 DEF HandlerOK
    <2>6. HandlersOK(pc', loc', peers')
        BY <1>1, <1>3, <2>3, <2>4, <2>5, OneHandlerMoves DEF Labels
    <2> QED
        BY <2>6, OnlyHandlersChange DEF RemoveFind
<1> QED
    BY <1>2, <1>3 DEF RemoveFind

\* RemovePeer's device call.
LEMMA RemoveConfigureOK ==
    ASSUME IInv, NEW h \in Handlers, RemoveConfigure(h)
    PROVE  IInv'
<1> USE DEF AddSteps, RemoveSteps, ReplaceSteps, RotateSteps, AddrSteps, RowSteps
<1>0. HandlerOK(pc[h], loc[h], peers) /\ pc[h] = "rm_wg"
    BY HandlerFacts DEF RemoveConfigure
<1>1. Follows(peers', peers)
    BY FollowsSelf DEF RemoveConfigure, KeepStore
<1>2. HandlerOK("rm_status", loc[h], peers)
    BY <1>0 DEF HandlerOK
<1>3. HandlersOK(pc', loc', peers')
    <2>1. CASE Goto(h, "rm_status") /\ UNCHANGED loc
        BY <1>1, <1>2, <2>1, StepsOn DEF Labels
    <2>2. CASE RemoveReturn(h)
        BY <1>0, <1>1, <2>2, RemoveReturns
    <2> QED
        BY <2>1, <2>2 DEF RemoveConfigure
<1>4. DeviceOK(wg')
    BY RemovePeersOK DEF RemoveConfigure, IInv
<1> QED
    BY <1>3, <1>4 DEF RemoveConfigure, IInv, KeepStore, KeepReconciler

\* RemovePeer's write, lost or applied.
LEMMA RemoveStatusOK ==
    ASSUME IInv, NEW h \in Handlers, RemoveStatus(h)
    PROVE  IInv'
<1> USE DEF AddSteps, RemoveSteps, ReplaceSteps, RotateSteps, AddrSteps, RowSteps
<1>0. HandlerOK(pc[h], loc[h], peers) /\ pc[h] = "rm_status" /\ TableOK(peers)
    BY HandlerFacts DEF RemoveStatus, IInv
<1>1. TableOK(peers') /\ Follows(peers', peers)
    <2>1. CASE peers' = UpdateStatus(peers, loc[h].row, "disconnected")
        BY <1>0, <2>1, UpdateStatusOK DEF HandlerOK, Statuses
    <2>2. CASE peers' = peers
        BY <1>0, <2>2, FollowsSelf
    <2> QED
        BY <2>1, <2>2 DEF RemoveStatus
<1>2. HandlerOK("rm_release", loc[h], peers)
    BY <1>0 DEF HandlerOK
<1>3. HandlersOK(pc', loc', peers')
    <2>1. CASE Goto(h, "rm_release") /\ UNCHANGED loc
        BY <1>1, <1>2, <2>1, StepsOn DEF Labels
    <2>2. CASE RemoveReturn(h)
        BY <1>0, <1>1, <2>2, RemoveReturns
    <2> QED
        BY <2>1, <2>2 DEF RemoveStatus
<1> QED
    BY <1>1, <1>3 DEF RemoveStatus, IInv, KeepDevice, KeepReconciler

\* The address RemovePeer releases is a client's, however old its copy of the row.
LEMMA RemoveReleaseOK ==
    ASSUME IInv, NEW h \in Handlers, RemoveRelease(h)
    PROVE  IInv'
<1> USE DEF AddSteps, RemoveSteps, ReplaceSteps, RotateSteps, AddrSteps, RowSteps
<1>0. HandlerOK(pc[h], loc[h], peers) /\ pc[h] = "rm_release"
    BY HandlerFacts DEF RemoveRelease
<1>1. Follows(peers', peers)
    BY FollowsSelf DEF RemoveRelease, KeepStore
<1>2. UsedOK(used')
    BY <1>0, UsedSteps DEF RemoveRelease, IInv, HandlerOK
<1>3. HandlersOK(pc', loc', peers')
    BY <1>0, <1>1, RemoveReturns DEF RemoveRelease
<1> QED
    BY <1>2, <1>3 DEF RemoveRelease, IInv, KeepStore, KeepDevice, KeepReconciler

\* The admin handlers' own query and write.
LEMMA AdminOK ==
    ASSUME IInv, NEW h \in Handlers, AdminFind(h) \/ AdminStatus(h)
    PROVE  IInv'
<1> USE DEF AddSteps, RemoveSteps, ReplaceSteps, RotateSteps, AddrSteps, RowSteps
<1>0. loc[h] \in Locals /\ HandlerOK(pc[h], loc[h], peers) /\ TableOK(peers)
    BY HandlerFacts DEF IInv
<1>1. loc[h].op \in AdminRequests /\ loc[h].id \in Present(peers) /\ loc[h].row = NoRow
    BY <1>0 DEF HandlerOK, AdminFind, AdminStatus
<1>2. CASE AdminFind(h)
    <2> DEFINE p == peers[loc[h].id]
               v == [loc[h] EXCEPT !.user = p.user, !.key = p.key]
    <2>1. CASE Query(h, FALSE, "rm_find", v)
        <3>1. p.user \in Users /\ p.key \in Keys
            BY <1>0, <1>1 DEF TableOK
        <3>2. /\ v \in Locals /\ v.op = loc[h].op /\ v.id = loc[h].id /\ v.key = p.key
              /\ v.list = loc[h].list /\ v.row = loc[h].row
            BY <1>0, <3>1 DEF Locals
        <3> HIDE DEF v
        <3>3. HandlerOK("rm_find", v, peers)
            BY <1>0, <1>1, <3>1, <3>2 DEF HandlerOK
        <3> QED
            BY <2>1, <3>2, <3>3, OnlyMoves DEF Labels
    <2>2. CASE Query(h, FALSE, "admin_status", loc[h])
        <3>1. HandlerOK("admin_status", loc[h], peers)
            BY <1>0, <1>1 DEF HandlerOK
        <3> QED
            BY <1>0, <2>2, <3>1, OnlyMoves DEF Labels
    <2> QED
        BY <1>2, <2>1, <2>2 DEF AdminFind
<1>3. CASE AdminStatus(h)
    <2>1. TableOK(peers') /\ Follows(peers', peers)
        <3> DEFINE s == IF loc[h].op = "revoke" THEN "revoked" ELSE "disconnected"
        <3>1. s \in Statuses \ {"none"}
            BY DEF Statuses
        <3>2. CASE peers' = UpdateStatus(peers, loc[h].id, s)
            BY <1>0, <1>1, <3>1, <3>2, UpdateStatusOK
        <3>3. CASE peers' = peers
            BY <1>0, <3>3, FollowsSelf
        <3> QED
            BY <1>3, <3>2, <3>3 DEF AdminStatus
    <2>2. HandlersOK(pc', loc', peers')
        BY <1>3, <2>1, HandlerReturns DEF AdminStatus
    <2> QED
        BY <1>3, <2>1, <2>2 DEF AdminStatus, IInv, KeepDevice, KeepReconciler
<1> QED
    BY <1>2, <1>3

-----------------------------------------------------------------------------
(* ReplaceKey, RotateServerKey, enableWG and failing queries.              *)

\* ReplaceKey remembers a row of the user and its address.
LEMMA ReplaceFindOK ==
    ASSUME IInv, NEW h \in Handlers, ReplaceFind(h)
    PROVE  IInv'
<1> USE DEF AddSteps, RemoveSteps, ReplaceSteps, RotateSteps, AddrSteps, RowSteps
<1> DEFINE found == {r \in FindActiveByUserID(peers, loc[h].user) : peers[r].key = loc[h].key}
           v(r) == [loc[h] EXCEPT !.row = r, !.ip = peers[r].ip]
<1>0. loc[h] \in Locals /\ HandlerOK(pc[h], loc[h], peers) /\ pc[h] = "rk_find"
    BY HandlerFacts DEF ReplaceFind
<1>1. CASE Query(h, TRUE, "rk_wg", loc[h])
    BY <1>1, OnlyReturns
<1>2. ASSUME NEW r \in found, Query(h, FALSE, "rk_wg", v(r)) PROVE IInv'
    <2>1. r \in Present(peers) /\ r \in Rows /\ peers[r].user = loc[h].user
        BY DEF FindActiveByUserID, Active, Present
    <2>2. peers[r].ip \in ClientAddrs
        BY <2>1 DEF IInv, TableOK
    <2>3. /\ v(r) \in Locals /\ v(r).ip = peers[r].ip /\ v(r).row = r
          /\ v(r).op = loc[h].op /\ v(r).user = loc[h].user /\ v(r).key = loc[h].key
          /\ v(r).list = loc[h].list /\ v(r).new = loc[h].new
        BY <1>0, <2>1, <2>2 DEF Locals, ClientAddrs, MaybeAddr
    <2>4. Query(h, FALSE, "rk_wg", v(r))
        BY <1>2
    <2> HIDE DEF v
    <2>5. HandlerOK("rk_wg", v(r), peers)
        BY <1>0, <2>1, <2>2, <2>3 DEF HandlerOK
    <2> QED
        BY <2>3, <2>4, <2>5, OnlyMoves DEF Labels
<1> QED
    BY <1>1, <1>2 DEF ReplaceFind

\* ReplaceKey gives the address of a row, a client's, to the new key.
LEMMA ReplaceConfigureOK ==
    ASSUME IInv, NEW h \in Handlers, ReplaceConfigure(h)
    PROVE  IInv'
<1> USE DEF AddSteps, RemoveSteps, ReplaceSteps, RotateSteps, AddrSteps, RowSteps
<1>0. HandlerOK(pc[h], loc[h], peers) /\ pc[h] = "rk_wg"
    BY HandlerFacts DEF ReplaceConfigure
<1>1. Follows(peers', peers)
    BY FollowsSelf DEF ReplaceConfigure, KeepStore
<1>2. HandlerOK("rk_store", loc[h], peers)
    BY <1>0 DEF HandlerOK
<1>3. HandlersOK(pc', loc', peers')
    <2>1. CASE Goto(h, "rk_store") /\ UNCHANGED loc
        BY <1>1, <1>2, <2>1, StepsOn DEF Labels
    <2>2. CASE Return(h)
        BY <1>1, <2>2, HandlerReturns
    <2> QED
        BY <2>1, <2>2 DEF ReplaceConfigure
<1>4. DeviceOK(wg')
    <2>1. DeviceOK(RemovePeersFrom(wg, {loc[h].key}))
        BY RemovePeersOK DEF IInv
    <2>2. DeviceOK(AddPeerTo(RemovePeersFrom(wg, {loc[h].key}), loc[h].new, loc[h].ip))
        BY <1>0, <2>1, AddPeerOK DEF HandlerOK
    <2> QED
        BY <2>2 DEF ReplaceConfigure, IInv
<1> QED
    BY <1>3, <1>4 DEF ReplaceConfigure, IInv, KeepStore, KeepReconciler

\* ReplaceKey's write.
LEMMA ReplaceStoreOK ==
    ASSUME IInv, NEW h \in Handlers, ReplaceStore(h)
    PROVE  IInv'
<1> USE DEF AddSteps, RemoveSteps, ReplaceSteps, RotateSteps, AddrSteps, RowSteps
<1>0. HandlerOK(pc[h], loc[h], peers) /\ pc[h] = "rk_store" /\ TableOK(peers)
    BY HandlerFacts DEF ReplaceStore, IInv
<1>1. TableOK(peers') /\ Follows(peers', peers)
    <2>1. CASE peers' = UpdatePublicKey(peers, loc[h].row, loc[h].new)
        BY <1>0, <2>1, UpdatePublicKeyOK DEF HandlerOK
    <2>2. CASE peers' = peers
        BY <1>0, <2>2, FollowsSelf
    <2> QED
        BY <2>1, <2>2 DEF ReplaceStore
<1>2. HandlersOK(pc', loc', peers')
    BY <1>1, HandlerReturns DEF ReplaceStore
<1> QED
    BY <1>1, <1>2 DEF ReplaceStore, IInv, KeepDevice, KeepReconciler

\* The list that RotateServerKey and enableWG take has only client peers.
LEMMA ListOK ==
    ASSUME IInv, NEW h \in Handlers, RotateList(h) \/ EnableList(h)
    PROVE  IInv'
<1> USE DEF AddSteps, RemoveSteps, ReplaceSteps, RotateSteps, AddrSteps, RowSteps
<1> DEFINE v == [loc[h] EXCEPT !.list = ListActive(peers)]
<1>0. loc[h] \in Locals /\ HandlerOK(pc[h], loc[h], peers)
    BY HandlerFacts
<1>1. ListActive(peers) \subseteq ClientPeers
    BY ListActiveOK DEF IInv
<1>2. ListActive(peers) \subseteq Listed
    BY <1>1 DEF ClientPeers, ClientAddrs, Listed
<1>3. /\ v \in Locals /\ v.list = ListActive(peers) /\ v.skey = loc[h].skey
      /\ v.row = loc[h].row /\ v.user = loc[h].user
    BY <1>0, <1>2 DEF Locals
<1>4. \/ pc[h] = "rot_list" /\ Query(h, FALSE, "rot_wg", v)
      \/ pc[h] = "en_list" /\ Query(h, FALSE, "en_wg", v)
    BY DEF RotateList, EnableList, ListPeers
<1> HIDE DEF v
<1>5. CASE pc[h] = "rot_list" /\ Query(h, FALSE, "rot_wg", v)
    <2>1. HandlerOK("rot_wg", v, peers)
        BY <1>0, <1>1, <1>3, <1>5 DEF HandlerOK
    <2> QED
        BY <1>3, <1>5, <2>1, OnlyMoves DEF Labels
<1>6. CASE pc[h] = "en_list" /\ Query(h, FALSE, "en_wg", v)
    <2>1. HandlerOK("en_wg", v, peers)
        BY <1>0, <1>1, <1>3, <1>6 DEF HandlerOK
    <2> QED
        BY <1>3, <1>6, <2>1, OnlyMoves DEF Labels
<1> QED
    BY <1>4, <1>5, <1>6

\* RotateServerKey rebuilds the device from such a list.
LEMMA RotateConfigureOK ==
    ASSUME IInv, NEW h \in Handlers, RotateConfigure(h)
    PROVE  IInv'
<1> USE DEF AddSteps, RemoveSteps, ReplaceSteps, RotateSteps, AddrSteps, RowSteps
<1> DEFINE v == [loc[h] EXCEPT !.list = {}]
<1>0. loc[h] \in Locals /\ HandlerOK(pc[h], loc[h], peers) /\ pc[h] = "rot_wg"
    BY HandlerFacts DEF RotateConfigure
<1>1. Follows(peers', peers) /\ peers' = peers
    BY FollowsSelf DEF RotateConfigure, KeepStore
<1>2. HandlersOK(pc', loc', peers')
    <2>1. CASE Goto(h, "rot_lo") /\ loc' = [loc EXCEPT ![h].list = {}]
        <3>1. /\ v \in Locals /\ v.list = {} /\ v.skey = loc[h].skey
              /\ v.row = loc[h].row /\ v.user = loc[h].user
            BY <1>0 DEF Locals
        <3>2. loc' = [loc EXCEPT ![h] = v]
            BY <2>1
        <3> HIDE DEF v
        <3>3. HandlerOK("rot_lo", v, peers')
            BY <1>0, <1>1, <3>1 DEF HandlerOK
        <3> QED
            BY <1>1, <2>1, <3>1, <3>2, <3>3, OneHandlerMoves DEF Labels
    <2>2. CASE Return(h)
        BY <1>1, <2>2, HandlerReturns
    <2> QED
        BY <2>1, <2>2 DEF RotateConfigure
<1>3. DeviceOK(wg')
    <2>1. <<loc[h].skey, loc[h].skey>> \in PrivateKeys /\ loc[h].list \subseteq ClientPeers
        BY <1>0 DEF HandlerOK, PrivateKeys
    <2> QED
        BY <2>1, ReplacePeersOK DEF RotateConfigure, IInv
<1> QED
    BY <1>2, <1>3 DEF RotateConfigure, IInv, KeepStore, KeepReconciler

\* Both halves of the assignment to serverPrivateKey.
LEMMA RotateStoreOK ==
    ASSUME IInv, NEW h \in Handlers, RotateStoreLow(h) \/ RotateStoreHigh(h)
    PROVE  IInv'
<1> USE DEF AddSteps, RemoveSteps, ReplaceSteps, RotateSteps, AddrSteps, RowSteps
<1>0. HandlerOK(pc[h], loc[h], peers)
    BY HandlerFacts
<1>1. loc[h].skey \in ServerKeys /\ serverKey \in ServerKeys \X ServerKeys
    BY <1>0 DEF HandlerOK, RotateStoreLow, RotateStoreHigh, IInv, PrivateKeys
<1>2. serverKey' \in PrivateKeys
    BY <1>1 DEF RotateStoreLow, RotateStoreHigh, PrivateKeys
<1>3. Follows(peers', peers)
    BY FollowsSelf DEF RotateStoreLow, RotateStoreHigh, KeepStore
<1>4. HandlersOK(pc', loc', peers')
    <2>1. CASE RotateStoreLow(h)
        <3>1. HandlerOK("rot_hi", loc[h], peers)
            BY <1>0, <2>1 DEF HandlerOK, RotateStoreLow
        <3> QED
            BY <1>3, <2>1, <3>1, StepsOn DEF RotateStoreLow, Labels
    <2>2. CASE RotateStoreHigh(h)
        BY <1>3, <2>2, HandlerReturns DEF RotateStoreHigh
    <2> QED
        BY <2>1, <2>2
<1> QED
    BY <1>2, <1>4 DEF RotateStoreLow, RotateStoreHigh, IInv, KeepStore, KeepReconciler

\* enableWG rebuilds the device from such a list.
LEMMA EnableConfigureOK ==
    ASSUME IInv, NEW h \in Handlers, EnableConfigure(h)
    PROVE  IInv'
<1>1. Follows(peers', peers)
    BY FollowsSelf DEF EnableConfigure, KeepStore
<1>2. HandlersOK(pc', loc', peers')
    BY <1>1, HandlerReturns DEF EnableConfigure
<1>3. loc[h].list \subseteq ClientPeers
    BY HandlerFacts DEF HandlerOK
<1>4. DeviceOK(wg')
    BY <1>3, ReplacePeersOK DEF EnableConfigure, IInv
<1> QED
    BY <1>2, <1>4 DEF EnableConfigure, IInv, KeepStore, KeepReconciler

\* A query that fails.
LEMMA QueryFailsOK ==
    ASSUME IInv, NEW h \in Handlers, QueryFails(h)
    PROVE  IInv'
<1>1. Follows(peers', peers)
    BY FollowsSelf DEF QueryFails, KeepStore
<1>2. HandlersOK(pc', loc', peers')
    BY <1>1, HandlerReturns, RemoveReturns DEF QueryFails, RemoveSteps
<1> QED
    BY <1>2, OnlyHandlersChange DEF QueryFails

\* Every step of a handler keeps the invariant.
LEMMA HandlerStepOK ==
    ASSUME IInv, NEW h \in Handlers, HandlerStep(h)
    PROVE  IInv'
BY QueryFailsOK, AddQueriesOK, AddAllocateOK, AddConfigureOK, AddStoreOK, AddUndoOK,
   RemoveFindOK, RemoveConfigureOK, RemoveStatusOK, RemoveReleaseOK, AdminOK,
   ReplaceFindOK, ReplaceConfigureOK, ReplaceStoreOK, ListOK, RotateConfigureOK,
   RotateStoreOK, EnableConfigureOK
   DEF HandlerStep, AddPeer, RemovePeer

-----------------------------------------------------------------------------
(* The reconciliation loop and the process.                                *)

\* An idle reconciliation loop holds nothing.
LEMMA NoReconcileOK ==
    ReconcilerOK("idle", NoReconcile)
BY DEF ReconcilerOK, NoReconcile, ReconcileLocals

\* Every step of Reconcile, whose list may be older than the table and the device.
LEMMA ReconcileOK ==
    ASSUME IInv, Reconcile \/ ReconcileFails
    PROVE  IInv'
<1>0. ReconcilerOK(rpc, rloc) /\ TableOK(peers) /\ UsedOK(used) /\ DeviceOK(wg)
    BY DEF IInv
<1>1. CASE ReconcileList
    <2> DEFINE list == ListActive(peers)
               v == [NoReconcile EXCEPT !.list = list, !.todo = {p.ip : p \in list}]
    <2>1. list \subseteq ClientPeers
        BY <1>0, ListActiveOK
    <2>2. list \subseteq Listed /\ {p.ip : p \in list} \subseteq Subnet
        BY <2>1 DEF ClientPeers, ClientAddrs, Listed
    <2> HIDE DEF list
    <2>3. v \in ReconcileLocals /\ v.list = list /\ v.add = {}
        BY <2>2 DEF NoReconcile, ReconcileLocals
    <2>4. rloc' = v /\ rpc' = "reserve"
        BY <1>1 DEF ReconcileList, list
    <2> HIDE DEF v
    <2>5. ReconcilerOK(rpc', rloc')
        BY <2>1, <2>3, <2>4 DEF ReconcilerOK
    <2> QED
        BY <1>1, <2>5 DEF ReconcileList, IInv, KeepStore, KeepDevice
<1>2. CASE ReconcileReserve
    <2>1. PICK a \in rloc.todo :
            /\ used' = Reserve(used, a)
            /\ rloc' = [rloc EXCEPT !.todo = @ \ {a}]
        BY <1>2 DEF ReconcileReserve
    <2>2. a \in Subnet
        BY <1>0 DEF ReconcilerOK, ReconcileLocals
    <2>3. UsedOK(used')
        BY <1>0, <2>1, <2>2, UsedSteps
    <2>4. rloc' \in ReconcileLocals /\ rloc'.list = rloc.list /\ rloc'.add = rloc.add
        BY <1>0, <2>1 DEF ReconcilerOK, ReconcileLocals
    <2>5. ReconcilerOK(rpc', rloc')
        BY <1>0, <1>2, <2>4 DEF ReconcilerOK, ReconcileReserve
    <2> QED
        BY <1>2, <2>3, <2>5 DEF ReconcileReserve, IInv, KeepStore, KeepDevice
<1>3. CASE ReconcileDevice
    <2> DEFINE add == Missing(rloc.list, wg.peers)
               remove == Stray(rloc.list, wg.peers)
               v == [NoReconcile EXCEPT !.add = add, !.remove = remove]
    <2>1. add \subseteq ClientPeers /\ add \subseteq Listed /\ remove \subseteq Keys
        BY <1>0 DEF ReconcilerOK, ReconcileLocals, DeviceOK, Device, Missing, Stray
    <2>2. rloc' = v /\ rpc' \in {"idle", "configure"}
        BY <1>3 DEF ReconcileDevice
    <2> HIDE DEF add, remove
    <2>3. v \in ReconcileLocals /\ v.list = {} /\ v.add = add
        BY <2>1 DEF NoReconcile, ReconcileLocals
    <2> HIDE DEF v
    <2>4. ReconcilerOK(rpc', rloc')
        BY <2>1, <2>2, <2>3 DEF ReconcilerOK
    <2> QED
        BY <1>3, <2>4 DEF ReconcileDevice, IInv, KeepStore, KeepDevice
<1>4. CASE ReconcileConfigure
    <2>1. DeviceOK(RemovePeersFrom(wg, rloc.remove))
        BY <1>0, RemovePeersOK
    <2>2. DeviceOK(wg')
        BY <1>0, <1>4, <2>1, AddPeersOK DEF ReconcileConfigure, ReconcilerOK
    <2> QED
        BY <1>4, <2>2, NoReconcileOK DEF ReconcileConfigure, IInv, KeepStore
<1>5. CASE ReconcileFails
    BY <1>5, NoReconcileOK DEF ReconcileFails, IInv, KeepStore, KeepDevice
<1> QED
    BY <1>1, <1>2, <1>3, <1>4, <1>5 DEF Reconcile

\* A new process starts from the invariant, whatever table the last one left.
LEMMA RestartOK ==
    ASSUME IInv, Restart
    PROVE  IInv'
<1>1. UsedOK(used')
    BY SubnetAssumption DEF Restart, Started, UsedOK, Reserve, NewIPAM, Subnet
<1>2. serverKey' \in PrivateKeys
    BY ConfigAssumption DEF Restart, Started, PrivateKeys
<1>3. DeviceOK(wg')
    <2>1. ListActive(peers) \subseteq ClientPeers
        BY ListActiveOK DEF IInv
    <2> QED
        BY <1>2, <2>1, ReplacePeersOK DEF Restart, Started
<1>4. HandlersOK(pc', loc', peers')
    BY NoLocalsOK DEF Restart, Started, HandlersOK
<1> QED
    BY <1>1, <1>2, <1>3, <1>4, NoReconcileOK DEF Restart, Started, IInv, KeepStore

\* The invariant holds initially ...
LEMMA InitIInv == Init => IInv
<1> SUFFICES ASSUME Init PROVE IInv
    OBVIOUS
<1>1. users \in [Users -> User]
    BY ConfigAssumption DEF Init, User
<1>2. TableOK(peers)
    BY DEF Init, TableOK, Present, NoPeer, Peer, MaybeAddr, Statuses
<1>3. UsedOK(used)
    BY SubnetAssumption DEF Init, UsedOK, Reserve, NewIPAM, Subnet
<1>4. serverKey \in PrivateKeys
    BY ConfigAssumption DEF Init, PrivateKeys
<1>5. DeviceOK(wg)
    <2>1. ServerAddr \in Subnet
        BY SubnetAssumption DEF Subnet
    <2> QED
        BY <1>4, <2>1 DEF Init, DeviceOK, Device, NoRoutes
<1>6. HandlersOK(pc, loc, peers)
    BY NoLocalsOK DEF Init, HandlersOK
<1> QED
    BY <1>1, <1>2, <1>3, <1>4, <1>5, <1>6, NoReconcileOK DEF Init, IInv

\* ... and every step keeps it.
LEMMA NextIInv == IInv /\ [Next]_vars => IInv'
<1> SUFFICES ASSUME IInv, [Next]_vars PROVE IInv'
    OBVIOUS
<1>1. CASE \E h \in Handlers : Request(h) \/ HandlerStep(h)
    BY <1>1, RequestOK, HandlerStepOK
<1>2. CASE Reconcile \/ ReconcileFails
    BY <1>2, ReconcileOK
<1>3. CASE Restart
    BY <1>3, RestartOK
<1>4. CASE Settle
    BY <1>4 DEF Settle, IInv, KeepStore, KeepDevice, KeepReconciler
<1>5. CASE UNCHANGED vars
    BY <1>5 DEF vars, IInv
<1> QED
    BY <1>1, <1>2, <1>3, <1>4, <1>5 DEF Next

\* The inductive invariant holds in every reachable state.
THEOREM Invariance == Spec => []IInv
BY InitIInv, NextIInv, PTL DEF Spec

\* Every variable keeps its type: no step takes an address outside the subnet,
\* puts a key of no client on the device or leaves a handler between steps.
THEOREM TypeCorrect == Spec => []TypeOK
<1>1. IInv => TypeOK
    BY DEF IInv, TypeOK, TableOK, UsedOK, DeviceOK, HandlersOK, ReconcilerOK
<1> QED
    BY <1>1, Invariance, PTL

\* The server's address stays reserved and is never routed to a client, for any
\* number of concurrent requests, failures and restarts: the only addresses ever
\* released or configured are those of clients.
THEOREM ServerAddressSafe == Spec => []ServerAddressReserved
<1>1. IInv => ServerAddressReserved
    BY DEF IInv, ServerAddressReserved, UsedOK, DeviceOK
<1> QED
    BY <1>1, Invariance, PTL

-----------------------------------------------------------------------------
(* Whose rows a request writes.                                            *)

Writes(g) ==
    AddStore(g) \/ AddStoreFails(g) \/ RemoveStatus(g) \/ AdminStatus(g) \/ ReplaceStore(g)

\* Row r belongs to user u after the step, and to u or to nobody before it.
Owned(u, r) == peers'[r].user = u /\ peers[r].user \in {u, NoUser}

\* A handler's step that changes the peers table is one of those five.
LEMMA HandlerWrites ==
    ASSUME NEW g \in Handlers, HandlerStep(g), peers' # peers
    PROVE  Writes(g)
<1>0. ~UNCHANGED peers
    OBVIOUS
<1>1. ~QueryFails(g) /\ ~AdminFind(g) /\ ~ReplaceFind(g) /\ ~ReplaceConfigure(g)
    BY <1>0 DEF QueryFails, AdminFind, ReplaceFind, ReplaceConfigure, Query, KeepStore
<1>2. /\ ~AddFindUser(g) /\ ~AddCount(g) /\ ~AddFindMine(g) /\ ~AddFindByKey(g)
      /\ ~AddAllocate(g) /\ ~AddConfigure(g) /\ ~AddUndo(g) /\ ~AddRelease(g)
    BY <1>0 DEF AddFindUser, AddCount, AddFindMine, AddFindByKey, AddAllocate,
        AddConfigure, AddUndo, AddRelease, Query, KeepStore
<1>3. ~RemoveFind(g) /\ ~RemoveConfigure(g) /\ ~RemoveRelease(g)
    BY <1>0 DEF RemoveFind, RemoveConfigure, RemoveRelease, KeepStore
<1>4. /\ ~RotateList(g) /\ ~RotateConfigure(g) /\ ~RotateStoreLow(g) /\ ~RotateStoreHigh(g)
      /\ ~EnableList(g) /\ ~EnableConfigure(g)
    BY <1>0 DEF RotateList, RotateConfigure, RotateStoreLow, RotateStoreHigh, EnableList,
        EnableConfigure, ListPeers, Query, KeepStore
<1> QED
    BY <1>1, <1>2, <1>3, <1>4 DEF HandlerStep, AddPeer, RemovePeer, Writes

\* Nothing else changes the table.
LEMMA Writers ==
    ASSUME [Next]_vars, peers' # peers
    PROVE  \E g \in Handlers : Writes(g)
<1>1. ~UNCHANGED peers
    OBVIOUS
<1>2. ASSUME NEW g \in Handlers PROVE ~Request(g)
    BY <1>1 DEF Request, RegisterPeer, DisconnectPeer, ReplaceKey, AdminPeer, AdminRotateWGKey,
        AdminEnableWG, AdminDisableWG, AdminUpdateUser, Accept, KeepStore
<1>3. ASSUME NEW g \in Handlers, HandlerStep(g) PROVE Writes(g)
    BY <1>3, HandlerWrites
<1>4. ~Reconcile /\ ~ReconcileFails /\ ~Restart /\ ~Settle /\ ~UNCHANGED vars
    BY <1>1 DEF Reconcile, ReconcileList, ReconcileReserve, ReconcileDevice, ReconcileConfigure,
        ReconcileFails, Restart, Settle, KeepStore, vars
<1> QED
    BY <1>2, <1>3, <1>4 DEF Next

\* A writing step moves one handler.
LEMMA WriterMoves ==
    ASSUME IInv, NEW g \in Handlers, Writes(g), NEW h \in Handlers, h # g
    PROVE  pc'[h] = pc[h]
<1>1. pc \in [Handlers -> Labels]
    BY DEF IInv, HandlersOK
<1> QED
    BY <1>1 DEF Writes, AddStore, AddStoreFails, RemoveStatus, AdminStatus, ReplaceStore,
        Return, RemoveReturn, Goto

\* The row that a user's request writes is a new one, or one that it found and
\* that was the user's then; no row changes hands after that.
LEMMA WritesOwn ==
    ASSUME IInv, NEW h \in Handlers, Writes(h), loc[h].op \in PeerRequests,
           NEW r \in Rows, peers'[r] # peers[r]
    PROVE  Owned(loc[h].user, r)
<1> USE DEF AddSteps, RemoveSteps, ReplaceSteps, RotateSteps, AddrSteps, RowSteps
<1>0. HandlerOK(pc[h], loc[h], peers) /\ TableOK(peers)
    BY HandlerFacts DEF IInv
<1>1. peers \in [Rows -> Peer]
    BY <1>0 DEF TableOK
<1>2. CASE pc[h] = "add_store" /\ peers' \in AddedTo(peers, loc[h])
    <2>1. CASE loc[h].row # NoRow
        <3>1. loc[h].row \in Rows /\ peers[loc[h].row].user = loc[h].user
            BY <1>0, <2>1 DEF HandlerOK, Present
        <3>2. peers' = Activate(peers, loc[h].row, loc[h].ip)
            BY <1>2, <2>1 DEF AddedTo
        <3>3. r = loc[h].row /\ peers'[r].user = peers[r].user
            BY <1>1, <3>1, <3>2 DEF Activate, Peer
        <3> QED
            BY <3>1, <3>3 DEF Owned
    <2>2. CASE loc[h].row = NoRow
        <3>1. PICK q \in FreshRow(peers) :
                peers' = Create(peers, q, loc[h].user, loc[h].key, loc[h].ip)
            BY <1>2, <2>2 DEF AddedTo
        <3>2. q \in Rows \ Present(peers)
            BY DEF FreshRow, Unused, Present
        <3>3. r = q /\ peers'[r].user = loc[h].user
            BY <1>1, <3>1, <3>2 DEF Create
        <3> QED
            BY <1>0, <3>2, <3>3 DEF TableOK, Owned
    <2> QED
        BY <2>1, <2>2
<1>3. CASE RemoveStatus(h)
    <2>1. loc[h].row \in Rows /\ peers[loc[h].row].user = loc[h].user
        BY <1>0, <1>3, NullsAssumption DEF HandlerOK, Present, RemoveStatus
    <2>2. peers' = UpdateStatus(peers, loc[h].row, "disconnected")
        BY <1>3 DEF RemoveStatus
    <2>3. r = loc[h].row /\ peers'[r].user = peers[r].user
        BY <1>1, <2>1, <2>2 DEF UpdateStatus, Peer
    <2> QED
        BY <2>1, <2>3 DEF Owned
<1>4. CASE ReplaceStore(h)
    <2>1. loc[h].row \in Rows /\ peers[loc[h].row].user = loc[h].user
        BY <1>0, <1>4, NullsAssumption DEF HandlerOK, Present, ReplaceStore
    <2>2. peers' = UpdatePublicKey(peers, loc[h].row, loc[h].new)
        BY <1>4 DEF ReplaceStore
    <2>3. r = loc[h].row /\ peers'[r].user = peers[r].user
        BY <1>1, <2>1, <2>2 DEF UpdatePublicKey, Peer
    <2> QED
        BY <2>1, <2>3 DEF Owned
<1>5. ~AdminStatus(h)
    BY <1>0 DEF HandlerOK, AdminStatus, PeerRequests, AdminRequests
<1> QED
    BY <1>2, <1>3, <1>4, <1>5 DEF Writes, AddStore, AddStoreFails

\* A user's request writes no other user's rows, however its queries and its
\* writes interleave with those of others.
THEOREM OwnRowsOnly == Spec => UsersKeepToOwnRows
<1>1. ASSUME IInv, [Next]_vars, NEW h \in Handlers, NEW r \in Rows,
             loc[h].op \in PeerRequests, pc'[h] # pc[h], peers'[r] # peers[r]
      PROVE  peers'[r].user = loc[h].user /\ peers[r].user \in {loc[h].user, NoUser}
    <2>1. PICK g \in Handlers : Writes(g)
        BY <1>1, Writers
    <2>2. g = h
        BY <1>1, <2>1, WriterMoves
    <2> QED
        BY <1>1, <2>1, <2>2, WritesOwn DEF Owned
<1>2. IInv /\ [Next]_vars =>
        [\A h \in Handlers, r \in Rows :
            loc[h].op \in PeerRequests /\ pc'[h] # pc[h] /\ peers'[r] # peers[r]
              => peers'[r].user = loc[h].user
                 /\ peers[r].user \in {loc[h].user, NoUser}]_vars
    BY <1>1
<1> QED
    BY <1>2, Invariance, PTL DEF Spec, UsersKeepToOwnRows

-----------------------------------------------------------------------------
(* How goroutines move, one at a time, from call to call of a request.     *)

AdminSteps == {"admin_find", "admin_status"}
EnableSteps == {"en_list", "en_wg"}

\* Steps of one kind of request.
SameKind(l, m) ==
    \A kind \in {AddSteps, RemoveSteps \cup AdminSteps, ReplaceSteps, RotateSteps, EnableSteps} :
        l \in kind => m \in kind

\* A step of one goroutine leaves the steps and locals of the others alone.
LEMMA OthersStay ==
    ASSUME IInv, NEW h \in Handlers, Request(h) \/ HandlerStep(h),
           NEW g \in Handlers, g # h
    PROVE  pc'[g] = pc[g] /\ loc'[g] = loc[g]
<1>0. pc \in [Handlers -> Labels] /\ loc \in [Handlers -> Locals]
    BY DEF IInv, HandlersOK
<1> USE <1>0 DEF Goto, Return, RemoveReturn, Query, KeepStore
<1>1. CASE Request(h)
    BY <1>1 DEF Request, RegisterPeer, DisconnectPeer, ReplaceKey, AdminPeer,
        AdminRotateWGKey, AdminEnableWG, AdminDisableWG, AdminUpdateUser, Accept
<1>2. CASE AddPeer(h)
    BY <1>2 DEF AddPeer, AddFindUser, AddCount, AddFindMine, AddFindByKey, AddAllocate,
        AddConfigure, AddStore, AddStoreFails, AddUndo, AddRelease
<1>3. CASE RemovePeer(h)
    BY <1>3 DEF RemovePeer, RemoveFind, RemoveConfigure, RemoveStatus, RemoveRelease
<1>4. CASE QueryFails(h) \/ AdminFind(h) \/ AdminStatus(h)
    BY <1>4 DEF QueryFails, AdminFind, AdminStatus
<1>5. CASE ReplaceFind(h) \/ ReplaceConfigure(h) \/ ReplaceStore(h)
    BY <1>5 DEF ReplaceFind, ReplaceConfigure, ReplaceStore
<1>6. CASE \/ RotateList(h) \/ RotateConfigure(h) \/ RotateStoreLow(h) \/ RotateStoreHigh(h)
           \/ EnableList(h) \/ EnableConfigure(h)
    BY <1>6 DEF RotateList, RotateConfigure, RotateStoreLow, RotateStoreHigh, EnableList,
        EnableConfigure, ListPeers
<1> QED
    BY <1>1, <1>2, <1>3, <1>4, <1>5, <1>6 DEF HandlerStep

\* A goroutine goes on with the request it serves, or returns.
LEMMA GoesOn ==
    ASSUME IInv, NEW h \in Handlers, HandlerStep(h)
    PROVE  \/ pc'[h] = "idle"
           \/ SameKind(pc'[h], pc[h]) /\ loc'[h].op = loc[h].op
<1>0. pc \in [Handlers -> Labels] /\ loc \in [Handlers -> Locals] /\ loc[h] \in Locals
    BY DEF IInv, HandlersOK
<1> USE <1>0 DEF Goto, Return, RemoveReturn, Query, SameKind,
                 AddSteps, RemoveSteps, AdminSteps, ReplaceSteps, RotateSteps, EnableSteps
<1>1. CASE AddFindUser(h)
    BY <1>1 DEF AddFindUser, Locals
<1>2. CASE AddCount(h) \/ AddFindMine(h)
    BY <1>2 DEF AddCount, AddFindMine
<1>3. CASE AddFindByKey(h)
    BY <1>3 DEF AddFindByKey, Locals
<1>4. CASE AddAllocate(h)
    BY <1>4 DEF AddAllocate, Locals
<1>5. CASE AddConfigure(h) \/ AddStore(h) \/ AddStoreFails(h) \/ AddUndo(h) \/ AddRelease(h)
    BY <1>5 DEF AddConfigure, AddStore, AddStoreFails, AddUndo, AddRelease
<1>6. ASSUME pc[h] \in RemoveSteps, RemoveReturn(h)
      PROVE  pc'[h] \in {"idle", "admin_status"} /\ (pc'[h] # "idle" => loc'[h].op = loc[h].op)
    BY <1>6 DEF NoLocals
<1>7. CASE RemovePeer(h)
    <2>1. pc[h] \in RemoveSteps
        BY <1>7 DEF RemovePeer, RemoveFind, RemoveConfigure, RemoveStatus, RemoveRelease
    <2>2. CASE RemoveReturn(h)
        BY <1>6, <2>1, <2>2
    <2>3. CASE ~RemoveReturn(h)
        BY <1>7, <2>1, <2>3 DEF RemovePeer, RemoveFind, RemoveConfigure, RemoveStatus,
            RemoveRelease, Locals
    <2> QED BY <2>2, <2>3
<1>8. CASE QueryFails(h)
    BY <1>6, <1>8 DEF QueryFails
<1>9. CASE AdminFind(h) \/ AdminStatus(h)
    BY <1>9 DEF AdminFind, AdminStatus, Locals
<1>10. CASE ReplaceFind(h) \/ ReplaceConfigure(h) \/ ReplaceStore(h)
    BY <1>10 DEF ReplaceFind, ReplaceConfigure, ReplaceStore, Locals
<1>11. CASE RotateList(h) \/ EnableList(h)
    BY <1>11 DEF RotateList, EnableList, ListPeers, Locals
<1>12. CASE RotateConfigure(h)
    BY <1>12 DEF RotateConfigure, Locals
<1>13. CASE RotateStoreLow(h) \/ RotateStoreHigh(h) \/ EnableConfigure(h)
    BY <1>13 DEF RotateStoreLow, RotateStoreHigh, EnableConfigure
<1> QED
    BY <1>1, <1>2, <1>3, <1>4, <1>5, <1>7, <1>8, <1>9, <1>10, <1>11, <1>12, <1>13
    DEF HandlerStep, AddPeer

\* A request that arrives starts with its first call and has found no row.
LEMMA Arrives ==
    ASSUME IInv, NEW h \in Handlers, Request(h)
    PROVE  \/ pc'[h] = pc[h] /\ loc'[h] = loc[h]
           \/ /\ loc'[h].row = NoRow
              /\ pc'[h] \in {"add_user", "rm_find", "rk_find", "admin_find",
                             "rot_list", "en_list"}
<1>0. pc \in [Handlers -> Labels] /\ loc \in [Handlers -> Locals]
    BY DEF IInv, HandlersOK
<1>1. ASSUME NEW l \in {"add_user", "rm_find", "rk_find", "admin_find", "rot_list", "en_list"},
             NEW v, Accept(h, l, v), v.row = NoRow
      PROVE  loc'[h].row = NoRow /\ pc'[h] = l
    BY <1>0, <1>1 DEF Accept, Goto
<1>2. CASE RegisterPeer(h)
    <2>1. PICK u \in Users, k \in Keys :
            Accept(h, "add_user", [NoLocals EXCEPT !.op = "add", !.user = u, !.key = k])
        BY <1>2 DEF RegisterPeer
    <2>2. [NoLocals EXCEPT !.op = "add", !.user = u, !.key = k].row = NoRow
        BY DEF NoLocals
    <2> QED BY <1>1, <2>1, <2>2
<1>3. CASE DisconnectPeer(h)
    <2>1. PICK u \in Users, k \in Keys :
            Accept(h, "rm_find", [NoLocals EXCEPT !.op = "remove", !.user = u, !.key = k])
        BY <1>3 DEF DisconnectPeer
    <2>2. [NoLocals EXCEPT !.op = "remove", !.user = u, !.key = k].row = NoRow
        BY DEF NoLocals
    <2> QED BY <1>1, <2>1, <2>2
<1>4. CASE ReplaceKey(h)
    <2>1. PICK u \in Users, k \in Keys, n \in Keys :
            Accept(h, "rk_find",
                   [NoLocals EXCEPT !.op = "replace", !.user = u, !.key = k, !.new = n])
        BY <1>4 DEF ReplaceKey
    <2>2. [NoLocals EXCEPT !.op = "replace", !.user = u, !.key = k, !.new = n].row = NoRow
        BY DEF NoLocals
    <2> QED BY <1>1, <2>1, <2>2
<1>5. CASE AdminPeer(h)
    <2>1. PICK o \in AdminRequests, r \in Rows :
            Accept(h, "admin_find", [NoLocals EXCEPT !.op = o, !.id = r])
        BY <1>5 DEF AdminPeer
    <2>2. [NoLocals EXCEPT !.op = o, !.id = r].row = NoRow
        BY DEF NoLocals
    <2> QED BY <1>1, <2>1, <2>2
<1>6. CASE AdminRotateWGKey(h)
    <2>1. PICK k \in ServerKeys :
            Accept(h, "rot_list", [NoLocals EXCEPT !.op = "rotate", !.skey = k])
        BY <1>6 DEF AdminRotateWGKey
    <2>2. [NoLocals EXCEPT !.op = "rotate", !.skey = k].row = NoRow
        BY DEF NoLocals
    <2> QED BY <1>1, <2>1, <2>2
<1>7. CASE AdminEnableWG(h)
    <2>1. Accept(h, "en_list", [NoLocals EXCEPT !.op = "enable"])
        BY <1>7 DEF AdminEnableWG
    <2>2. [NoLocals EXCEPT !.op = "enable"].row = NoRow
        BY DEF NoLocals
    <2> QED BY <1>1, <2>1, <2>2
<1>8. CASE AdminDisableWG(h) \/ AdminUpdateUser(h)
    BY <1>8 DEF AdminDisableWG, AdminUpdateUser
<1> QED
    BY <1>2, <1>3, <1>4, <1>5, <1>6, <1>7, <1>8 DEF Request

-----------------------------------------------------------------------------
(* The server's key.                                                       *)

\* No rotation copies its key while another one does, or while enableWG is about
\* to read it.
RotationsApart == \A g, h \in Handlers :
    g # h /\ pc[g] \in {"rot_lo", "rot_hi"} => pc[h] \notin {"rot_lo", "rot_hi", "en_wg"}

RotateKey(h) == <<loc[h].skey, loc[h].skey>>

\* While a rotation copies its key, the device has that key or is off.
RotatingOK(h) ==
    /\ pc[h] \in {"rot_lo", "rot_hi"} => wg.key \in {RotateKey(h), ZeroKey}
    /\ pc[h] = "rot_hi" => serverKey[1] = loc[h].skey

KeyInv == ServerKeyInStep /\ \A h \in Handlers : RotatingOK(h)

\* AddPeer, RemovePeer, ReplaceKey and Reconcile configure peers only.
LEMMA PeersOnly ==
    ASSUME IInv
    PROVE  /\ \A k, a : AddPeerTo(wg, k, a).key = wg.key
           /\ \A ks : RemovePeersFrom(wg, ks).key = wg.key
           /\ \A ks, k, a : AddPeerTo(RemovePeersFrom(wg, ks), k, a).key = wg.key
           /\ \A ks, list : \A e \in AddPeersTo(RemovePeersFrom(wg, ks), list) : e.key = wg.key
<1>1. wg \in Device
    BY DEF IInv, DeviceOK
<1>2. \A ks : RemovePeersFrom(wg, ks) \in Device /\ RemovePeersFrom(wg, ks).key = wg.key
    BY <1>1 DEF RemovePeersFrom, Device
<1>3. \A d \in Device : \A k, a : AddPeerTo(d, k, a).key = d.key
    BY DEF AddPeerTo, Device
<1>4. \A d \in Device : \A list : \A e \in AddPeersTo(d, list) : e.key = d.key
    BY DEF AddPeersTo, Device
<1> QED
    BY <1>1, <1>2, <1>3, <1>4

\* A device that is rebuilt has the key it is given.
LEMMA RebuiltKey == \A k, list : \A e \in ReplacePeers(k, list) : e.key = k
BY DEF ReplacePeers, AddPeersTo

\* The steps of handlers that leave both keys as they are.
LEMMA KeysUntouched ==
    ASSUME IInv, NEW h \in Handlers, HandlerStep(h),
           pc[h] \notin {"rot_wg", "rot_lo", "rot_hi", "en_wg"}
    PROVE  /\ wg'.key = wg.key /\ serverKey' = serverKey
           /\ pc'[h] \notin {"rot_lo", "rot_hi"}
<1>0. pc \in [Handlers -> Labels]
    BY DEF IInv, HandlersOK
<1> USE <1>0, PeersOnly DEF KeepDevice, Goto, Return, RemoveReturn, Query
<1>1. CASE AddFindUser(h) \/ AddCount(h) \/ AddFindMine(h) \/ AddFindByKey(h) \/ AddAllocate(h)
    BY <1>1 DEF AddFindUser, AddCount, AddFindMine, AddFindByKey, AddAllocate
<1>2. CASE AddConfigure(h) \/ AddStore(h) \/ AddStoreFails(h) \/ AddUndo(h) \/ AddRelease(h)
    BY <1>2 DEF AddConfigure, AddStore, AddStoreFails, AddUndo, AddRelease
<1>3. CASE RemovePeer(h)
    BY <1>3 DEF RemovePeer, RemoveFind, RemoveConfigure, RemoveStatus, RemoveRelease
<1>4. CASE QueryFails(h) \/ AdminFind(h) \/ AdminStatus(h)
    BY <1>4 DEF QueryFails, AdminFind, AdminStatus
<1>5. CASE ReplaceFind(h) \/ ReplaceStore(h)
    BY <1>5 DEF ReplaceFind, ReplaceStore
<1>8. CASE ReplaceConfigure(h)
    <2>1. wg'.key = wg.key
        BY <1>8 DEF ReplaceConfigure
    <2> QED BY <1>8, <2>1 DEF ReplaceConfigure
<1>6. CASE RotateList(h) \/ EnableList(h)
    BY <1>6 DEF RotateList, EnableList, ListPeers
<1>7. ~RotateConfigure(h) /\ ~RotateStoreLow(h) /\ ~RotateStoreHigh(h) /\ ~EnableConfigure(h)
    BY DEF RotateConfigure, RotateStoreLow, RotateStoreHigh, EnableConfigure
<1> QED
    BY <1>1, <1>2, <1>3, <1>4, <1>5, <1>6, <1>7, <1>8 DEF HandlerStep, AddPeer

\* A request that arrives turns the device off, if anything, and finds its
\* goroutine idle.
LEMMA RequestsKeepKeys ==
    ASSUME NEW h \in Handlers, Request(h)
    PROVE  /\ wg'.key \in {wg.key, ZeroKey} /\ serverKey' = serverKey
           /\ (pc'[h] = pc[h] /\ loc'[h] = loc[h]) \/ pc[h] = "idle"
<1>1. wg'.key \in {wg.key, ZeroKey} /\ serverKey' = serverKey
    BY RebuiltKey DEF Request, RegisterPeer, DisconnectPeer, ReplaceKey, AdminPeer,
        AdminRotateWGKey, AdminEnableWG, AdminDisableWG, AdminUpdateUser, Accept, KeepDevice
<1>2. (pc'[h] = pc[h] /\ loc'[h] = loc[h]) \/ pc[h] = "idle"
    BY DEF Request, RegisterPeer, DisconnectPeer, ReplaceKey, AdminPeer,
        AdminRotateWGKey, AdminEnableWG, AdminDisableWG, AdminUpdateUser, Accept
<1> QED BY <1>1, <1>2

\* What a handler does at these steps.
LEMMA KeySteps ==
    ASSUME NEW h \in Handlers, HandlerStep(h), pc[h] \in {"rot_wg", "rot_lo", "rot_hi", "en_wg"}
    PROVE  RotateConfigure(h) \/ RotateStoreLow(h) \/ RotateStoreHigh(h) \/ EnableConfigure(h)
<1>1. ~AddPeer(h)
    BY DEF AddPeer, AddFindUser, AddCount, AddFindMine, AddFindByKey, AddAllocate,
        AddConfigure, AddStore, AddStoreFails, AddUndo, AddRelease
<1>2. ~RemovePeer(h) /\ ~QueryFails(h)
    BY DEF RemovePeer, RemoveFind, RemoveConfigure, RemoveStatus, RemoveRelease, QueryFails
<1>3. /\ ~AdminFind(h) /\ ~AdminStatus(h) /\ ~RotateList(h) /\ ~EnableList(h)
      /\ ~ReplaceFind(h) /\ ~ReplaceConfigure(h) /\ ~ReplaceStore(h)
    BY DEF AdminFind, AdminStatus, RotateList, EnableList, ReplaceFind, ReplaceConfigure,
        ReplaceStore
<1> QED BY <1>1, <1>2, <1>3 DEF HandlerStep

\* The steps of rotations and of enableWG.
LEMMA KeyStepsKeep ==
    ASSUME IInv, RotationsApart, RotationsApart', KeyInv, NEW h \in Handlers, HandlerStep(h),
           pc[h] \in {"rot_wg", "rot_lo", "rot_hi", "en_wg"}
    PROVE  KeyInv'
<1>0. /\ pc \in [Handlers -> Labels] /\ loc \in [Handlers -> Locals]
      /\ serverKey = <<serverKey[1], serverKey[2]>>
    BY DEF IInv, HandlersOK, PrivateKeys
<1>1. \A g \in Handlers \ {h} : pc'[g] = pc[g] /\ loc'[g] = loc[g]
    BY OthersStay
<1>2. ASSUME \A g \in Handlers \ {h} : pc[g] \notin {"rot_lo", "rot_hi"}
      PROVE  \A g \in Handlers \ {h} : RotatingOK(g)'
    BY <1>1, <1>2 DEF RotatingOK
<1>3. CASE RotateConfigure(h)
    <2>1. CASE CallFails /\ UNCHANGED wg /\ Return(h)
        <3>1. pc[h] = "rot_wg" /\ pc'[h] = "idle" /\ UNCHANGED <<wg, serverKey>>
            BY <1>0, <1>3, <2>1 DEF RotateConfigure, Return, Goto
        <3> QED BY <1>1, <3>1 DEF KeyInv, RotatingOK, RotateKey, ServerKeyInStep
    <2>2. CASE /\ wg' \in ReplacePeers(RotateKey(h), loc[h].list)
               /\ Goto(h, "rot_lo") /\ loc' = [loc EXCEPT ![h].list = {}]
        <3>1. pc'[h] = "rot_lo" /\ loc'[h].skey = loc[h].skey
            BY <1>0, <2>2 DEF Goto, Locals
        <3>2. wg'.key = RotateKey(h)
            BY <2>2, RebuiltKey
        <3>3. \A g \in Handlers \ {h} : pc[g] \notin {"rot_lo", "rot_hi"}
            BY <1>1, <3>1 DEF RotationsApart
        <3> QED BY <1>2, <3>1, <3>2, <3>3 DEF KeyInv, RotatingOK, RotateKey, ServerKeyInStep
    <2> QED BY <1>3, <2>1, <2>2 DEF RotateConfigure, RotateKey
<1>4. CASE RotateStoreLow(h)
    <2>1. pc[h] = "rot_lo" /\ pc'[h] = "rot_hi" /\ loc' = loc /\ wg' = wg
        BY <1>0, <1>4 DEF RotateStoreLow, Goto
    <2>2. serverKey'[1] = loc[h].skey
        BY <1>4 DEF RotateStoreLow
    <2>3. \A g \in Handlers \ {h} : pc[g] \notin {"rot_lo", "rot_hi"}
        BY <2>1 DEF RotationsApart
    <2> QED BY <1>2, <2>1, <2>2, <2>3 DEF KeyInv, RotatingOK, RotateKey, ServerKeyInStep
<1>5. CASE RotateStoreHigh(h)
    <2>1. pc[h] = "rot_hi" /\ pc'[h] = "idle" /\ wg' = wg
        BY <1>0, <1>5 DEF RotateStoreHigh, Return, Goto
    <2>2. serverKey' = RotateKey(h)
        BY <1>5, <2>1 DEF KeyInv, RotatingOK, RotateStoreHigh, RotateKey
    <2>3. \A g \in Handlers \ {h} : pc[g] \notin {"rot_lo", "rot_hi"}
        BY <2>1 DEF RotationsApart
    <2> QED BY <1>2, <2>1, <2>2, <2>3 DEF KeyInv, RotatingOK, ServerKeyInStep
<1>6. CASE EnableConfigure(h)
    <2>1. pc[h] = "en_wg" /\ pc'[h] = "idle" /\ serverKey' = serverKey
        BY <1>0, <1>6 DEF EnableConfigure, Return, Goto
    <2>2. wg'.key \in {serverKey, wg.key}
        BY <1>6, RebuiltKey DEF EnableConfigure
    <2>3. \A g \in Handlers \ {h} : pc[g] \notin {"rot_lo", "rot_hi"}
        BY <2>1 DEF RotationsApart
    <2>4. wg.key \in {serverKey, ZeroKey}
        BY <2>1, <2>3 DEF KeyInv, ServerKeyInStep
    <2> QED BY <1>2, <2>1, <2>2, <2>3, <2>4 DEF KeyInv, RotatingOK, ServerKeyInStep
<1> QED BY <1>3, <1>4, <1>5, <1>6, KeySteps

\* The manager's key and the device's are in step, through every interleaving
\* of requests that copies the key in one goroutine at a time.
LEMMA KeyInvKept ==
    ASSUME IInv, RotationsApart, RotationsApart', KeyInv, [Next]_vars
    PROVE  KeyInv'
<1>0. pc \in [Handlers -> Labels]
    BY DEF IInv, HandlersOK
<1>1. ASSUME wg'.key \in {wg.key, ZeroKey}, serverKey' = serverKey,
             \A g \in Handlers : \/ pc'[g] = pc[g] /\ loc'[g] = loc[g]
                                \/ {pc[g], pc'[g]} \cap {"rot_lo", "rot_hi"} = {}
      PROVE  KeyInv'
    BY <1>1 DEF KeyInv, RotatingOK, RotateKey, ServerKeyInStep
<1>2. ASSUME NEW h \in Handlers, Request(h) PROVE KeyInv'
    <2>1. /\ \A g \in Handlers \ {h} : pc'[g] = pc[g] /\ loc'[g] = loc[g]
          /\ (pc'[h] = pc[h] /\ loc'[h] = loc[h]) \/ pc'[h] \notin {"rot_lo", "rot_hi"}
        BY <1>2, Arrives, OthersStay
    <2> QED BY <1>1, <1>2, <2>1, RequestsKeepKeys
<1>3. ASSUME NEW h \in Handlers, HandlerStep(h) PROVE KeyInv'
    <2>1. CASE pc[h] \in {"rot_wg", "rot_lo", "rot_hi", "en_wg"}
        BY <1>3, <2>1, KeyStepsKeep
    <2>2. CASE pc[h] \notin {"rot_wg", "rot_lo", "rot_hi", "en_wg"}
        <3>1. /\ wg'.key = wg.key /\ serverKey' = serverKey
              /\ pc'[h] \notin {"rot_lo", "rot_hi"}
            BY <1>3, <2>2, KeysUntouched
        <3>2. \A g \in Handlers \ {h} : pc'[g] = pc[g] /\ loc'[g] = loc[g]
            BY <1>3, OthersStay
        <3> QED BY <1>1, <2>2, <3>1, <3>2
    <2> QED BY <2>1, <2>2
<1>4. CASE Reconcile \/ ReconcileFails
    BY <1>1, <1>4, PeersOnly DEF Reconcile, ReconcileList, ReconcileReserve, ReconcileDevice,
        ReconcileConfigure, ReconcileFails, KeepDevice
<1>5. CASE Restart
    BY <1>5, RebuiltKey DEF Restart, Started, KeyInv, RotatingOK, ServerKeyInStep
<1>6. CASE Settle \/ UNCHANGED vars
    BY <1>1, <1>6 DEF Settle, vars, KeepDevice
<1> QED BY <1>2, <1>3, <1>4, <1>5, <1>6 DEF Next

\* RotateServerKey changes the device's key in one call and the manager's in two
\* more. As long as no other rotation or enabling falls between these, the key
\* told to clients is the device's whenever none is under way, whatever else
\* runs, fails or restarts.
THEOREM KeysInStep == Spec /\ []RotationsApart => []ServerKeyInStep
<1>1. Init => KeyInv
    BY DEF Init, KeyInv, RotatingOK, ServerKeyInStep
<1>2. IInv /\ RotationsApart /\ RotationsApart' /\ KeyInv /\ [Next]_vars => KeyInv'
    BY KeyInvKept
<1>3. KeyInv => ServerKeyInStep
    BY DEF KeyInv
<1> QED
    BY <1>1, <1>2, <1>3, InitIInv, NextIInv, PTL DEF Spec

-----------------------------------------------------------------------------
(* What one write does to the peers table.                                 *)

\* AddPeer's write makes one row active, its user's, with the address that it
\* took: the row it remembers, or else a new one with a key that no row has.
LEMMA AddedRow ==
    ASSUME IInv, NEW h \in Handlers, pc[h] = "add_store", peers' \in AddedTo(peers, loc[h])
    PROVE  \E r \in Rows :
            /\ peers'[r].status = "active" /\ peers'[r].ip = loc[h].ip
            /\ peers'[r].user = loc[h].user
            /\ IF loc[h].row = NoRow
               THEN /\ peers[r].status = "none"
                    /\ peers'[r].key = loc[h].key /\ ~KeyTaken(peers, NoRow, loc[h].key)
               ELSE r = loc[h].row /\ peers'[r].key = peers[r].key
            /\ \A q \in Rows \ {r} : peers'[q] = peers[q]
<1>0. HandlerOK(pc[h], loc[h], peers) /\ peers \in [Rows -> Peer]
    BY HandlerFacts DEF IInv, TableOK
<1>1. CASE loc[h].row # NoRow
    <2>1. loc[h].row \in Rows /\ peers[loc[h].row].user = loc[h].user
        BY <1>0, <1>1 DEF HandlerOK, Present
    <2>2. peers' = Activate(peers, loc[h].row, loc[h].ip)
        BY <1>1 DEF AddedTo
    <2> QED BY <1>0, <1>1, <2>1, <2>2 DEF Activate, Peer
<1>2. CASE loc[h].row = NoRow
    <2>1. PICK q \in FreshRow(peers) :
            peers' = Create(peers, q, loc[h].user, loc[h].key, loc[h].ip)
        BY <1>2 DEF AddedTo
    <2>2. q \in Rows /\ peers[q].status = "none" /\ ~KeyTaken(peers, NoRow, loc[h].key)
        BY <1>2 DEF AddedTo, FreshRow, Unused
    <2> QED BY <1>0, <1>2, <2>1, <2>2 DEF Create
<1> QED BY <1>1, <1>2

\* Every other write keeps owner and address of the row it changes, and makes
\* none active: RemovePeer and the admin handlers take a row out of use,
\* ReplaceKey changes its key to one that no other row has.
LEMMA ChangedRow ==
    ASSUME IInv, NEW h \in Handlers, Writes(h), pc[h] # "add_store"
    PROVE  \A r \in Rows :
            /\ peers'[r].user = peers[r].user /\ peers'[r].ip = peers[r].ip
            /\ \/ peers'[r].status = peers[r].status
               \/ pc[h] = "rm_status" /\ r = loc[h].row /\ peers'[r].status = "disconnected"
               \/ /\ pc[h] = "admin_status" /\ r = loc[h].id
                  /\ peers'[r].status = IF loc[h].op = "revoke" THEN "revoked" ELSE "disconnected"
            /\ \/ peers'[r].key = peers[r].key
               \/ /\ pc[h] = "rk_store" /\ r = loc[h].row
                  /\ peers'[r].key = loc[h].new /\ ~KeyTaken(peers, r, loc[h].new)
<1>0. HandlerOK(pc[h], loc[h], peers) /\ peers \in [Rows -> Peer]
    BY HandlerFacts DEF IInv, TableOK
<1>1. CASE RemoveStatus(h)
    <2>1. loc[h].row \in Rows
        BY <1>0, <1>1 DEF RemoveStatus, HandlerOK, RowSteps, Present
    <2> QED BY <1>0, <1>1, <2>1 DEF RemoveStatus, UpdateStatus, Peer
<1>2. CASE AdminStatus(h)
    <2>1. loc[h].id \in Rows
        BY <1>0, <1>2 DEF AdminStatus, HandlerOK, Present
    <2> QED BY <1>0, <1>2, <2>1 DEF AdminStatus, UpdateStatus, Peer
<1>3. CASE ReplaceStore(h)
    <2>1. loc[h].row \in Rows
        BY <1>0, <1>3 DEF ReplaceStore, HandlerOK, RowSteps, Present
    <2> QED BY <1>0, <1>3, <2>1 DEF ReplaceStore, UpdatePublicKey, Peer
<1> QED BY <1>1, <1>2, <1>3 DEF Writes, AddStore, AddStoreFails

\* AddPeer's is the only write at its step.
LEMMA AddWrites ==
    ASSUME NEW h \in Handlers, Writes(h), pc[h] = "add_store", peers' # peers
    PROVE  peers' \in AddedTo(peers, loc[h])
BY DEF Writes, AddStore, AddStoreFails, RemoveStatus, AdminStatus, ReplaceStore

-----------------------------------------------------------------------------
(* The limit of peers.                                                     *)

\* Steps of a registration between its count and its write.
Counted == {"add_mine", "add_bykey", "add_alloc", "add_wg", "add_store"}

\* No two registrations of one user are there at the same time.
CountsApart == \A g, h \in Handlers :
    g # h /\ {pc[g], pc[h]} \subseteq Counted => loc[g].user # loc[h].user

\* Only finitely many rows are active, and a registration that has counted its
\* user's peers has room for one more.
QuotaInv ==
    /\ IsFiniteSet(Active(peers))
    /\ \A h \in Handlers :
        pc[h] \in Counted => CountActiveByUserID(peers, loc[h].user) < loc[h].quota

\* A count of active peers is a number.
LEMMA CountsNat ==
    ASSUME NEW t, IsFiniteSet(Active(t)), NEW u
    PROVE  IsFiniteSet(FindActiveByUserID(t, u)) /\ CountActiveByUserID(t, u) \in Nat
<1>1. FindActiveByUserID(t, u) \subseteq Active(t)
    BY DEF FindActiveByUserID
<1> QED BY <1>1, FS_Subset, FS_CardinalityType DEF CountActiveByUserID

\* A write other than AddPeer's makes no user's peers more.
LEMMA CountsFall ==
    ASSUME IInv, QuotaInv, NEW h \in Handlers, Writes(h), pc[h] # "add_store"
    PROVE  /\ IsFiniteSet(Active(peers'))
           /\ \A u : CountActiveByUserID(peers', u) <= CountActiveByUserID(peers, u)
<1>1. Active(peers') \subseteq Active(peers)
    BY ChangedRow DEF Active
<1>2. \A u : FindActiveByUserID(peers', u) \subseteq FindActiveByUserID(peers, u)
    BY <1>1, ChangedRow DEF FindActiveByUserID, Active
<1>3. ASSUME NEW u
      PROVE  Cardinality(FindActiveByUserID(peers', u)) <= Cardinality(FindActiveByUserID(peers, u))
    <2>1. IsFiniteSet(FindActiveByUserID(peers, u))
        BY FS_Subset DEF QuotaInv, FindActiveByUserID
    <2> QED BY <1>2, <2>1, FS_Subset
<1>4. IsFiniteSet(Active(peers'))
    BY <1>1, FS_Subset DEF QuotaInv
<1> QED BY <1>3, <1>4 DEF CountActiveByUserID

\* AddPeer's makes its user's at most one more, and nobody else's.
LEMMA CountRises ==
    ASSUME IInv, QuotaInv, NEW h \in Handlers, pc[h] = "add_store",
           peers' \in AddedTo(peers, loc[h])
    PROVE  /\ IsFiniteSet(Active(peers'))
           /\ \A u : /\ CountActiveByUserID(peers, u) \in Nat
                     /\ CountActiveByUserID(peers', u) \in Nat
                     /\ CountActiveByUserID(peers', u) <= CountActiveByUserID(peers, u)
                        \/ /\ u = loc[h].user
                           /\ CountActiveByUserID(peers', u) <= CountActiveByUserID(peers, u) + 1
<1>1. PICK r \in Rows :
        /\ peers'[r].status = "active" /\ peers'[r].user = loc[h].user
        /\ IF loc[h].row = NoRow THEN peers[r].status = "none" ELSE r = loc[h].row
        /\ \A q \in Rows \ {r} : peers'[q] = peers[q]
    BY AddedRow
<1>2. Active(peers') = Active(peers) \cup {r}
    BY <1>1 DEF Active
<1>3. IsFiniteSet(Active(peers')) /\ IsFiniteSet(Active(peers))
    BY <1>2, FS_AddElement DEF QuotaInv
<1>4. ASSUME NEW u
      PROVE  /\ IsFiniteSet(FindActiveByUserID(peers, u))
             /\ IsFiniteSet(FindActiveByUserID(peers', u))
             /\ Cardinality(FindActiveByUserID(peers, u)) \in Nat
             /\ Cardinality(FindActiveByUserID(peers', u)) \in Nat
    BY <1>3, FS_Subset, FS_CardinalityType DEF FindActiveByUserID
<1>5. ASSUME NEW u, u # loc[h].user
      PROVE  Cardinality(FindActiveByUserID(peers', u)) <= Cardinality(FindActiveByUserID(peers, u))
    <2>1. ASSUME NEW q \in FindActiveByUserID(peers', u) PROVE q \in FindActiveByUserID(peers, u)
        BY <1>1, <1>5, <2>1 DEF FindActiveByUserID, Active
    <2> QED BY <1>4, <2>1, FS_Subset
<1>6. Cardinality(FindActiveByUserID(peers', loc[h].user))
        <= Cardinality(FindActiveByUserID(peers, loc[h].user)) + 1
    <2> DEFINE S == FindActiveByUserID(peers, loc[h].user)
               T == FindActiveByUserID(peers', loc[h].user)
    <2>1. ASSUME NEW q \in T PROVE q \in S \cup {r}
        BY <1>1, <2>1 DEF FindActiveByUserID, Active
    <2>2. IsFiniteSet(S) /\ IsFiniteSet(T) /\ Cardinality(S) \in Nat /\ Cardinality(T) \in Nat
        BY <1>4
    <2> HIDE DEF S, T
    <2>3. /\ IsFiniteSet(S \cup {r})
          /\ Cardinality(S \cup {r}) = IF r \in S THEN Cardinality(S) ELSE Cardinality(S) + 1
        BY <2>2, FS_AddElement
    <2>4. Cardinality(T) <= Cardinality(S \cup {r})
        BY <2>1, <2>3, FS_Subset
    <2>5. Cardinality(T) <= Cardinality(S) + 1
        BY <2>2, <2>3, <2>4
    <2> QED BY <2>5 DEF S, T
<1> QED BY <1>3, <1>4, <1>5, <1>6 DEF CountActiveByUserID

\* The steps of AddPeer after its count keep the limit it read and its user; it
\* gets there by the count.
LEMMA CountedSteps ==
    ASSUME IInv, NEW h \in Handlers, HandlerStep(h), pc'[h] \in Counted
    PROVE  /\ peers' = peers
           /\ loc'[h].user = loc[h].user /\ loc'[h].quota = loc[h].quota
           /\ pc[h] \in Counted
              \/ ~(CountActiveByUserID(peers, loc[h].user) >= loc[h].quota)
<1>0. pc \in [Handlers -> Labels] /\ loc \in [Handlers -> Locals] /\ loc[h] \in Locals
    BY DEF IInv, HandlersOK
<1>1. CASE pc[h] \notin AddSteps
    <2>1. pc'[h] \notin AddSteps
        BY <1>1, GoesOn DEF SameKind, AddSteps, Counted
    <2> QED BY <2>1 DEF AddSteps, Counted
<1>2. CASE QueryFails(h)
    BY <1>0, <1>2, NoLocalsOK DEF QueryFails, Counted, Return, RemoveReturn, Goto
<1> USE <1>0 DEF KeepStore, Goto, Return, Query, Counted
<1>3. CASE AddFindUser(h) \/ AddCount(h) \/ AddFindMine(h)
    BY <1>3 DEF AddFindUser, AddCount, AddFindMine, Locals
<1>4. CASE AddFindByKey(h)
    BY <1>4 DEF AddFindByKey, Locals
<1>5. CASE AddAllocate(h)
    BY <1>5 DEF AddAllocate, Locals
<1>6. CASE AddConfigure(h) \/ AddStore(h) \/ AddStoreFails(h) \/ AddUndo(h) \/ AddRelease(h)
    BY <1>6 DEF AddConfigure, AddStore, AddStoreFails, AddUndo, AddRelease
<1>7. CASE RemovePeer(h) \/ AdminFind(h) \/ AdminStatus(h)
    <2>1. pc[h] \notin AddSteps
        BY <1>7 DEF RemovePeer, RemoveFind, RemoveConfigure, RemoveStatus, RemoveRelease,
            AdminFind, AdminStatus, AddSteps
    <2> QED BY <1>1, <2>1
<1>8. CASE \/ ReplaceFind(h) \/ ReplaceConfigure(h) \/ ReplaceStore(h)
           \/ RotateList(h) \/ RotateConfigure(h) \/ RotateStoreLow(h) \/ RotateStoreHigh(h)
           \/ EnableList(h) \/ EnableConfigure(h)
    <2>1. pc[h] \notin AddSteps
        BY <1>8 DEF ReplaceFind, ReplaceConfigure, ReplaceStore, RotateList, RotateConfigure,
            RotateStoreLow, RotateStoreHigh, EnableList, EnableConfigure, AddSteps
    <2> QED BY <1>1, <2>1
<1> QED BY <1>2, <1>3, <1>4, <1>5, <1>6, <1>7, <1>8 DEF HandlerStep, AddPeer

\* A registration counts its user's peers, and has room for one more until it
\* writes, because no other registration of the user writes in between.
LEMMA QuotaInvKept ==
    ASSUME IInv, CountsApart, QuotaInv, [Next]_vars
    PROVE  QuotaInv'
<1>0. pc \in [Handlers -> Labels] /\ loc \in [Handlers -> Locals]
    BY DEF IInv, HandlersOK
<1>1. \A u : CountActiveByUserID(peers, u) \in Nat
    BY CountsNat DEF QuotaInv
<1>2. \A h \in Handlers : loc[h].quota \in Nat
    BY <1>0 DEF Locals
<1>3. ASSUME peers' = peers,
             \A g \in Handlers : \/ pc'[g] = pc[g] /\ loc'[g] = loc[g]
                                \/ pc'[g] \notin Counted
      PROVE  QuotaInv'
    BY <1>3 DEF QuotaInv
<1>4. ASSUME NEW h \in Handlers, Request(h) PROVE QuotaInv'
    <2>1. peers' = peers
        BY <1>4 DEF Request, RegisterPeer, DisconnectPeer, ReplaceKey, AdminPeer,
            AdminRotateWGKey, AdminEnableWG, AdminDisableWG, AdminUpdateUser, Accept, KeepStore
    <2>2. (pc'[h] = pc[h] /\ loc'[h] = loc[h]) \/ pc'[h] \notin Counted
        BY <1>4, Arrives DEF Counted
    <2> QED BY <1>3, <1>4, <2>1, <2>2, OthersStay
<1>5. ASSUME NEW h \in Handlers, HandlerStep(h) PROVE QuotaInv'
    <2>1. \A g \in Handlers \ {h} : pc'[g] = pc[g] /\ loc'[g] = loc[g]
        BY <1>5, OthersStay
    <2>2. CASE peers' = peers
        <3>1. IsFiniteSet(Active(peers'))
            BY <2>2 DEF QuotaInv
        <3>2. ASSUME pc'[h] \in Counted
              PROVE  CountActiveByUserID(peers', loc'[h].user) < loc'[h].quota
            BY <1>1, <1>2, <1>5, <2>2, <3>2, CountedSteps DEF QuotaInv
        <3> QED BY <2>1, <2>2, <3>1, <3>2 DEF QuotaInv
    <2>3. CASE peers' # peers
        <3>1. Writes(h)
            BY <1>5, <2>3, HandlerWrites
        <3>2. pc'[h] \notin Counted
            BY <1>5, <2>3, CountedSteps
        <3>3. CASE pc[h] # "add_store"
            <4>1. /\ IsFiniteSet(Active(peers'))
                  /\ \A u : CountActiveByUserID(peers', u) <= CountActiveByUserID(peers, u)
                BY <3>1, <3>3, CountsFall
            <4>2. \A u : CountActiveByUserID(peers', u) \in Nat
                BY <4>1, CountsNat
            <4>3. ASSUME NEW g \in Handlers \ {h}, pc'[g] \in Counted
                  PROVE  CountActiveByUserID(peers', loc'[g].user) < loc'[g].quota
                <5>1. /\ CountActiveByUserID(peers, loc[g].user) < loc[g].quota
                      /\ loc'[g] = loc[g]
                    BY <2>1, <4>3 DEF QuotaInv
                <5> QED BY <1>1, <1>2, <4>1, <4>2, <5>1
            <4> QED BY <3>2, <4>1, <4>3 DEF QuotaInv
        <3>4. CASE pc[h] = "add_store"
            <4>1. peers' \in AddedTo(peers, loc[h])
                BY <2>3, <3>1, <3>4, AddWrites
            <4>2. /\ IsFiniteSet(Active(peers'))
                  /\ \A u : CountActiveByUserID(peers', u) \in Nat
                  /\ \A u : u # loc[h].user =>
                        CountActiveByUserID(peers', u) <= CountActiveByUserID(peers, u)
                BY <3>4, <4>1, CountRises
            <4>3. ASSUME NEW g \in Handlers \ {h}, pc'[g] \in Counted
                  PROVE  CountActiveByUserID(peers', loc'[g].user) < loc'[g].quota
                <5>1. /\ CountActiveByUserID(peers, loc[g].user) < loc[g].quota
                      /\ loc'[g] = loc[g] /\ pc[g] \in Counted
                    BY <2>1, <4>3 DEF QuotaInv
                <5>2. loc[g].user # loc[h].user
                    BY <3>4, <5>1 DEF CountsApart, Counted
                <5> QED BY <1>1, <1>2, <4>2, <5>1, <5>2
            <4> QED BY <3>2, <4>2, <4>3 DEF QuotaInv
        <3> QED BY <3>3, <3>4
    <2> QED BY <2>2, <2>3
<1>6. CASE Reconcile \/ ReconcileFails \/ Settle \/ UNCHANGED vars
    BY <1>3, <1>6 DEF Reconcile, ReconcileList, ReconcileReserve, ReconcileDevice,
        ReconcileConfigure, ReconcileFails, Settle, KeepStore, vars
<1>7. CASE Restart
    BY <1>3, <1>7 DEF Restart, Started, KeepStore, Counted
<1> QED BY <1>4, <1>5, <1>6, <1>7 DEF Next

\* AddPeer counts four calls before it writes. As long as no other registration
\* of the same user is between its count and its write, no user gets more active
\* peers than the max_peers read, whatever other users register and whatever
\* removals, revocations, failures and restarts come in between.
THEOREM QuotaRespected == Spec /\ []CountsApart => WithinQuota
<1>1. Init => QuotaInv
    <2> SUFFICES ASSUME Init PROVE QuotaInv
        OBVIOUS
    <2>1. Active(peers) = {}
        BY DEF Init, Active, NoPeer
    <2>2. \A h \in Handlers : pc[h] \notin Counted
        BY DEF Init, Counted
    <2> QED BY <2>1, <2>2, FS_EmptySet DEF QuotaInv
<1>2. IInv /\ CountsApart /\ QuotaInv /\ [Next]_vars => QuotaInv'
    BY QuotaInvKept
<1>3. ASSUME IInv, QuotaInv, [Next]_vars, NEW u \in Users,
             CountActiveByUserID(peers', u) > CountActiveByUserID(peers, u)
      PROVE  \E h \in Handlers : /\ pc[h] = "add_store" /\ loc[h].user = u
                                 /\ CountActiveByUserID(peers', u) <= loc[h].quota
    <2>0. CountActiveByUserID(peers, u) \in Nat /\ IsFiniteSet(Active(peers))
        BY <1>3, CountsNat DEF QuotaInv
    <2>1. peers' # peers
        BY <1>3, <2>0
    <2>2. PICK h \in Handlers : Writes(h)
        BY <1>3, <2>1, Writers
    <2>3. pc[h] = "add_store"
        <3> SUFFICES ASSUME pc[h] # "add_store" PROVE FALSE
            OBVIOUS
        <3>1. CountActiveByUserID(peers', u) <= CountActiveByUserID(peers, u)
            BY <1>3, <2>2, CountsFall
        <3>2. IsFiniteSet(Active(peers'))
            BY <1>3, <2>2, CountsFall
        <3>3. CountActiveByUserID(peers', u) \in Nat
            BY <3>2, CountsNat
        <3> QED BY <1>3, <2>0, <3>1, <3>3
    <2>4. peers' \in AddedTo(peers, loc[h])
        BY <2>1, <2>2, <2>3, AddWrites
    <2>5. /\ CountActiveByUserID(peers', u) \in Nat
          /\ u = loc[h].user
          /\ CountActiveByUserID(peers', u) <= CountActiveByUserID(peers, u) + 1
        BY <1>3, <2>0, <2>3, <2>4, CountRises
    <2>6. CountActiveByUserID(peers, u) < loc[h].quota /\ loc[h].quota \in Nat
        BY <1>3, <2>3, <2>5 DEF QuotaInv, Counted, IInv, HandlersOK, Locals
    <2> QED BY <2>0, <2>3, <2>5, <2>6
<1>4. IInv /\ QuotaInv /\ [Next]_vars =>
        [\A u \in Users :
            CountActiveByUserID(peers', u) > CountActiveByUserID(peers, u)
              => \E h \in Handlers :
                    /\ pc[h] = "add_store"
                    /\ loc[h].user = u
                    /\ CountActiveByUserID(peers', u) <= loc[h].quota]_vars
    BY <1>3
<1> QED
    BY <1>1, <1>2, <1>4, InitIInv, NextIInv, PTL DEF Spec, WithinQuota

-----------------------------------------------------------------------------
(* Revocation.                                                             *)

\* A handler that has found a row and not yet written what it found it for.
Intends(l, v) ==
    \/ l \in {"rm_wg", "rm_status", "rk_wg", "rk_store"}
    \/ l \in {"add_alloc", "add_wg", "add_store"} /\ v.row # NoRow

\* No handler is about to revoke a row that another has found.
RevocationsApart == \A g, h \in Handlers :
    g # h /\ Intends(pc[g], loc[g]) /\ pc[h] = "admin_status" /\ loc[h].op = "revoke"
        => loc[g].row # loc[h].id

\* Steps of a registration that has not looked its key up.
EarlySteps == {"add_user", "add_count", "add_mine", "add_bykey"}

RevokedInv == \A h \in Handlers :
    /\ pc[h] \in EarlySteps => loc[h].row = NoRow
    /\ Intends(pc[h], loc[h]) => peers[loc[h].row].status # "revoked"

\* A handler finds such a row in a query: a disconnected one to activate, an
\* active one for anything else. From then on it is the same row.
LEMMA IntendsSteps ==
    ASSUME IInv, NEW h \in Handlers, HandlerStep(h), pc[h] \in EarlySteps => loc[h].row = NoRow
    PROVE  /\ pc'[h] \in EarlySteps => loc'[h].row = NoRow /\ peers' = peers
           /\ Intends(pc'[h], loc'[h]) =>
                /\ peers' = peers
                /\ \/ /\ Intends(pc[h], loc[h]) /\ loc'[h].row = loc[h].row
                      /\ pc[h] \in AddSteps <=> pc'[h] \in AddSteps
                   \/ peers[loc'[h].row].status =
                            IF pc'[h] \in AddSteps THEN "disconnected" ELSE "active"
<1>0. pc \in [Handlers -> Labels] /\ loc \in [Handlers -> Locals] /\ loc[h] \in Locals
    BY DEF IInv, HandlersOK
<1> USE <1>0 DEF KeepStore, Goto, Return, RemoveReturn, Query, Intends, EarlySteps, AddSteps
<1>1. CASE QueryFails(h)
    BY <1>1 DEF QueryFails
<1>2. CASE AddFindUser(h) \/ AddCount(h) \/ AddFindMine(h)
    BY <1>2 DEF AddFindUser, AddCount, AddFindMine, Locals
<1>3. CASE AddFindByKey(h)
    BY <1>3 DEF AddFindByKey, Locals
<1>4. CASE AddAllocate(h)
    BY <1>4 DEF AddAllocate, Locals
<1>5. CASE AddConfigure(h) \/ AddStore(h) \/ AddStoreFails(h) \/ AddUndo(h) \/ AddRelease(h)
    BY <1>5 DEF AddConfigure, AddStore, AddStoreFails, AddUndo, AddRelease
<1>6. CASE RemoveFind(h)
    BY <1>6 DEF RemoveFind, FindActiveByUserID, Active, Locals
<1>7. CASE RemoveConfigure(h) \/ RemoveStatus(h) \/ RemoveRelease(h)
    BY <1>7 DEF RemoveConfigure, RemoveStatus, RemoveRelease
<1>8. CASE AdminFind(h) \/ AdminStatus(h)
    BY <1>8 DEF AdminFind, AdminStatus
<1>9. CASE ReplaceFind(h)
    BY <1>9 DEF ReplaceFind, FindActiveByUserID, Active, Locals
<1>10. CASE ReplaceConfigure(h) \/ ReplaceStore(h)
    BY <1>10 DEF ReplaceConfigure, ReplaceStore
<1>11. CASE \/ RotateList(h) \/ RotateConfigure(h) \/ RotateStoreLow(h) \/ RotateStoreHigh(h)
            \/ EnableList(h) \/ EnableConfigure(h)
    BY <1>11 DEF RotateList, RotateConfigure, RotateStoreLow, RotateStoreHigh, EnableList,
        EnableConfigure, ListPeers
<1> QED
    BY <1>1, <1>2, <1>3, <1>4, <1>5, <1>6, <1>7, <1>8, <1>9, <1>10, <1>11
    DEF HandlerStep, AddPeer, RemovePeer

\* A request that arrives has found no row.
LEMMA RequestsIntendNothing ==
    ASSUME IInv, NEW h \in Handlers, Request(h)
    PROVE  /\ peers' = peers
           /\ \/ pc'[h] = pc[h] /\ loc'[h] = loc[h]
              \/ loc'[h].row = NoRow /\ ~Intends(pc'[h], loc'[h])
<1>1. peers' = peers
    BY DEF Request, RegisterPeer, DisconnectPeer, ReplaceKey, AdminPeer,
        AdminRotateWGKey, AdminEnableWG, AdminDisableWG, AdminUpdateUser, Accept, KeepStore
<1>2. \/ pc'[h] = pc[h] /\ loc'[h] = loc[h]
      \/ loc'[h].row = NoRow /\ ~Intends(pc'[h], loc'[h])
    BY Arrives DEF Intends
<1> QED BY <1>1, <1>2

\* No row is revoked while a request is going to write it for another reason.
LEMMA RevokedInvKept ==
    ASSUME IInv, RevocationsApart, RevokedInv, [Next]_vars
    PROVE  RevokedInv'
<1>1. ASSUME peers' = peers,
             \A g \in Handlers : \/ pc'[g] = pc[g] /\ loc'[g] = loc[g]
                                \/ /\ pc'[g] \in EarlySteps => loc'[g].row = NoRow
                                   /\ ~Intends(pc'[g], loc'[g])
      PROVE  RevokedInv'
    BY <1>1 DEF RevokedInv
<1>2. ASSUME NEW h \in Handlers, Request(h) PROVE RevokedInv'
    BY <1>1, <1>2, RequestsIntendNothing, OthersStay
<1>3. ASSUME NEW h \in Handlers, HandlerStep(h) PROVE RevokedInv'
    <2>1. \A g \in Handlers \ {h} : pc'[g] = pc[g] /\ loc'[g] = loc[g]
        BY <1>3, OthersStay
    <2>2. CASE peers' = peers
        BY <1>3, <2>1, <2>2, IntendsSteps DEF RevokedInv
    <2>3. CASE peers' # peers
        <3>1. Writes(h) /\ pc'[h] \notin EarlySteps /\ ~Intends(pc'[h], loc'[h])
            BY <1>3, <2>3, HandlerWrites, IntendsSteps DEF RevokedInv
        <3> SUFFICES ASSUME NEW g \in Handlers \ {h}, Intends(pc[g], loc[g])
                     PROVE  peers'[loc[g].row].status # "revoked"
            BY <2>1, <3>1 DEF RevokedInv
        <3>2. peers[loc[g].row].status # "revoked" /\ loc[g].row \in Rows
            BY HandlerFacts DEF RevokedInv, HandlerOK, Intends, RowSteps, Present
        <3>3. CASE pc[h] = "add_store"
            <4>1. PICK r \in Rows : /\ peers'[r].status = "active"
                                    /\ \A q \in Rows \ {r} : peers'[q] = peers[q]
                BY <2>3, <3>1, <3>3, AddWrites, AddedRow
            <4> QED BY <3>2, <4>1
        <3>4. CASE pc[h] # "add_store"
            <4>1. ~(pc[h] = "admin_status" /\ loc[h].op = "revoke" /\ loc[h].id = loc[g].row)
                BY DEF RevocationsApart
            <4> QED BY <3>1, <3>2, <3>4, <4>1, ChangedRow
        <3> QED BY <3>3, <3>4
    <2> QED BY <2>2, <2>3
<1>4. CASE Reconcile \/ ReconcileFails \/ Settle \/ UNCHANGED vars
    BY <1>1, <1>4 DEF Reconcile, ReconcileList, ReconcileReserve, ReconcileDevice,
        ReconcileConfigure, ReconcileFails, Settle, KeepStore, vars
<1>5. CASE Restart
    BY <1>1, <1>5 DEF Restart, Started, KeepStore, Intends, EarlySteps
<1> QED BY <1>2, <1>3, <1>4, <1>5 DEF Next

\* The server starts with no row and no request.
LEMMA RevokedInvInit == Init => RevokedInv
BY DEF Init, RevokedInv, Intends, EarlySteps

\* AddPeer activates, RemovePeer disconnects and ReplaceKey gives a key to a row
\* that they found some calls ago. As long as nobody is about to revoke that row
\* meanwhile, only an administrator's disconnection ends a revocation or frees
\* the key for registration, also if device and database fail half way and the
\* server restarts.
THEOREM RevocationsLast == Spec /\ []RevocationsApart => RevokedStaysRevoked
<1>2. IInv /\ RevocationsApart /\ RevokedInv /\ [Next]_vars => RevokedInv'
    BY RevokedInvKept
<1>3. ASSUME IInv, RevokedInv, [Next]_vars, NEW r \in Rows, peers[r].status = "revoked",
             peers'[r].status # "revoked" \/ peers'[r].key # peers[r].key
      PROVE  \E h \in Handlers : /\ pc[h] = "admin_status" /\ pc'[h] # pc[h]
                                 /\ loc[h].op = "disconnect" /\ loc[h].id = r
    <2>1. PICK h \in Handlers : Writes(h)
        BY <1>3, Writers
    <2>2. ~Intends(pc[h], loc[h]) \/ loc[h].row # r
        BY <1>3 DEF RevokedInv
    <2>3. pc[h] # "add_store"
        <3> SUFFICES ASSUME pc[h] = "add_store" PROVE FALSE
            OBVIOUS
        <3>1. PICK q \in Rows :
                /\ IF loc[h].row = NoRow THEN peers[q].status = "none" ELSE q = loc[h].row
                /\ \A p \in Rows \ {q} : peers'[p] = peers[p]
            BY <1>3, <2>1, AddWrites, AddedRow
        <3>2. q = r /\ loc[h].row = r
            BY <1>3, <3>1
        <3>3. r # NoRow
            BY NullsAssumption
        <3> QED BY <2>2, <3>2, <3>3 DEF Intends
    <2>4. ~(pc[h] \in {"rm_status", "rk_store"} /\ r = loc[h].row)
        BY <2>2 DEF Intends
    <2>5. pc[h] = "admin_status" /\ r = loc[h].id /\ loc[h].op # "revoke"
        BY <1>3, <2>1, <2>3, <2>4, ChangedRow
    <2>6. loc[h].op = "disconnect"
        BY <1>3, <2>5, HandlerFacts DEF HandlerOK, AdminRequests
    <2>7. pc'[h] = "idle"
        BY <1>3, <2>1, <2>5 DEF Writes, AddStore, AddStoreFails, RemoveStatus, AdminStatus,
            ReplaceStore, Return, Goto, IInv, HandlersOK
    <2> QED BY <2>5, <2>6, <2>7
<1>4. IInv /\ RevokedInv /\ [Next]_vars =>
        [\A r \in Rows :
            /\ peers[r].status = "revoked"
            /\ peers'[r].status # "revoked" \/ peers'[r].key # peers[r].key
            => \E h \in Handlers : /\ pc[h] = "admin_status" /\ pc'[h] # pc[h]
                                  /\ loc[h].op = "disconnect" /\ loc[h].id = r]_vars
    BY <1>3
<1> QED
    BY <1>2, <1>4, RevokedInvInit, InitIInv, NextIInv, PTL DEF Spec, RevokedStaysRevoked

-----------------------------------------------------------------------------
(* Addresses.                                                              *)

\* No two removals have found one row active and not yet changed it: both would
\* release its address.
RemovalsApart == \A g, h \in Handlers :
    g # h /\ {pc[g], pc[h]} \subseteq {"rm_wg", "rm_status"} => loc[g].row # loc[h].row

\* What reports an error has not been done.
ErrorsClear == "ambiguous" \notin Events

\* Steps of a handler that has an address and has not yet given it to a row,
\* or not yet given it back.
AddHolds == {"add_wg", "add_store", "add_undo", "add_release"}
RemoveHolds == {"rm_wg", "rm_status", "rm_release"}
Holds == AddHolds \cup RemoveHolds

\* Such an address is among the taken ones us, and no active row of the table
\* t has it but the one that is to be removed.
HolderOK(l, v, us, t) ==
    l \in Holds => /\ v.ip \in us
                   /\ \A r \in Active(t) :
                        t[r].ip = v.ip => l \in {"rm_wg", "rm_status"} /\ r = v.row

\* ActiveAddressesDistinct, of taken addresses us and table t.
Distinct(us, t) ==
    /\ \A r, s \in Active(t) : r # s => t[r].ip # t[s].ip
    /\ \A r \in Active(t) : t[r].ip \in us

\* Every address in use is in one place: a row, or a handler.
AddrInv ==
    /\ Distinct(used, peers)
    /\ \A h \in Handlers : HolderOK(pc[h], loc[h], used, peers)
    /\ \A g, h \in Handlers :
        g # h /\ pc[g] \in Holds /\ pc[h] \in Holds => loc[g].ip # loc[h].ip
    /\ \A h \in Handlers : pc[h] \in AddHolds => loc[h].ip \in Pool

\* A request that arrives has no address.
LEMMA RequestsHoldNothing ==
    ASSUME IInv, NEW h \in Handlers, Request(h)
    PROVE  /\ peers' = peers /\ used' = used
           /\ (pc'[h] = pc[h] /\ loc'[h] = loc[h]) \/ pc'[h] \notin Holds
<1>1. peers' = peers /\ used' = used
    BY DEF Request, RegisterPeer, DisconnectPeer, ReplaceKey, AdminPeer,
        AdminRotateWGKey, AdminEnableWG, AdminDisableWG, AdminUpdateUser, Accept, KeepStore
<1>2. (pc'[h] = pc[h] /\ loc'[h] = loc[h]) \/ pc'[h] \notin Holds
    BY Arrives DEF Holds, AddHolds, RemoveHolds
<1> QED BY <1>1, <1>2

\* How a handler comes to have an address, and keeps it.
LEMMA HoldSteps ==
    ASSUME ErrorsClear, IInv, NEW h \in Handlers, HandlerStep(h), pc'[h] \in Holds
    PROVE  \/ /\ pc[h] \in AddHolds /\ pc'[h] \in AddHolds /\ loc'[h] = loc[h]
              /\ UNCHANGED <<used, peers>>
           \/ /\ pc'[h] = "add_wg" /\ loc'[h].ip \in Allocatable(used)
              /\ used' = Reserve(used, loc'[h].ip) /\ UNCHANGED peers
           \/ /\ pc[h] = "rm_find" /\ pc'[h] = "rm_wg" /\ loc'[h].row \in Active(peers)
              /\ loc'[h].ip = peers[loc'[h].row].ip /\ UNCHANGED <<used, peers>>
           \/ /\ pc[h] = "rm_wg" /\ pc'[h] = "rm_status" /\ loc'[h] = loc[h]
              /\ UNCHANGED <<used, peers>>
           \/ /\ pc[h] = "rm_status" /\ pc'[h] = "rm_release" /\ loc'[h] = loc[h]
              /\ peers' = UpdateStatus(peers, loc[h].row, "disconnected") /\ UNCHANGED used
<1>0. /\ pc \in [Handlers -> Labels] /\ loc \in [Handlers -> Locals] /\ loc[h] \in Locals
      /\ ~WriteAmbiguous
    BY DEF IInv, HandlersOK, ErrorsClear, WriteAmbiguous
<1> USE <1>0 DEF KeepStore, Goto, Return, RemoveReturn, Query, Holds, AddHolds, RemoveHolds
<1>1. CASE QueryFails(h)
    BY <1>1 DEF QueryFails
<1>2. CASE AddFindUser(h) \/ AddCount(h) \/ AddFindMine(h) \/ AddFindByKey(h)
    BY <1>2 DEF AddFindUser, AddCount, AddFindMine, AddFindByKey
<1>3. CASE AddAllocate(h)
    BY <1>3 DEF AddAllocate, Locals
<1>4. CASE AddConfigure(h) \/ AddStore(h) \/ AddStoreFails(h) \/ AddUndo(h) \/ AddRelease(h)
    BY <1>4 DEF AddConfigure, AddStore, AddStoreFails, AddUndo, AddRelease
<1>5. CASE RemoveFind(h)
    <2>1. ~RemoveReturn(h)
        OBVIOUS
    <2>2. PICK r \in FindActiveByUserID(peers, loc[h].user) :
            /\ Goto(h, "rm_wg")
            /\ loc' = [loc EXCEPT ![h].row = r, ![h].ip = peers[r].ip]
        BY <1>5, <2>1 DEF RemoveFind
    <2>3. r \in Active(peers) /\ pc[h] = "rm_find" /\ UNCHANGED <<used, peers>>
        BY <1>5 DEF RemoveFind, FindActiveByUserID
    <2>4. loc'[h].row = r /\ loc'[h].ip = peers[r].ip
        BY <2>2 DEF Locals
    <2> QED BY <2>2, <2>3, <2>4
<1>6. CASE RemoveConfigure(h) \/ RemoveStatus(h) \/ RemoveRelease(h)
    BY <1>6 DEF RemoveConfigure, RemoveStatus, RemoveRelease
<1>7. CASE AdminFind(h) \/ AdminStatus(h) \/ ReplaceFind(h) \/ ReplaceConfigure(h) \/ ReplaceStore(h)
    BY <1>7 DEF AdminFind, AdminStatus, ReplaceFind, ReplaceConfigure, ReplaceStore
<1>8. CASE \/ RotateList(h) \/ RotateConfigure(h) \/ RotateStoreLow(h) \/ RotateStoreHigh(h)
           \/ EnableList(h) \/ EnableConfigure(h)
    BY <1>8 DEF RotateList, RotateConfigure, RotateStoreLow, RotateStoreHigh, EnableList,
        EnableConfigure, ListPeers
<1> QED BY <1>1, <1>2, <1>3, <1>4, <1>5, <1>6, <1>7, <1>8 DEF HandlerStep, AddPeer, RemovePeer

\* How it comes to have none: it never had one, releases it, or gives it to a row.
LEMMA FreeSteps ==
    ASSUME IInv, NEW h \in Handlers, HandlerStep(h), pc'[h] \notin Holds
    PROVE  \/ UNCHANGED <<used, peers>>
           \/ /\ pc[h] \in {"add_release", "rm_release"}
              /\ used' = Release(used, loc[h].ip) /\ UNCHANGED peers
           \/ used' = used /\ pc[h] = "add_store" /\ peers' \in AddedTo(peers, loc[h])
           \/ used' = used /\ pc[h] # "add_store" /\ Writes(h)
<1>0. pc \in [Handlers -> Labels]
    BY DEF IInv, HandlersOK
<1> USE <1>0 DEF KeepStore, Goto, Return, Query, Holds, AddHolds, RemoveHolds
<1>1. CASE QueryFails(h)
    BY <1>1 DEF QueryFails
<1>2. CASE AddFindUser(h) \/ AddCount(h) \/ AddFindMine(h) \/ AddFindByKey(h)
    BY <1>2 DEF AddFindUser, AddCount, AddFindMine, AddFindByKey
<1>3. CASE AddAllocate(h)
    BY <1>3 DEF AddAllocate
<1>4. CASE AddConfigure(h) \/ AddStore(h) \/ AddStoreFails(h) \/ AddUndo(h) \/ AddRelease(h)
    BY <1>4 DEF AddConfigure, AddStore, AddStoreFails, AddUndo, AddRelease
<1>5. CASE RemoveFind(h) \/ RemoveConfigure(h)
    BY <1>5 DEF RemoveFind, RemoveConfigure
<1>6. CASE RemoveStatus(h) \/ AdminStatus(h) \/ ReplaceStore(h)
    BY <1>6 DEF RemoveStatus, AdminStatus, ReplaceStore, Writes
<1>7. CASE RemoveRelease(h)
    BY <1>7 DEF RemoveRelease
<1>8. CASE AdminFind(h) \/ ReplaceFind(h) \/ ReplaceConfigure(h)
    BY <1>8 DEF AdminFind, ReplaceFind, ReplaceConfigure
<1>9. CASE \/ RotateList(h) \/ RotateConfigure(h) \/ RotateStoreLow(h) \/ RotateStoreHigh(h)
           \/ EnableList(h) \/ EnableConfigure(h)
    BY <1>9 DEF RotateList, RotateConfigure, RotateStoreLow, RotateStoreHigh, EnableList,
        EnableConfigure, ListPeers
<1> QED
    BY <1>1, <1>2, <1>3, <1>4, <1>5, <1>6, <1>7, <1>8, <1>9 DEF HandlerStep, AddPeer, RemovePeer

\* As long as addresses are only taken and rows only go out of use, the rows and
\* whoever keeps what it has stay right.
LEMMA FewerRows ==
    ASSUME NEW us, NEW vs, us \subseteq vs, NEW t, NEW s, Active(s) \subseteq Active(t),
           \A r \in Active(s) : s[r].ip = t[r].ip
    PROVE  /\ Distinct(us, t) => Distinct(vs, s)
           /\ \A l, v : HolderOK(l, v, us, t) => HolderOK(l, v, vs, s)
BY DEF Distinct, HolderOK

\* A row that becomes active with the address of one handler, and an address
\* that one handler releases, are no business of the others.
LEMMA OtherHolders ==
    ASSUME NEW us, NEW t, NEW l, NEW v, HolderOK(l, v, us, t), NEW a, l \in Holds => v.ip # a
    PROVE  /\ HolderOK(l, v, us \ {a}, t)
           /\ \A r \in Rows : \A s :
                s[r].ip = a /\ (\A q \in Rows \ {r} : s[q] = t[q]) => HolderOK(l, v, us, s)
BY DEF HolderOK, Active

\* UpdateStatus takes the row out of the active ones and keeps its address.
LEMMA OutOfUse ==
    ASSUME NEW t \in [Rows -> Peer], NEW q \in Rows, NEW u,
           u = UpdateStatus(t, q, "disconnected")
    PROVE  /\ Active(u) = Active(t) \ {q}
           /\ \A r \in Rows : u[r].ip = t[r].ip
<1>1. u = [t EXCEPT ![q].status = "disconnected"]
    BY DEF UpdateStatus
<1>2. \A r \in Rows : u[r].ip = t[r].ip
    BY <1>1 DEF Peer
<1>3. \A r \in Rows \ {q} : u[r] = t[r]
    BY <1>1
<1>4. u[q].status = "disconnected"
    BY <1>1 DEF Peer
<1>5. u[q].status # "active"
    BY <1>4
<1> QED BY <1>2, <1>3, <1>5 DEF Active

\* A step of one handler keeps every address in one place.
LEMMA HandlerKeepsAddr ==
    ASSUME ErrorsClear, IInv, RemovalsApart', AddrInv, NEW h \in Handlers, HandlerStep(h)
    PROVE  AddrInv'
<1>0. \A g \in Handlers \ {h} : pc'[g] = pc[g] /\ loc'[g] = loc[g]
    BY OthersStay
<1>1. peers \in [Rows -> Peer] /\ HandlerOK(pc[h], loc[h], peers)
    BY HandlerFacts DEF IInv, TableOK
<1>2. Distinct(used, peers) /\ \A g \in Handlers : HolderOK(pc[g], loc[g], used, peers)
    BY DEF AddrInv
\* What there is to show of handler h, of the others, and of the rows.
<1>3. ASSUME Distinct(used', peers'), HolderOK(pc'[h], loc'[h], used', peers'),
             \A g \in Handlers \ {h} : HolderOK(pc[g], loc[g], used', peers'),
             \A g \in Handlers \ {h} :
                pc'[h] \in Holds /\ pc[g] \in Holds => loc[g].ip # loc'[h].ip,
             pc'[h] \in AddHolds => loc'[h].ip \in Pool
      PROVE  AddrInv'
    BY <1>0, <1>3 DEF AddrInv
<1>4. CASE /\ pc[h] \in AddHolds /\ pc'[h] \in AddHolds /\ loc'[h] = loc[h]
           /\ UNCHANGED <<used, peers>>
    <2>1. HolderOK(pc'[h], loc'[h], used', peers')
        BY <1>2, <1>4 DEF HolderOK, Holds, AddHolds
    <2>2. pc[h] \in Holds
        BY <1>4 DEF Holds
    <2>3. loc'[h].ip \in Pool
        BY <1>4 DEF AddrInv
    <2> QED BY <1>2, <1>3, <1>4, <2>1, <2>2, <2>3 DEF AddrInv
<1>5. CASE /\ pc'[h] = "add_wg" /\ loc'[h].ip \in Allocatable(used)
           /\ used' = Reserve(used, loc'[h].ip) /\ UNCHANGED peers
    <2>1. loc'[h].ip \notin used /\ loc'[h].ip \in used' /\ used \subseteq used'
        BY <1>5 DEF Allocatable, Free, Reserve
    <2>2. Distinct(used', peers') /\ \A g \in Handlers : HolderOK(pc[g], loc[g], used', peers')
        BY <1>2, <1>5, <2>1, FewerRows
    <2>3. HolderOK(pc'[h], loc'[h], used', peers')
        BY <1>2, <1>5, <2>1 DEF HolderOK, Distinct
    <2>4. \A g \in Handlers \ {h} : pc[g] \in Holds => loc[g].ip # loc'[h].ip
        BY <1>2, <2>1 DEF HolderOK
    <2>5. loc'[h].ip \in Pool
        BY <1>5 DEF Allocatable, Free
    <2> QED BY <1>3, <2>2, <2>3, <2>4, <2>5
<1>6. CASE /\ pc[h] = "rm_find" /\ pc'[h] = "rm_wg" /\ loc'[h].row \in Active(peers)
           /\ loc'[h].ip = peers[loc'[h].row].ip /\ UNCHANGED <<used, peers>>
    <2>1. HolderOK(pc'[h], loc'[h], used', peers')
        BY <1>2, <1>6 DEF HolderOK, Distinct
    <2>2. ASSUME NEW g \in Handlers \ {h}, pc[g] \in Holds
          PROVE  loc[g].ip # loc'[h].ip
        <3>1. pc[g] \in {"rm_wg", "rm_status"} => loc[g].row # loc'[h].row
            BY <1>0, <1>6 DEF RemovalsApart
        <3>2. peers[loc'[h].row].ip = loc[g].ip =>
                pc[g] \in {"rm_wg", "rm_status"} /\ loc'[h].row = loc[g].row
            BY <1>2, <1>6, <2>2 DEF HolderOK
        <3> QED BY <1>6, <3>1, <3>2
    <2> QED BY <1>2, <1>3, <1>6, <2>1, <2>2 DEF AddHolds
<1>7. CASE /\ pc[h] = "rm_wg" /\ pc'[h] = "rm_status" /\ loc'[h] = loc[h]
           /\ UNCHANGED <<used, peers>>
    <2>1. HolderOK(pc'[h], loc'[h], used', peers')
        BY <1>2, <1>7 DEF HolderOK, Holds, RemoveHolds
    <2>2. pc[h] \in Holds
        BY <1>7 DEF Holds, RemoveHolds
    <2> QED BY <1>2, <1>3, <1>7, <2>1, <2>2 DEF AddrInv, AddHolds
<1>8. CASE /\ pc[h] = "rm_status" /\ pc'[h] = "rm_release" /\ loc'[h] = loc[h]
           /\ peers' = UpdateStatus(peers, loc[h].row, "disconnected") /\ UNCHANGED used
    <2>1. loc[h].row \in Rows
        BY <1>1, <1>8 DEF HandlerOK, RowSteps, Present
    <2>2. /\ Active(peers') = Active(peers) \ {loc[h].row}
          /\ \A r \in Rows : peers'[r].ip = peers[r].ip
        BY <1>1, <1>8, <2>1, OutOfUse
    <2>3. Distinct(used', peers') /\ \A g \in Handlers : HolderOK(pc[g], loc[g], used', peers')
        <3>1. /\ Active(peers') \subseteq Active(peers)
              /\ \A r \in Active(peers') : peers'[r].ip = peers[r].ip
            BY <2>2 DEF Active
        <3> QED BY <1>2, <1>8, <3>1, FewerRows
    <2>4. pc[h] \in Holds
        BY <1>8 DEF Holds, RemoveHolds
    <2>5. HolderOK(pc'[h], loc'[h], used', peers')
        BY <1>8, <2>2, <2>3, <2>4 DEF HolderOK
    <2> QED BY <1>3, <1>8, <2>3, <2>4, <2>5 DEF AddrInv, AddHolds
<1>9. CASE pc'[h] \notin Holds
    <2>0. HolderOK(pc'[h], loc'[h], used', peers') /\ pc'[h] \notin AddHolds
        BY <1>9 DEF HolderOK, Holds
    <2>1. CASE UNCHANGED <<used, peers>>
        BY <1>2, <1>3, <1>9, <2>0, <2>1
    <2>2. CASE /\ pc[h] \in {"add_release", "rm_release"}
               /\ used' = Release(used, loc[h].ip) /\ UNCHANGED peers
        <3>1. pc[h] \in Holds
            BY <2>2 DEF Holds, AddHolds, RemoveHolds
        <3>2. \A r \in Active(peers) : peers[r].ip # loc[h].ip
            BY <1>2, <2>2, <3>1 DEF HolderOK
        <3>3. Distinct(used', peers')
            BY <1>2, <2>2, <3>2 DEF Distinct, Release
        <3>4. \A g \in Handlers \ {h} : HolderOK(pc[g], loc[g], used', peers')
            BY <1>2, <2>2, <3>1, OtherHolders DEF AddrInv, Release
        <3> QED BY <1>3, <1>9, <2>0, <3>3, <3>4
    <2>3. CASE used' = used /\ pc[h] = "add_store" /\ peers' \in AddedTo(peers, loc[h])
        <3>1. pc[h] \in Holds
            BY <2>3 DEF Holds, AddHolds
        <3>2. PICK r \in Rows : /\ peers'[r].status = "active" /\ peers'[r].ip = loc[h].ip
                                /\ \A q \in Rows \ {r} : peers'[q] = peers[q]
            BY <2>3, AddedRow
        <3>3. Distinct(used', peers')
            BY <1>2, <2>3, <3>1, <3>2 DEF Distinct, HolderOK, Active
        <3>4. \A g \in Handlers \ {h} : HolderOK(pc[g], loc[g], used', peers')
            BY <1>2, <2>3, <3>1, <3>2, OtherHolders DEF AddrInv
        <3> QED BY <1>3, <1>9, <2>0, <3>3, <3>4
    <2>4. CASE used' = used /\ pc[h] # "add_store" /\ Writes(h)
        <3>1. /\ Active(peers') \subseteq Active(peers)
              /\ \A r \in Active(peers') : peers'[r].ip = peers[r].ip
            BY <2>4, ChangedRow DEF Active
        <3>2. Distinct(used', peers') /\ \A g \in Handlers : HolderOK(pc[g], loc[g], used', peers')
            BY <1>2, <2>4, <3>1, FewerRows
        <3> QED BY <1>3, <1>9, <2>0, <3>2
    <2> QED BY <1>9, <2>1, <2>2, <2>3, <2>4, FreeSteps
<1> QED BY <1>4, <1>5, <1>6, <1>7, <1>8, <1>9, HoldSteps

\* So does every other step: Reconcile takes addresses and releases none. A
\* restart is treated apart.
LEMMA AddrInvKept ==
    ASSUME ErrorsClear, IInv, RemovalsApart', AddrInv, [Next]_vars, ~Restart
    PROVE  AddrInv'
<1>1. ASSUME peers' = peers, used \subseteq used',
             \A g \in Handlers : \/ pc'[g] = pc[g] /\ loc'[g] = loc[g]
                                \/ pc'[g] \notin Holds
      PROVE  AddrInv'
    <2>1. /\ Distinct(used', peers')
          /\ \A g \in Handlers : HolderOK(pc[g], loc[g], used', peers')
        BY <1>1, FewerRows DEF AddrInv
    <2>2. \A g \in Handlers : HolderOK(pc'[g], loc'[g], used', peers')
        BY <1>1, <2>1 DEF HolderOK
    <2> QED BY <1>1, <2>1, <2>2 DEF AddrInv, Holds
<1>2. ASSUME NEW h \in Handlers, Request(h) PROVE AddrInv'
    BY <1>1, <1>2, RequestsHoldNothing, OthersStay
<1>3. ASSUME NEW h \in Handlers, HandlerStep(h) PROVE AddrInv'
    BY <1>3, HandlerKeepsAddr
<1>4. CASE Reconcile \/ ReconcileFails \/ Settle \/ UNCHANGED vars
    BY <1>1, <1>4 DEF Reconcile, ReconcileList, ReconcileReserve, ReconcileDevice,
        ReconcileConfigure, ReconcileFails, Settle, KeepStore, Reserve, vars
<1> QED BY <1>2, <1>3, <1>4 DEF Next

\* The server starts with no row and no request.
LEMMA AddrInvInit == Init => AddrInv
BY DEF Init, AddrInv, Distinct, HolderOK, Active, NoPeer, Holds, AddHolds, RemoveHolds

\* AddPeer takes an address four calls before a row has it and RemovePeer gives
\* it back after the row is out of use, while Reconcile reserves from a list that
\* may be old. Any number of registrations, removals, key changes and
\* reconciliations leave every address with one active peer, as long as no two
\* removals are about one row, errors mean that nothing was done, and the IPAM is
\* not forgotten.
THEOREM AddressesDistinct ==
    ASSUME ErrorsClear, "restart" \notin Events
    PROVE  Spec /\ []RemovalsApart => []ActiveAddressesDistinct
<1>1. ~Restart
    BY DEF Restart
<1>2. IInv /\ RemovalsApart' /\ AddrInv /\ [Next]_vars => AddrInv'
    BY <1>1, AddrInvKept
<1>3. AddrInv => ActiveAddressesDistinct
    BY DEF AddrInv, Distinct, ActiveAddressesDistinct, NoSharedAddress
<1> QED
    BY <1>2, <1>3, AddrInvInit, InitIInv, NextIInv, PTL DEF Spec

-----------------------------------------------------------------------------
(* Addresses, and restarts.                                                *)

\* A server that has restarted takes no request before the IPAM knows the
\* addresses of all active rows, as it does once Reconcile has returned.
ServesReconciled ==
    [][\A h \in Handlers : pc[h] = "idle" /\ pc'[h] # "idle"
         => \A r \in Active(peers) : peers[r].ip \in used]_vars

\* While nothing is served the IPAM may not know the rows' addresses; they are
\* different all the same.
RestartInv ==
    /\ NoSharedAddress
    /\ (\E h \in Handlers : pc[h] # "idle") => AddrInv

\* A goroutine that waits for a request makes no call.
LEMMA IdleTakesNoStep ==
    ASSUME NEW h \in Handlers, pc[h] = "idle"
    PROVE  ~HandlerStep(h)
<1>1. ~AddPeer(h)
    BY DEF AddPeer, AddFindUser, AddCount, AddFindMine, AddFindByKey, AddAllocate,
        AddConfigure, AddStore, AddStoreFails, AddUndo, AddRelease
<1>2. ~RemovePeer(h) /\ ~QueryFails(h)
    BY DEF RemovePeer, RemoveFind, RemoveConfigure, RemoveStatus, RemoveRelease, QueryFails
<1>3. /\ ~AdminFind(h) /\ ~AdminStatus(h) /\ ~RotateList(h) /\ ~EnableList(h)
      /\ ~ReplaceFind(h) /\ ~ReplaceConfigure(h) /\ ~ReplaceStore(h)
      /\ ~RotateConfigure(h) /\ ~RotateStoreLow(h) /\ ~RotateStoreHigh(h) /\ ~EnableConfigure(h)
    BY DEF AdminFind, AdminStatus, RotateList, EnableList, ReplaceFind, ReplaceConfigure,
        ReplaceStore, RotateConfigure, RotateStoreLow, RotateStoreHigh, EnableConfigure
<1> QED BY <1>1, <1>2, <1>3 DEF HandlerStep

\* When nothing is served the table does not change.
LEMMA IdleKeepsTable ==
    ASSUME \A h \in Handlers : pc[h] = "idle", [Next]_vars
    PROVE  peers' = peers
<1>1. ASSUME NEW h \in Handlers, Request(h) PROVE peers' = peers
    BY <1>1 DEF Request, RegisterPeer, DisconnectPeer, ReplaceKey, AdminPeer,
        AdminRotateWGKey, AdminEnableWG, AdminDisableWG, AdminUpdateUser, Accept, KeepStore
<1>2. CASE Reconcile \/ ReconcileFails \/ Settle \/ Restart \/ UNCHANGED vars
    BY <1>2 DEF Reconcile, ReconcileList, ReconcileReserve, ReconcileDevice,
        ReconcileConfigure, ReconcileFails, Settle, Restart, KeepStore, vars
<1> QED BY <1>1, <1>2, IdleTakesNoStep DEF Next

\* The first request after a restart finds the IPAM complete; from then on
\* addresses are kept as by a server that never restarts.
LEMMA RestartInvKept ==
    ASSUME ErrorsClear, IInv, RemovalsApart', RestartInv, [Next]_vars,
           [\A h \in Handlers : pc[h] = "idle" /\ pc'[h] # "idle"
             => \A r \in Active(peers) : peers[r].ip \in used]_vars
    PROVE  RestartInv'
<1>1. AddrInv' => NoSharedAddress'
    BY DEF AddrInv, Distinct, NoSharedAddress
<1>2. CASE Restart
    BY <1>2 DEF Restart, Started, RestartInv, NoSharedAddress, KeepStore
<1>3. CASE ~Restart /\ \E h \in Handlers : pc[h] # "idle"
    BY <1>1, <1>3, AddrInvKept DEF RestartInv
<1>4. CASE ~Restart /\ \A h \in Handlers : pc[h] = "idle"
    <2>1. NoSharedAddress'
        BY <1>4, IdleKeepsTable DEF RestartInv, NoSharedAddress
    <2>2. ASSUME NEW h \in Handlers, pc'[h] # "idle" PROVE AddrInv
        <3>1. \A r \in Active(peers) : peers[r].ip \in used
            BY <1>4, <2>2 DEF vars
        <3>2. Distinct(used, peers)
            BY <3>1 DEF RestartInv, NoSharedAddress, Distinct
        <3> QED BY <1>4, <3>2 DEF AddrInv, HolderOK, Holds, AddHolds, RemoveHolds
    <2> QED BY <1>4, <2>1, <2>2, AddrInvKept DEF RestartInv
<1> QED BY <1>2, <1>3, <1>4

\* The server starts like a restarted one.
LEMMA RestartInvInit == Init => RestartInv
BY AddrInvInit DEF AddrInv, Distinct, RestartInv, NoSharedAddress

\* Main's new IPAM knows only the server's address, and requests are served
\* before the first Reconcile. That is all that is wrong with a restart: if
\* requests waited for it, no two active peers would ever have one address,
\* however often the server dies and wherever it is then in its requests.
THEOREM AddressesDistinctAcrossRestarts ==
    ASSUME ErrorsClear
    PROVE  Spec /\ []RemovalsApart /\ ServesReconciled => []NoSharedAddress
<1>1. ASSUME IInv, RemovalsApart', RestartInv, [Next]_vars,
             [\A h \in Handlers : pc[h] = "idle" /\ pc'[h] # "idle"
               => \A r \in Active(peers) : peers[r].ip \in used]_vars
      PROVE  RestartInv'
    BY <1>1, RestartInvKept
<1>2. RestartInv => NoSharedAddress
    BY DEF RestartInv
<1> QED
    BY <1>1, <1>2, RestartInvInit, InitIInv, NextIInv, PTL DEF Spec, ServesReconciled

-----------------------------------------------------------------------------
(* The peers table implements the ledger of PeerLedger.                    *)

\* Steps of a registration that has looked its key up.
ReturnSteps == {"add_alloc", "add_wg", "add_store"}

\* The row that a registration is going to activate is out of use until it does.
ReturnInv == \A h \in Handlers :
    pc[h] \in ReturnSteps /\ loc[h].row # NoRow => peers[loc[h].row].status = "disconnected"

\* Nobody else activates that row, because it is the user's own and no other
\* registration of his has counted; and nobody revokes it.
LEMMA ReturnInvKept ==
    ASSUME IInv, CountsApart, RevocationsApart, RevokedInv, ReturnInv, [Next]_vars
    PROVE  ReturnInv'
<1>1. ASSUME peers' = peers,
             \A g \in Handlers : \/ pc'[g] = pc[g] /\ loc'[g] = loc[g]
                                \/ ~Intends(pc'[g], loc'[g])
      PROVE  ReturnInv'
    BY <1>1 DEF ReturnInv, ReturnSteps, Intends
<1>2. ASSUME NEW h \in Handlers, Request(h) PROVE ReturnInv'
    BY <1>1, <1>2, RequestsIntendNothing, OthersStay
<1>3. ASSUME NEW h \in Handlers, HandlerStep(h) PROVE ReturnInv'
    <2>1. \A g \in Handlers \ {h} : pc'[g] = pc[g] /\ loc'[g] = loc[g]
        BY <1>3, OthersStay
    <2>2. pc[h] \in EarlySteps => loc[h].row = NoRow
        BY DEF RevokedInv
    <2>3. CASE peers' = peers
        <3>1. ASSUME pc'[h] \in ReturnSteps, loc'[h].row # NoRow
              PROVE  peers'[loc'[h].row].status = "disconnected"
            <4>1. Intends(pc'[h], loc'[h]) /\ pc'[h] \in AddSteps
                BY <3>1 DEF Intends, ReturnSteps, AddSteps
            <4>2. CASE /\ Intends(pc[h], loc[h]) /\ loc'[h].row = loc[h].row
                       /\ pc[h] \in AddSteps
                <5>1. pc[h] \in ReturnSteps
                    BY <4>2 DEF Intends, AddSteps, ReturnSteps
                <5> QED BY <2>3, <3>1, <4>2, <5>1 DEF ReturnInv
            <4>3. CASE peers[loc'[h].row].status = "disconnected"
                BY <2>3, <4>3
            <4> QED BY <1>3, <2>2, <4>1, <4>2, <4>3, IntendsSteps
        <3> QED BY <2>1, <2>3, <3>1 DEF ReturnInv
    <2>4. CASE peers' # peers
        <3>1. Writes(h) /\ ~Intends(pc'[h], loc'[h])
            BY <1>3, <2>2, <2>4, HandlerWrites, IntendsSteps
        <3> SUFFICES ASSUME NEW g \in Handlers \ {h}, pc[g] \in ReturnSteps, loc[g].row # NoRow
                     PROVE  peers'[loc[g].row].status = "disconnected"
            BY <2>1, <3>1 DEF ReturnInv, ReturnSteps, Intends
        <3>2. /\ peers[loc[g].row].status = "disconnected" /\ loc[g].row \in Rows
              /\ peers[loc[g].row].user = loc[g].user
            BY HandlerFacts DEF ReturnInv, HandlerOK, Present
        <3>3. CASE pc[h] = "add_store"
            <4>1. PICK r \in Rows :
                    /\ IF loc[h].row = NoRow THEN peers[r].status = "none" ELSE r = loc[h].row
                    /\ \A q \in Rows \ {r} : peers'[q] = peers[q]
                BY <2>4, <3>1, <3>3, AddWrites, AddedRow
            <4>2. loc[g].user # loc[h].user
                BY <3>3 DEF CountsApart, Counted, ReturnSteps
            <4>3. loc[h].row # NoRow => peers[loc[h].row].user = loc[h].user
                BY HandlerFacts DEF HandlerOK
            <4>4. r # loc[g].row
                BY <3>2, <4>1, <4>2, <4>3
            <4> QED BY <3>2, <4>1, <4>4
        <3>4. CASE pc[h] # "add_store"
            <4>1. ~(pc[h] = "admin_status" /\ loc[h].op = "revoke" /\ loc[h].id = loc[g].row)
                BY DEF RevocationsApart, Intends, ReturnSteps
            <4> QED BY <3>1, <3>2, <3>4, <4>1, ChangedRow
        <3> QED BY <3>3, <3>4
    <2> QED BY <2>3, <2>4
<1>4. CASE Reconcile \/ ReconcileFails \/ Settle \/ UNCHANGED vars
    BY <1>1, <1>4 DEF Reconcile, ReconcileList, ReconcileReserve, ReconcileDevice,
        ReconcileConfigure, ReconcileFails, Settle, KeepStore, vars
<1>5. CASE Restart
    BY <1>1, <1>5 DEF Restart, Started, KeepStore, Intends
<1> QED BY <1>2, <1>3, <1>4, <1>5 DEF Next

\* AddPeer's write is a registration or a reconnection of the ledger: the address
\* it took is no active row's, the key no row's, the row it found still out of use.
LEMMA AddedIsLedgerStep ==
    ASSUME IInv, IInv', ReturnInv, AddrInv, NEW h \in Handlers, pc[h] = "add_store",
           peers' \in AddedTo(peers, loc[h])
    PROVE  Ledger!LedgerNext
<1> DEFINE a == loc[h].ip
<1>0. /\ HandlerOK(pc[h], loc[h], peers)
      /\ peers \in [Rows -> Peer] /\ peers' \in [Rows -> Peer]
    BY HandlerFacts DEF IInv, TableOK
<1>1. loc[h].user \in Users /\ loc[h].key \in Keys /\ a \in Pool \ {ServerAddr}
    <2>1. loc[h].ip \in ClientAddrs /\ loc[h].user \in Users /\ loc[h].key \in Keys
        BY <1>0 DEF HandlerOK, AddSteps, AddrSteps
    <2>2. loc[h].ip \in Pool
        BY DEF AddrInv, AddHolds
    <2> QED BY <2>1, <2>2 DEF ClientAddrs
<1>2. Ledger!Available(a)
    <2>1. HolderOK(pc[h], loc[h], used, peers) /\ pc[h] \in Holds
        BY DEF AddrInv, Holds, AddHolds
    <2> QED BY <2>1 DEF HolderOK, Active, Ledger!Available
<1>3. PICK r \in Rows :
        /\ peers'[r].status = "active" /\ peers'[r].ip = a
        /\ peers'[r].user = loc[h].user
        /\ IF loc[h].row = NoRow
           THEN /\ peers[r].status = "none"
                /\ peers'[r].key = loc[h].key /\ ~KeyTaken(peers, NoRow, loc[h].key)
           ELSE r = loc[h].row /\ peers'[r].key = peers[r].key
        /\ \A q \in Rows \ {r} : peers'[q] = peers[q]
    BY AddedRow
<1>4. CASE loc[h].row = NoRow
    <2>1. Ledger!Unclaimed(r, loc[h].key)
        BY <1>3, <1>4, NullsAssumption DEF KeyTaken, FindByPublicKey, Ledger!Unclaimed
    <2>2. peers'[r] = [user |-> loc[h].user, key |-> loc[h].key, ip |-> a, status |-> "active"]
        BY <1>0, <1>3, <1>4 DEF Peer
    <2>3. peers' = [peers EXCEPT ![r] = [user |-> loc[h].user, key |-> loc[h].key,
                                         ip |-> a, status |-> "active"]]
        BY <1>0, <1>3, <2>2
    <2>4. Ledger!Register(r, loc[h].user, loc[h].key, a)
        BY <1>2, <1>3, <1>4, <2>1, <2>3 DEF Ledger!Register
    <2> QED BY <1>1, <2>4 DEF Ledger!LedgerNext
<1>5. CASE loc[h].row # NoRow
    <2>1. peers[r].status = "disconnected" /\ r = loc[h].row
        BY <1>3, <1>5 DEF ReturnInv, ReturnSteps
    <2>2. peers' = [peers EXCEPT ![r].ip = a, ![r].status = "active"]
        <3>1. peers' = Activate(peers, r, a)
            BY <1>5, <2>1 DEF AddedTo
        <3> QED BY <1>0, <3>1 DEF Activate
    <2>3. Ledger!Reconnect(r, a)
        BY <1>2, <2>1, <2>2 DEF Ledger!Reconnect
    <2> QED BY <1>1, <2>3 DEF Ledger!LedgerNext
<1> QED BY <1>4, <1>5

\* The other writes are ledger steps too, or write what is there already.
LEMMA ChangeIsLedgerStep ==
    ASSUME IInv, RevokedInv, NEW h \in Handlers, Writes(h), pc[h] # "add_store", peers' # peers
    PROVE  Ledger!LedgerNext
<1>0. /\ HandlerOK(pc[h], loc[h], peers)
      /\ peers \in [Rows -> Peer] /\ \A r \in Rows : peers[r].status \in Statuses
    BY HandlerFacts DEF IInv, TableOK, Peer
<1>1. CASE RemoveStatus(h)
    <2> DEFINE r == loc[h].row
    <2>1. pc[h] = "rm_status" /\ peers' = [peers EXCEPT ![r].status = "disconnected"]
        BY <1>1 DEF RemoveStatus, UpdateStatus
    <2>2. r \in Rows /\ peers[r].status \notin {"none", "revoked"}
        BY <1>0, <2>1 DEF HandlerOK, RowSteps, Present, RevokedInv, Intends
    <2>3. peers[r].status # "disconnected"
        BY <1>0, <2>1, <2>2 DEF Peer
    <2>4. Ledger!Disconnect(r)
        BY <1>0, <2>1, <2>2, <2>3 DEF Statuses, Ledger!Disconnect
    <2> QED BY <2>2, <2>4 DEF Ledger!LedgerNext
<1>2. CASE AdminStatus(h)
    <2> DEFINE r == loc[h].id
               s == IF loc[h].op = "revoke" THEN "revoked" ELSE "disconnected"
    <2>1. pc[h] = "admin_status" /\ peers' = [peers EXCEPT ![r].status = s]
        BY <1>2 DEF AdminStatus, UpdateStatus
    <2>2. r \in Rows /\ peers[r].status # "none"
        BY <1>0, <2>1 DEF HandlerOK, Present
    <2>3. peers[r].status # s
        BY <1>0, <2>1, <2>2 DEF Peer
    <2>4. Ledger!Revoke(r) \/ Ledger!Disconnect(r) \/ Ledger!Pardon(r)
        BY <1>0, <2>1, <2>2, <2>3 DEF Statuses, Ledger!Revoke, Ledger!Disconnect, Ledger!Pardon
    <2> QED BY <2>2, <2>4 DEF Ledger!LedgerNext
<1>3. CASE ReplaceStore(h)
    <2> DEFINE r == loc[h].row
               k == loc[h].new
    <2>1. /\ pc[h] = "rk_store" /\ ~KeyTaken(peers, r, k)
          /\ peers' = [peers EXCEPT ![r].key = k]
        BY <1>3 DEF ReplaceStore, UpdatePublicKey
    <2>2. r \in Rows /\ k \in Keys /\ peers[r].status \notin {"none", "revoked"}
        BY <1>0, <2>1 DEF HandlerOK, RowSteps, ReplaceSteps, Present, RevokedInv, Intends
    <2>3. Ledger!Unclaimed(r, k)
        BY <2>1 DEF KeyTaken, FindByPublicKey, Ledger!Unclaimed
    <2>4. Ledger!Rekey(r, k)
        BY <1>0, <2>1, <2>2, <2>3 DEF Statuses, Ledger!Rekey
    <2> QED BY <2>2, <2>4 DEF Ledger!LedgerNext
<1> QED BY <1>1, <1>2, <1>3 DEF Writes, AddStore, AddStoreFails

\* Every step is a ledger step, or leaves the table alone.
LEMMA StepIsLedgerStep ==
    ASSUME IInv, IInv', RevokedInv, ReturnInv, RestartInv, [Next]_vars
    PROVE  [Ledger!LedgerNext]_peers
<1> SUFFICES ASSUME peers' # peers PROVE Ledger!LedgerNext
    OBVIOUS
<1>1. PICK h \in Handlers : Writes(h)
    BY Writers
<1>2. pc[h] # "idle"
    BY <1>1 DEF Writes, AddStore, AddStoreFails, RemoveStatus, AdminStatus, ReplaceStore
<1>3. AddrInv
    BY <1>2 DEF RestartInv
<1> QED BY <1>1, <1>3, AddWrites, AddedIsLedgerStep, ChangeIsLedgerStep

\* The requests make four to ten calls to database, device and IPAM, several of
\* them at a time, and the server may die between any two. Where no two of them
\* are about one row or user in the ways that the hypotheses name, and a
\* restarted server waits for Reconcile, the peers table still goes through the
\* steps of PeerLedger and no others, each of them indivisible.
THEOREM PeersImplementLedger ==
    ASSUME ErrorsClear
    PROVE  Spec /\ []CountsApart /\ []RemovalsApart /\ []RevocationsApart /\ ServesReconciled
            => ImplementsPeerLedger
<1>1. Init => Ledger!LedgerInit
    BY DEF Init, NoPeer, Ledger!LedgerInit, Ledger!NoEntry
<1>2. Init => ReturnInv
    BY DEF Init, ReturnInv, ReturnSteps
<1>3. IInv /\ RevocationsApart /\ RevokedInv /\ [Next]_vars => RevokedInv'
    BY RevokedInvKept
<1>4. IInv /\ CountsApart /\ RevocationsApart /\ RevokedInv /\ ReturnInv /\ [Next]_vars => ReturnInv'
    BY ReturnInvKept
<1>5. ASSUME IInv, RemovalsApart', RestartInv, [Next]_vars,
             [\A h \in Handlers : pc[h] = "idle" /\ pc'[h] # "idle"
               => \A r \in Active(peers) : peers[r].ip \in used]_vars
      PROVE  RestartInv'
    BY <1>5, RestartInvKept
<1>6. IInv /\ IInv' /\ RevokedInv /\ ReturnInv /\ RestartInv /\ [Next]_vars
        => [Ledger!LedgerNext]_peers
    BY StepIsLedgerStep
<1> QED
    BY <1>1, <1>2, <1>3, <1>4, <1>5, <1>6, RevokedInvInit, RestartInvInit, InitIInv, NextIInv, PTL
    DEF Spec, ServesReconciled, ImplementsPeerLedger, Ledger!LedgerSpec

=============================================================================
