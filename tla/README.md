# Verification of the SHUOSC network server

TLA+ modules, TLC runs and TLAPS proofs for the Go backend that registers
accounts, hands out WireGuard peers and publishes the server's endpoint. Source
paths are relative to the repository (`src/`). Every definition that stands for
code is listed with its lines in `PROJECT.json` under `map`.

## 1. Inventory

The server is one Go process beside a PostgreSQL database and the kernel's
WireGuard device. Gin serves each request in a goroutine of its own; there are
background goroutines for reconciliation, STUN keep-alive, packet forwarding and
reporting. Almost no state is protected by a lock that spans more than one call.

| Component | State | Operations | Works with |
|---|---|---|---|
| peer manager (`internal/peer/manager.go`) | server key | AddPeer, RemovePeer, ReplaceKey, Reconcile, RotateServerKey, SetWGEnabled | IPAM, peers table, device |
| IPAM (`internal/peer/ipam.go`) | set of taken addresses, in memory | Allocate, Release, Reserve | peer manager, main |
| peers table (`internal/store/peer_store.go`) | rows: owner, key, address, status | Create, Activate, UpdateStatus, UpdatePublicKey, queries | peer manager, admin service |
| kernel device (wgctrl) | private key, peers, allowed addresses | ConfigureDevice | peer manager |
| registration and invites (`internal/auth`, `internal/store/user_store.go`, `invite_store.go`) | users, invite codes | Register (bootstrap or with invite), invite CRUD | admin service |
| login, tokens, account (`internal/auth`, `internal/account`, `internal/api/middleware.go`) | password hashes, JWTs | Login, ChangePassword, middleware | users |
| administration (`internal/admin`) | none of its own | change users, peers, invites, device | all stores, peer manager |
| punch (`internal/punch`) | endpoint, pending probes, sessions | Probe, read loop, forward, readers, cleanup | STUN servers, device, clients |
| discovery reporter (`internal/discovery`) | none | report every 30 s | punch, the worker |
| rate limiter (`internal/api/ratelimit.go`) | time stamps per key, in memory | getOrCreate, allow | handlers |
| relay agent (`internal/relayagent`) | WebSocket session | relay requests, ping, reconnect | worker, local API |
| migrations (`internal/store/db.go`) | schema_migrations | RunMigrations | PostgreSQL |
| configuration, health, router, panel | none that changes | | |

What is hard here:

* *Interleaving.* AddPeer makes up to seven calls (user, count, own peers, key,
  allocate, device, table) with nothing held in between; RemovePeer, ReplaceKey,
  the admin handlers and the reconciliation loop do the same. What one has read
  another has changed by the time it is used.
* *Three copies of one truth.* Table, device and IPAM are changed one after the
  other, and any of the calls may fail, or succeed and report an error.
* *Restart.* The IPAM is rebuilt only by the first reconciliation, which runs
  beside the first requests.
* *Locks of the database.* The two registration transactions take a table lock,
  row locks and waits on uncommitted inserts.
* *Time-outs and late answers.* STUN answers and posts to the worker may come
  after their sender gave up.
* *Checks that are old when used.* The middleware, ChangePassword and UpdateMe read
  the account in one statement and write in another; tokens outlive a suspension.
* *Lost connections.* The relay agent's goroutines outlive the session they belong
  to; a write can fail while reading goes on; a loss can be silent.
* *Crash in the middle of a migration*, and databases older than the record of
  migrations.

What makes the parts correct: no two active peers share an address, and nobody
gets the server's; a user stays within max_peers and touches only his own rows;
a revoked key stays revoked; the device follows the table; the key told to
clients is the device's; the first account and only it becomes administrator;
an invite is used no more than it allows and every use is counted; no
registration waits for ever; the published endpoint is the latest and catches up;
sockets and sessions of the proxy stay in step; a suspension is neither undone nor
evaded, and a password is replaced only by someone who knew it; a relayed request
is answered on the connection it came from, and the agent comes back after a loss;
the rate limiter admits its limit in every window and refuses nothing below it;
every migration is executed once and recorded. `PROJECT.json` lists the hazards
behind these under `hazards`, each with its line.

## 2. Modules

| Module | Models | Extends |
|---|---|---|
| `PeerTypes` | values shared by the peer subsystem, assumptions on constants | |
| `IPAM` | `ipam.go` as functions of the set of taken addresses | `PeerTypes` |
| `WireGuard` | the kernel device, external, as `manager.go` uses it | `PeerTypes` |
| `PeerStore` | the statements of `peer_store.go` as functions of the table | `PeerTypes` |
| `PeerManager` | `manager.go`, the handlers, the reconciliation loop, start and restart | the three above |
| `PeerLedger` | abstract specification: what becomes of the rows of the peers table | |
| `PeerManager_proof` | theorems, and that it implements `PeerLedger` | `PeerManager`, TLAPS |
| `Registration` | Register, its transactions, invites and their administration | |
| `Punch` | STUN probes, the STUN branch of the read loop, the reporter | |
| `PunchProxy` | forwarding sessions, their readers, cleanup, close | |
| `InviteLedger` | abstract specification: what registration promises | |
| `Account` | login, tokens, middleware, UpdateMe, ChangePassword, UpdateUser | |
| `RateLimiter` | `ratelimit.go` | |
| `RelayAgent` | `relayagent/agent.go` with the worker and the network around it | |
| `Migrations` | RunMigrations of `store/db.go` | |
| `Registration_proof` | theorems, and that it implements `InviteLedger` | `Registration`, TLAPS |
| `Account_proof`, `RateLimiter_proof`, `RelayAgent_proof`, `Migrations_proof`, `Punch_proof`, `PunchProxy_proof` | theorems | the module named, TLAPS |
| `MCPeerManager`, `MCRegistration` | instances for TLC | the module named |
| `MCConnectivity` | instance for TLC | `Punch`, `PunchProxy`, `RelayAgent` |
| `MCServices` | instance for TLC | `Registration`, `Account`, `RateLimiter`, `Migrations` |

A definition marked *Faulty* is a variant with a plausible mistake of the
definition that follows it; no specification uses it. With it in place the
property named in `PROJECT.json` under `mutants` fails, so the property is known
to depend on that piece of code.

### PeerManager

A call to the database, the device or the IPAM is atomic (a statement, a netlink
message, a method under the IPAM's mutex); between two calls of one goroutine any
other goroutine may run. So there is one action per call. `pc[h]` is handler
`h`'s next call and `loc[h]` what it still remembers: the row it found, the
address it took, the max_peers it read, the list of active peers. The handler's
whole course is modelled: AddPeer's undo of the device and release of the address
on the error paths (`AddUndo`, `AddRelease`), the admin handlers that set the
status whatever RemovePeer answered (`RemoveReturn`, `AdminStatus`), Reconcile's
reservations one by one. The server key is a pair of halves, because
`serverPrivateKey` is a 32-byte array assigned without a lock
(`RotateStoreLow`, `RotateStoreHigh`).

`Events` says what the environment may do: `lost` (a call fails without effect),
`ambiguous` (a write is applied and reports an error), `restart`, `settle` (from
some moment on no requests and failures, for liveness). `Requests` says which
handler serves which kinds of requests, so a run can pick the race it is about.

Addresses are host indices in the subnet; keys, users and rows are model values
or small numbers. `Allocatable` is the lowest free address as in Allocate's loop.
When several listed peers claim one address in a single ConfigureDevice, the
device may end with any of them, since Go's map order decides.

`PeerLedger` is what all these calls promise about the peers table: a new peer gets a
key that no row has, in whatever status, and an address that no peer in use has
(`Register`); only a disconnected peer comes back (`Reconnect`); a peer that is not
revoked may change its key for one that no row has (`Rekey`); and a revoked one stays
as it is until an administrator disconnects it (`Pardon`). Each is decided and done in
one step. `PeerManager` implements it (`ImplementsPeerLedger`) where requests do not
overlap in the ways of section 6: the mapping takes the table as it is, a query or a
call of device or IPAM is a stutter, and each write is a step of the ledger. Who may
ask for a step, and how many peers a user may have, is not in the ledger;
UsersKeepToOwnRows and WithinQuota say that.

### Registration

Registrars go through Register's reads, then one of the transactions, one action
per statement. PostgreSQL at READ COMMITTED is modelled by what these statements
need of it: committed rows, the EXCLUSIVE table lock, the row lock of
`FOR UPDATE`, and the wait for an uncommitted insert of the same student id. A
transaction's writes are applied at its commit; `Abort` ends one at any statement.
A commit that is applied although it reports an error needs no action of its own:
the answer is not part of the state. Time is a clock up to `Horizon`; `IsAvailable`
accepts an invite at its very expiry time and the check under the lock does not,
as in the code.

`InviteLedger` is what registration promises without statements and locks: an
account and the use of an invite that it costs come into being in one step
(`Found`, `Join`), only the first account needs no invite and becomes
administrator, and an administrator issues, amends and withdraws invites.
`Registration` implements it (`ImplementsLedger`). The mapping takes committed
rows only: a student's role and invite, and of an invite whether it was never
created, is there or is deleted, with max_uses and use_count. So every statement
before a commit is a stutter, each commit is one `Found` or `Join`, and the
administrator's write is the step of his operation. Expiry is not in the ledger; a
registration that the clock refuses is a registration that does not happen.

### Account

Each worker serves one request at a time, a step per statement: Login reads the row
and checks status and password, then signs; a request with a token reads the row in
AuthMiddleware, where RequireActiveUser or RequireAdmin check it, then the service
reads it again (UpdateMe and ChangePassword do, UpdateUser does not) and writes the
columns its UPDATE names. `tokens` are the accounts with an unexpired token: nothing
revokes one. `inForce` is a history variable: the passwords an account has had since
a change of its password began. Of a row the model has status and password, which
the checks read; PeerManager has max_peers.

### RateLimiter

A bucket per key with the times of the admitted requests. getOrCreate and allow are
two steps, each under its mutex. `admitted` is a history variable: every admission,
also the ones the bucket has forgotten. The code's slice of times is a set of
admissions here, each with its time and its number among all of its key, for two
requests may be admitted at one time; what allow decides depends on how many times
are in the window and not on their order, which is that of the clock anyway.

### RelayAgent

`agent` is the goroutine in Run and runSession, `pinger[s]` the ping loop of session
`s`, `job[q]` the goroutine of request `q`, which keeps the connection it was
given. A connection is up, lost silently (`gone`), lost with notice (`down`) or
closed by the agent. A write that fails makes all later writes on that connection
fail (`mute`), as gorilla/websocket documents, and does not end the read loop: the
errors of pingLoop and handleMessage are only logged. The worker's side, the
network and the kernel's keepalive are external.

### Migrations

The start-up goes through the files in the order of their names; executing,
recording and committing a file are three steps, and only the commit changes the
database. `Die` is possible at every step and stands for a failed statement too,
since main exits; a commit that was sent when the server died may have taken effect.
A new start may find more files. Initially the database has none, some or all of
the tables of `001_init.sql`, without a record of it.

### Punch and PunchProxy

`Punch`: an endpoint is the number of the NAT mapping it names. A probe registers
a transaction, sends, waits on a channel of capacity one, and deletes the
transaction; the read loop looks the transaction up under the mutex and sends to
the channel afterwards, so that a time-out can come between. Answers are lost,
late, repeated and out of order. The reporter posts one payload after another; a
post it gave up may still arrive. `PunchProxy`: the read loop's lookup, socket,
insert and write are separate steps beside the readers and the cleanup loop;
times are ages up to `MaxIdle + 1`, so no clock has to be bounded. The read loop
finishes one packet before it takes the next, which is why its two branches can
be in two modules.

## 3. Runs

| Run | Question | Result |
|---|---|---|
| `peers_serial` | Requests of every kind one at a time, beside reconciliation, with failing calls | TypeOK, ActiveAddressesDistinct, ServerKeyInStep, WithinQuota, RevokedStaysRevoked hold; PeerManager implements PeerLedger |
| `peers_concurrent` | Registrations race with revocations, changes of the account and reconciliation | ActiveAddressesDistinct, WithinQuota hold |
| `peers_faults` | Two users race, writes report errors although applied, the server restarts | ServerAddressReserved, UsersKeepToOwnRows hold |
| `peers_converge` | Does the device follow the table once things calm down, also after two registrations of one key, rotations, and turning the interface off and on? | Converges holds |
| `limit_race` | Can a user exceed max_peers? | yes, see 6 |
| `restart_address` | Can two active peers share an address? | yes, see 6 |
| `revoked_reused` | Can a revoked key come back? | yes, see 6 |
| `routes_lost` | Do routes follow the table, as peers do? | no, see 6 |
| `registration` | Registrations of four students and an administrator race | TypeOK, SingleAdmin, UsageAccounted, NoOveruse hold; Registration implements InviteLedger |
| `invite_deleted` | Can a used invite be deleted? | yes, see 6 |
| `connectivity` | Probes, answers, reports; forwarding sessions and cleanup; the relay agent's sessions and jobs | TypeOK, PendingReclaimed, EndpointNeverOlder, EndpointPublished; SocketsAccounted, ReplyPathKept, CleanupSparesUsed; AnsweredWhereAsked, OneConnection, RequestsSettled, AgentReconnects hold |
| `services` | Is every registration answered? Do suspensions and passwords hold against overlapping requests? Is the window kept? Are migrations executed once? | RegistrationReturns; SuspensionKept, SuspensionTakesHold, LockoutFinal, ReplacedByHolder; WindowBound, RefusedOnlyAtLimit; ServesMigrated, ExecutedOnce; ServicesTypeOK hold |

Where a property is checked says what it depends on. The runs do not contain every
overlap; those below break a property, and a reader can see each of them with the
values of `Requests` that are named.

* ActiveAddressesDistinct is checked without restarts, ambiguous writes and two
  overlapping removals of one peer. With a restart it fails (`restart_address`). An
  ambiguous write makes AddPeer release the address of a row that is there. Of two
  disconnections of one peer, a repeated request for instance, both release its
  address, the second perhaps after it was given to another peer (`{"remove"}` and
  `{"add", "remove"}`: NoSharedAddress is violated). Registrations that
  overlap each other and one disconnection do not break it. Nor does ReplaceKey beside
  an administrator's disconnection, which only the theorem covers: AdminDisconnectPeer
  finds the peer by id and removes it by key, so when the key was replaced and
  registered anew in between, the new row is disconnected with its address, and then the
  row with the id is marked and its own address leaks.
* WithinQuota is checked where registrations do not overlap (`limit_race`).
* RevokedStaysRevoked and ImplementsPeerLedger are checked where no request overlaps
  another. `revoked_reused` is one way to break them. Another is a disconnection that
  found the row active and overwrites the revocation that came in between, by id
  (`{"add", "remove"}` and `{"revoke"}`). And a ReplaceKey that found the row active
  would put another key into the revoked one: therefore RevokedStaysRevoked is about
  the row's key as well as its status.
* ServerKeyInStep is checked where requests do not overlap. Two rotations may configure
  the device in one order and store their keys in the other (`{"rotate"}` twice), and
  enableWG puts the manager's key on the device while a rotation is about to replace it,
  or has replaced one half of it (`{"rotate"}` and `{"enable"}`).

The theorems of section 4 say which two steps must not meet for each of these, and let
everything else overlap.

A rotation replaces the device's peers by a list from before, so a peer registered in
between is gone until Reconcile adds it again, although `manager.go:468` says that all
existing peers are preserved; Converges says that it comes back. UpdateInvite compares
max_uses with a use_count that a registration may raise before it writes, so an invite can
end with more uses than max_uses; NoOveruse is about the moment of use and holds.

Converges says that the device gets the table's peers, not that it is rid of them while
it is turned off: Reconcile, which does not know about that, puts them back within a
period. The comment at `manager.go:523` is about the call, which does remove them.

Some properties say exactly how far the code's promise goes. SuspensionTakesHold: a
suspended account acts only through requests that were past their last check when
the suspension came. ReplacedByHolder: of two overlapping changes of a password both
may succeed, each with a password that was in force while it ran. LockoutFinal: the
last administrator can suspend himself, and nothing in the server ends that.
RequestsSettled and AgentReconnects except one state of the relay agent: after a
write has failed on a connection that stays up, the agent reads on and can never
answer, without pings, until the connection ends (`agent.go:226`). Told to stop, an
agent keeps reading until its connection ends, since ReadMessage knows no context
(`agent.go:203`).

*Bounds.* Two keys and two rows: sharing of an address, the undo of one
registration by another and a list that is older than the table all need two
peers. Rows are as many as keys, so the table never runs out of rows. The subnet is
a /30 (`TotalHosts = 4`): with the server at index 1 clients have one address,
which is reused at once and makes every premature release visible, and the pool is
often full; with the server at index 3, which `resolveWireGuardAddress` accepts,
they have two. `DefaultMaxPeers` and `MaxPeersChoices` put the limit at, below and
above the number of keys. In `registration` four students register, two at a time, for one invite with one or
two uses (a max_uses of 0 stands for those that are refused): one becomes administrator, two can use the invite up, and the last two race
for its last use. `Horizon = 1` has an invite before, at and after its expiry.
In `connectivity` two transaction ids allow a late answer beside a live probe, two
faults a Probe that fails with both servers, and two mappings an older and a newer
endpoint; two remotes and two sockets let a socket be taken by another remote
while nothing of its former session is left, and let sockets run out. `MaxLosses = 2`
gives the relay agent three sessions, and two requests whose goroutines can outlive
theirs. In `services` two workers serve one administrator and one user with two
passwords, so any two requests overlap, also two of one account; two keys with
limits 2 in 3 ticks and 1 in 2 are followed for 6 ticks, which is two windows and
their edges; two files and two deaths let a start die, the next one die elsewhere
and a third complete, with a new release in between.

`MCConnectivity` and `MCServices` put modules that share no variable side by side:
`part` says which of them is explored, beside an initial state of the others.

*Symmetry* (keys, users, students, registrars) is used only in runs without
liveness properties.

*Deadlock* is checked everywhere but in `connectivity` and `services`: a closed
punch service, a relay agent that was told to stop and a server that has migrated
and may die no more have nothing left to do. Registration's deadlocks are found in
`registration`.

*Fairness.* `PeerManager`: weak fairness of each handler's steps, for a goroutine
whose calls return goes on, and of Reconcile, for the ticker in
`reconciliationLoop` fires again whatever the last run returned. `Registration`:
weak fairness of reads and commits, strong fairness of the statements that wait for
a lock, for PostgreSQL queues lock requests and grants them in order; nothing
is assumed of requests, of Abort or of the clock. `Punch`: weak fairness of the prober, the read
loop and the reporter, each a goroutine with a ticker or a time-out; that failures
stop is the bound `MaxFaults`. `RelayAgent`: weak fairness of the agent's goroutine and
of each job, because a dial, the backend (`RequestTimeout`) and a write (ten seconds)
all have time limits, and of the kernel's keepalive, which Go turns on for every
connection; nothing is assumed of the worker, of the ping loop or of losses, which
`MaxLosses` ends. In `MCConnectivity` the same fairness is owed by the explored part
only.

## 4. Proofs

A module `M_proof` has the theorems about `M`. They hold for every value of the
constants that satisfies the module's assumption; TLC evaluates the assumptions in
the runs. In each the argument is an inductive invariant (`IInv`): it holds
initially, every step keeps it (a lemma per action or per kind of action), and it
implies what is promised. What it adds to the promise is what the code relies on
between two calls.

| Module | Theorems (property) | Assumptions |
|---|---|---|
| `PeerManager_proof` | `TypeCorrect` (TypeOK), `ServerAddressSafe` (ServerAddressReserved), `OwnRowsOnly` (UsersKeepToOwnRows); under hypotheses: `KeysInStep` (ServerKeyInStep), `QuotaRespected` (WithinQuota), `RevocationsLast` (RevokedStaysRevoked), `AddressesDistinct` (ActiveAddressesDistinct), `AddressesDistinctAcrossRestarts` (NoSharedAddress), `PeersImplementLedger` (ImplementsPeerLedger) | the server's address is in the subnet; rows are numbers; nulls are not values; limits are numbers |
| `Registration_proof` | `TypeCorrect` (TypeOK), `OneAdmin` (SingleAdmin), `UsesCounted` (UsageAccounted), `UsesBounded` (NoOveruse), `Refinement` (ImplementsLedger) | nulls are not values; values of max_uses that are asked for are numbers |
| `Account_proof` | `AccountTypeCorrect`, `StatusByAdministrators` (SuspensionKept), `SuspensionHolds` (SuspensionTakesHold), `LockoutStays` (LockoutFinal), `PasswordByHolder` (ReplacedByHolder) | nulls are not values; every account has a first password |
| `RateLimiter_proof` | `LimiterTypeCorrect`, `NoWindowOverrun` (WindowBound), `RefusalsJustified` (RefusedOnlyAtLimit) | limits and windows are at least 1 |
| `RelayAgent_proof` | `RelayTypeCorrect`, `AnswersStayInSession` (AnsweredWhereAsked), `NoConnectionLeaks` (OneConnection) | the number of losses is a number |
| `Migrations_proof` | `MigrationsTypeCorrect`, `ServingIsMigrated` (ServesMigrated), `NeverExecutedTwice` (ExecutedOnce) | there is a file |
| `Punch_proof` | `PunchTypeCorrect`, `NoPendingLeft` (PendingReclaimed), `EndpointMonotone` (EndpointNeverOlder) | there is a STUN server |
| `PunchProxy_proof` | `ProxyTypeCorrect`, `SocketsStayAccounted` (SocketsAccounted), `ReplyPathStays` (ReplyPathKept), `UsedSessionsSpared` (CleanupSparesUsed) | nulls are not values |

### The peer subsystem

*Without hypotheses.* The server's address stays reserved because every address that
is released comes from Allocate or from a row, and rows get theirs from Allocate; but
a handler releases it many calls after it got it. So `IInv` states what a handler may
hold at each step (`HandlerOK`), and what rows (`TableOK`), device (`DeviceOK`), IPAM
(`UsedOK`) and the reconciler's copies (`ReconcilerOK`) may hold.
`UsersKeepToOwnRows` needs that a row a handler remembers still belongs to its user
when it writes; `Follows` says that no statement deletes a row or changes its owner,
and `HandlerFollows` carries what other handlers remember over a step of one. These
hold for every `Events` and `Requests`.

*With hypotheses.* The other properties are false of some interleavings, as the violated
runs show. Each theorem has the form `Spec /\ []H => P`: it is about the behaviours in
which two particular steps never meet, and leaves open what keeps them apart (a lock,
a client that waits for answers, or luck). Everything else may overlap.

* `KeysInStep`. `RotationsApart`: while a rotation copies its key, no other does, and no
  enableWG is about to configure the device. `KeyInv` adds that from the device call to
  the last half of the copy, the device has the new key or has been turned off.
  Failures and restarts are allowed.
* `QuotaRespected`. `CountsApart`: no two registrations of one user are between their
  count and their write. `QuotaInv` adds that a registration which has counted still has
  room for one more: only a registration adds an active row, and no other is adding one
  of this user. With two, `limit_race`. Failures and restarts are allowed.
* `RevocationsLast`. `RevocationsApart`: nobody is about to revoke a row that another
  handler has found, to activate, disconnect or rekey it, and not yet written. `RevokedInv`
  adds that such a row is not revoked. Otherwise `revoked_reused`. Failures and restarts
  are allowed.
* `AddressesDistinct`. `RemovalsApart`: no two removals have found the same row active.
  Any number of registrations, key changes, reconciliations and removals of different
  peers may overlap. `AddrInv` adds that an address is in one place: a handler that has
  taken one and not yet stored it, or taken it out of the table and not yet released it,
  shares it with no row and no other handler. There is no restart, and a write that
  reports an error has not been applied (`ErrorsClear`): section 3 says what happens
  otherwise.
* `AddressesDistinctAcrossRestarts`. The same with restarts, for `NoSharedAddress`, under
  `ServesReconciled`: a request is accepted only when the IPAM knows the addresses of all
  active rows, as it does once Reconcile has returned. main does not wait for that, and
  `restart_address` is the consequence; the theorem shows that waiting would be enough.
  `RestartInv` keeps `AddrInv` while something is served, and of an idle server only that
  the rows' addresses differ.
* `PeersImplementLedger`. Under `CountsApart`, `RemovalsApart`, `RevocationsApart`,
  `ServesReconciled` and `ErrorsClear`, the initial table is the ledger's, and every step
  is a step of PeerLedger or leaves the table as it is. `ReturnInv` adds to the above
  that the row a registration is going to activate stays disconnected until it does:
  it is the user's own, and none of his other registrations can have found it. So a
  registration's write is `Register` or `Reconnect` (`AddedIsLedgerStep`; the address is
  free by `RestartInv`), and a new status or key is `Disconnect`, `Revoke`, `Pardon` or
  `Rekey` (`ChangeIsLedgerStep`; the row is not revoked by `RevokedInv`).

The code keeps nothing apart that these hypotheses name: Gin serves requests
concurrently. They say what a lock or a condition in a statement would have to keep
apart; the violated runs and the instances named in section 3 show what each prevents.

### Registration

`IInv` says which lock each statement holds and what it guards. From the count of
users to the commit, the bootstrap transaction has the table lock, so the table is
still empty (`LocksOK`); from the check of an invite to the commit, its row is locked, so
the use that was found free is still free. `InsertsOK` says that no two open transactions
insert one student id, and `RowsOK` what the committed rows have in common: one
administrator once there is an account, use_count as many accounts as registered with
the invite. UsageAccounted compares a counter with the size of a set, so the proof
uses the cardinality of a set with one element more.

`Refinement`: Init implies the ledger's, and under `IInv` every step is a step of
InviteLedger or leaves its state as it is. The two commits are `Found` and `Join`:
`LocksOK` gives the ledger's guard (no members yet; a use is left). The administrator's
writes are `Issue`, `Amend` and `Withdraw`, all other statements stutters.

### Accounts

SuspensionKept, SuspensionTakesHold and LockoutFinal follow from the checks each step
makes, over all pairs of a step and an account. ReplacedByHolder does not: the password is
compared in one statement and replaced in another. `RequestOK` says that from the
comparison on, the password the request gave is in `inForce` of its goroutine.

### Rate limiter

The bucket forgets, the history does not. `Remembered` joins them: the bucket still has
every admission that is within the present window. So the number that allow compares
with the limit is that of the admissions in the window that ends now
(`ValidIsWindow`), and a window that lies anywhere is one that ended at the time of the
last admission in it.

### Relay agent, migrations, punch, proxy

* `RelayAgent_proof`: `ConnsOK`, `WritersOK` and `JobsOK` say what may be left of each
  session before, at and after the present one. `LossesOK` counts the losses, so that
  sessions stay within `MaxLosses + 1`.
* `Migrations_proof`: `ServerOK` relates the server's map of applied files and its place
  in the directory to the record, `DatabaseOK` the record to what was executed. Both
  hold at every step, so a death may come at any.
* `Punch_proof`: an answer may be older than its probe by any number of keepalives. `CurrentOK`
  says that whatever carries the running probe's transaction id (an answer on its way, the
  read under way, the channel) names no earlier mapping than the endpoint in force.
* `PunchProxy_proof`: `LoopOK` says what the read loop may count on after it has left the
  mutex: nobody else gives its remote a session, the socket it opened is its own, and
  a session it found has not been idle longer than the loop has stood still.

### Only model-checked

* Liveness under fairness, which is beyond the prover: Converges, RegistrationReturns,
  EndpointPublished, RequestsSettled, AgentReconnects.
* `TypeOK` of `MCConnectivity` and `ServicesTypeOK` of `MCServices`: they are conjunctions
  of the components' type invariants, each of which is proved in its own module.
* That the hypotheses of the peer subsystem's theorems are needed: the violated runs and
  the instances named in section 3 show it.

## 5. Not modelled

* The text of requests, keys, addresses and STUN packets; password hashing.
* Read-only operations: GetPeerConfig, ActivePeerCount, WGEnabled, lists, summary,
  health. `last_seen` is written by Reconcile and read by nobody that decides.
* Rows with keys or addresses that do not parse: only a hand-edited table has them.
* The error of IPAM.Reserve for an address outside the subnet (`ipam.go:77-83`), on
  which Reconcile gives up (`manager.go:375-377`). The subnet of the model is fixed; a
  server that is started with another subnet on an old table meets that error in every
  run of Reconcile until the old rows are no longer active, and then Converges does not
  hold.
* In PeerManager, a status that changes between the middleware's read and the
  handler; `Account` has that for the requests on accounts.
* Profile fields (names and contacts) and their validation; the password policy.
* Requests that the rate limiter has no key for: they pass. Buckets are never
  removed, so its memory grows with the number of keys; that is a matter of size,
  not of behaviour.
* Two servers that migrate one database at the same time, and indexes: a database
  with all tables counts as migrated even if its indexes were never created.
* The relay worker beyond what the agent can see of it; headers, bodies, URLs.
* Ambiguous errors of ReplaceKey's update and of the admin status update: the
  resulting state is that of the success.
* Graceful shutdown of the HTTP server, `ip` commands, configuration, the panel.

## 6. Where code and stated intent differ

1. **Peer limit** (`limit_race`). `manager.go:152` counts, and writes four calls
   later. Two requests both pass. `peer_handler.go:50` answers "peer limit
   reached (max peers for this account)".
2. **Shared address after a restart** (`restart_address`). `main.go:147` starts
   reconciliation in the background and serves at once with an IPAM that knows
   only the server's address. `manager_test.go:198`: "expected next allocated IP to
   skip reserved peers and be 10.0.0.3".
3. **Revocation undone** (`revoked_reused`). AddPeer activates by id the row it
   saw disconnected, after an administrator revoked it. `peer_handler.go:54`: "peer
   key was revoked and cannot be reused".
4. **Lost route** (`routes_lost`). Reconcile works from an old list, gives a
   disconnected key the address of its new owner, and later runs compare keys
   only. `manager_test.go:124` expects the state to be synced.
5. **Used invite deleted** (`invite_deleted`). DeleteInvite checks in one statement
   and deletes in another. `admin/service.go:26`: "invite has already been used
   and cannot be deleted".

## 7. Plan

Built, in this order: the peer subsystem and its first theorems, registration, punch and
discovery; then the ledger that registration implements, accounts, the rate limiter, the
relay agent and the migrations; then the proofs of section 4, which cover every safety
and action property of the passing runs. What could still be done:

* That the device's peers are those of rows, up to calls under way: the safety part of
  Converges.
