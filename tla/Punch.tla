-------------------------------- MODULE Punch --------------------------------
(***************************************************************************)
(* How the server learns the public UDP endpoint of its WireGuard port and *)
(* publishes it: the STUN probes of internal/punch/service.go, the branch  *)
(* of its read loop that hands answers to them, and the reporter of        *)
(* internal/discovery/reporter.go that posts the endpoint to the worker.   *)
(*                                                                         *)
(* An endpoint is the number of the NAT mapping it names, in the order in  *)
(* which the NAT made them. Answers of STUN servers are UDP packets: they  *)
(* are lost, late, duplicated and out of order. The packets that the read  *)
(* loop forwards are in PunchProxy; the loop deals with one packet after   *)
(* the other, so that branch only delays this one.                         *)
(***************************************************************************)
EXTENDS Naturals

CONSTANTS
    Servers,     \* length of cfg.STUNServers
    Tx, NoTx,    \* transaction ids; one is reused once nothing refers to it
    MaxMappings, \* bound on the NAT's mappings
    MaxFaults    \* bound on lost, late and duplicated packets and failed calls

ASSUME PunchAssumption ==
    /\ Servers \in Nat \ {0}
    /\ NoTx \notin Tx
    /\ MaxMappings \in Nat \ {0}
    /\ MaxFaults \in Nat

VARIABLES
    stage,     \* the service: starting, up, cancelled (context), closed (socket)
    mapping,   \* the NAT's present mapping of the punch socket
    answers,   \* answers on their way, by transaction id
    pending,   \* s.pending: transactions that a probe waits for
    channel,   \* what is in each transaction's channel of capacity one
    prober,    \* the goroutine in Probe: Start's at first, then keepaliveLoop's
    reading,   \* the read loop between its lookup in pending and its send
    deaf,      \* the read loop has ended on a read error
    endpoint,  \* s.endpoint
    reporter,  \* the reporter: waiting for its ticker or posting a payload
    late,      \* posts given up by the reporter that may still arrive
    published, \* the endpoint that the worker gives to clients
    faults

network == <<mapping, answers>>
probing == <<pending, channel, prober, endpoint, stage>>
loop == <<reading, deaf>>
reporting == <<reporter, late, published>>
punchVars == <<network, probing, loop, reporting, faults>>

NoEndpoint == 0
Endpoints == 1..MaxMappings
MaybeEndpoint == Endpoints \cup {NoEndpoint}
Idle == [pc |-> "idle", server |-> 0, tx |-> NoTx, result |-> NoEndpoint]
NotReading == [tx |-> NoTx, endpoint |-> NoEndpoint]

PunchTypeOK ==
    /\ stage \in {"starting", "up", "cancelled", "closed"}
    /\ mapping \in Endpoints
    /\ answers \in [Tx -> MaybeEndpoint]
    /\ pending \subseteq Tx
    /\ channel \in [Tx -> MaybeEndpoint]
    /\ prober \in [pc : {"idle", "register", "send", "wait", "return", "set", "ended"},
                   server : 0..Servers, tx : Tx \cup {NoTx}, result : MaybeEndpoint]
    /\ reading \in [tx : Tx \cup {NoTx}, endpoint : MaybeEndpoint]
    /\ deaf \in BOOLEAN
    /\ endpoint \in MaybeEndpoint
    /\ reporter \in [pc : {"idle", "post"}, payload : MaybeEndpoint]
    /\ late \subseteq Endpoints
    /\ published \in MaybeEndpoint
    /\ faults \in 0..MaxFaults

Fault == faults < MaxFaults /\ faults' = faults + 1

-----------------------------------------------------------------------------
(* Probe: the servers in turn, until one answers.                          *)

At(l) == prober.pc = l

\* Faulty variant: one server too many is tried.
NextServerPastEnd ==
    IF prober.server <= Servers
    THEN /\ prober' = [Idle EXCEPT !.pc = "register", !.server = prober.server + 1]
         /\ UNCHANGED stage
    ELSE /\ prober' = [Idle EXCEPT !.pc = IF stage = "starting" THEN "ended" ELSE "idle"]
         /\ stage' = IF stage = "starting" THEN "closed" ELSE stage

\* A probe has failed: the next server, or the end of Probe. A first Probe
\* that fails makes Start close the socket; later ones are logged only.
NextServer ==
    IF prober.server < Servers
    THEN /\ prober' = [Idle EXCEPT !.pc = "register", !.server = prober.server + 1]
         /\ UNCHANGED stage
    ELSE /\ prober' = [Idle EXCEPT !.pc = IF stage = "starting" THEN "ended" ELSE "idle"]
         /\ stage' = IF stage = "starting" THEN "closed" ELSE stage

\* After the cancellation a tick that is due may still be served.
KeepaliveTick ==
    /\ At("idle")
    /\ prober' = [Idle EXCEPT !.pc = "register", !.server = 1]
    /\ UNCHANGED <<network, pending, channel, endpoint, stage, loop, reporting, faults>>

KeepaliveEnds ==
    /\ At("idle") /\ stage \in {"cancelled", "closed"}
    /\ prober' = [Idle EXCEPT !.pc = "ended"]
    /\ UNCHANGED <<network, pending, channel, endpoint, stage, loop, reporting, faults>>

Fresh == {t \in Tx : t \notin pending /\ answers[t] = NoEndpoint /\ reading.tx # t}

ProbeRegister ==
    /\ At("register")
    /\ \E t \in Fresh :
        /\ pending' = pending \cup {t}
        /\ channel' = [channel EXCEPT ![t] = NoEndpoint]
        /\ prober' = [prober EXCEPT !.pc = "send", !.tx = t]
    /\ UNCHANGED <<network, endpoint, stage, loop, reporting, faults>>

ResolveFails ==
    /\ At("register")
    /\ Fault
    /\ NextServer
    /\ UNCHANGED <<network, pending, channel, endpoint, loop, reporting>>

Sent(l, answer) ==
    /\ prober' = [prober EXCEPT !.pc = l]
    /\ answers' = [answers EXCEPT ![prober.tx] = answer]
    /\ UNCHANGED <<mapping, pending, channel, endpoint, stage, loop, reporting>>

\* The server answers with the mapping that the NAT gave the request.
ProbeSend == At("send") /\ stage # "closed" /\ Sent("wait", mapping) /\ UNCHANGED faults
ProbeSendLost == At("send") /\ stage # "closed" /\ Fault /\ Sent("wait", NoEndpoint)
ProbeSendFails ==
    /\ At("send")
    /\ IF stage = "closed" THEN UNCHANGED faults ELSE Fault
    /\ Sent("return", NoEndpoint)

Waited(result) ==
    /\ prober' = [prober EXCEPT !.pc = "return", !.result = result]
    /\ UNCHANGED <<network, pending, channel, endpoint, stage, loop, reporting>>

ProbeAnswered ==
    /\ At("wait")
    /\ channel[prober.tx] # NoEndpoint
    /\ Waited(channel[prober.tx])
    /\ UNCHANGED faults

Answerable == ~deaf /\ stage # "closed"
              /\ (answers[prober.tx] # NoEndpoint \/ reading.tx = prober.tx)

\* The timer fires first: no answer will come, or it comes too late.
ProbeTimeout ==
    /\ At("wait")
    /\ IF Answerable \/ channel[prober.tx] # NoEndpoint THEN Fault ELSE UNCHANGED faults
    /\ Waited(NoEndpoint)

ProbeCancelled ==
    /\ At("wait")
    /\ stage \in {"cancelled", "closed"}
    /\ Waited(NoEndpoint)
    /\ UNCHANGED faults

\* Faulty variant: a probe that fails leaves its transaction in pending.
ProbeReturnForgets ==
    /\ At("return")
    /\ IF prober.result # NoEndpoint
       THEN /\ prober' = [prober EXCEPT !.pc = "set", !.tx = NoTx]
            /\ pending' = pending \ {prober.tx}
            /\ UNCHANGED stage
       ELSE NextServer /\ UNCHANGED pending
    /\ UNCHANGED <<network, channel, endpoint, loop, reporting, faults>>

\* The deferred delete, and what Probe makes of the result.
ProbeReturn ==
    /\ At("return")
    /\ pending' = pending \ {prober.tx}
    /\ IF prober.result # NoEndpoint
       THEN prober' = [prober EXCEPT !.pc = "set", !.tx = NoTx] /\ UNCHANGED stage
       ELSE NextServer
    /\ UNCHANGED <<network, channel, endpoint, loop, reporting, faults>>

SetEndpoint ==
    /\ At("set")
    /\ endpoint' = prober.result
    /\ prober' = Idle
    /\ stage' = IF stage = "starting" THEN "up" ELSE stage
    /\ UNCHANGED <<network, pending, channel, loop, reporting, faults>>

-----------------------------------------------------------------------------
(* readLoop and handleSTUN.                                                *)

CanRead == ~deaf /\ reading = NotReading /\ stage # "closed"

Arrives(t) ==
    /\ answers[t] # NoEndpoint
    /\ \/ answers' = [answers EXCEPT ![t] = NoEndpoint] /\ UNCHANGED faults
       \/ UNCHANGED answers /\ Fault \* a duplicate follows
    /\ UNCHANGED <<mapping, probing, deaf, reporting>>

\* Faulty variant: the answer goes to the probe that waits, whatever its id.
HandleAnySTUN(t) ==
    /\ CanRead
    /\ Arrives(t)
    /\ reading' = IF pending # {} THEN [tx |-> CHOOSE p \in pending : TRUE, endpoint |-> answers[t]]
                  ELSE NotReading

\* An answer that no probe waits for is dropped.
HandleSTUN(t) ==
    /\ CanRead
    /\ Arrives(t)
    /\ reading' = IF t \in pending THEN [tx |-> t, endpoint |-> answers[t]] ELSE NotReading

\* The send never blocks: with an answer in the channel another is dropped.
SendResult ==
    /\ reading # NotReading
    /\ channel' = [channel EXCEPT ![reading.tx] = IF @ = NoEndpoint THEN reading.endpoint ELSE @]
    /\ reading' = NotReading
    /\ UNCHANGED <<network, pending, prober, endpoint, stage, deaf, reporting, faults>>

ReadFails ==
    /\ CanRead
    /\ Fault
    /\ deaf' = TRUE
    /\ UNCHANGED <<network, probing, reading, reporting>>

-----------------------------------------------------------------------------
(* The network: answers are lost, the NAT gives the socket a new mapping.  *)

LoseAnswer(t) ==
    /\ answers[t] # NoEndpoint
    /\ answers' = [answers EXCEPT ![t] = NoEndpoint]
    /\ IF t \in pending THEN Fault ELSE UNCHANGED faults
    /\ UNCHANGED <<mapping, probing, loop, reporting>>

Remap ==
    /\ mapping < MaxMappings
    /\ mapping' = mapping + 1
    /\ UNCHANGED <<answers, probing, loop, reporting, faults>>

-----------------------------------------------------------------------------
(* The reporter: one post after another, at its start and on each tick.    *)

Waiting == [pc |-> "idle", payload |-> NoEndpoint]

\* Faulty variant: the endpoint of the first report is kept for all.
ReportFirst ==
    /\ reporter = Waiting /\ stage = "up"
    /\ reporter' = [pc |-> "post",
                    payload |-> IF published = NoEndpoint THEN endpoint ELSE published]
    /\ UNCHANGED <<network, probing, loop, late, published, faults>>

Report ==
    /\ reporter = Waiting /\ stage = "up"
    /\ reporter' = [pc |-> "post", payload |-> endpoint]
    /\ UNCHANGED <<network, probing, loop, late, published, faults>>

Posted ==
    /\ reporter.pc = "post"
    /\ reporter' = Waiting
    /\ published' = reporter.payload
    /\ UNCHANGED <<network, probing, loop, late, faults>>

\* The post fails, times out or is cancelled: it may arrive later or never.
PostFails ==
    /\ reporter.pc = "post"
    /\ IF stage = "up" THEN Fault ELSE UNCHANGED faults
    /\ reporter' = Waiting
    /\ late' \in {late, late \cup {reporter.payload}}
    /\ UNCHANGED <<network, probing, loop, published>>

LatePost == \E e \in late :
    /\ late' = late \ {e}
    /\ published' \in {e, published}
    /\ UNCHANGED <<network, probing, loop, reporter, faults>>

-----------------------------------------------------------------------------
(* SIGTERM cancels the context; main closes the proxy when it returns.     *)

Cancel ==
    /\ stage = "up"
    /\ stage' = "cancelled"
    /\ UNCHANGED <<network, pending, channel, prober, endpoint, loop, reporting, faults>>

Close ==
    /\ stage = "cancelled"
    /\ stage' = "closed"
    /\ UNCHANGED <<network, pending, channel, prober, endpoint, loop, reporting, faults>>

PunchInit ==
    /\ stage = "starting"
    /\ mapping = 1
    /\ answers = [t \in Tx |-> NoEndpoint]
    /\ pending = {}
    /\ channel = [t \in Tx |-> NoEndpoint]
    /\ prober = [Idle EXCEPT !.pc = "register", !.server = 1]
    /\ reading = NotReading
    /\ deaf = FALSE
    /\ endpoint = NoEndpoint
    /\ reporter = Waiting
    /\ late = {}
    /\ published = NoEndpoint
    /\ faults = 0

ProbeStep ==
    \/ KeepaliveTick \/ KeepaliveEnds \/ ProbeRegister \/ ResolveFails
    \/ ProbeSend \/ ProbeSendLost \/ ProbeSendFails
    \/ ProbeAnswered \/ ProbeTimeout \/ ProbeCancelled
    \/ ProbeReturn \/ SetEndpoint
ReadStep == SendResult \/ \E t \in Tx : HandleSTUN(t)
ReportStep == Report \/ Posted \/ PostFails \/ LatePost

PunchNext ==
    \/ ProbeStep
    \/ ReadStep \/ ReadFails
    \/ Remap
    \/ \E t \in Tx : LoseAnswer(t)
    \/ ReportStep
    \/ Cancel \/ Close

\* The goroutines and their tickers go on; a post is answered or given up after
\* the client's ten seconds.
PunchFairness ==
    WF_punchVars(ProbeStep) /\ WF_punchVars(ReadStep) /\ WF_punchVars(ReportStep)

PunchSpec == PunchInit /\ [][PunchNext]_punchVars /\ PunchFairness

-----------------------------------------------------------------------------
(* Properties.                                                             *)

\* The endpoint given to clients never goes back to an earlier mapping of the
\* NAT: an answer that comes after its probe gave up, or twice, or out of order
\* is never taken for the answer of a later probe.
EndpointNeverOlder == [][endpoint' >= endpoint]_punchVars

\* pending holds no more than the transaction of the probe that runs, so years
\* of keepalives, answered or not, do not fill it.
PendingReclaimed == pending \subseteq {prober.tx}

\* Once the NAT keeps its mapping and failures stop, the worker has and keeps
\* the endpoint that clients can reach, unless the service shuts down or its
\* read loop has ended on a read error.
PublishedCatchesUp ==
    <>[](stage \in {"cancelled", "closed"} \/ deaf \/ published = mapping)

=============================================================================
