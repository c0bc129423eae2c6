----------------------------- MODULE Punch_proof -----------------------------
(***************************************************************************)
(* Proofs about Punch for every number of STUN servers, transaction ids,   *)
(* NAT mappings and faults of the network.                                 *)
(*                                                                         *)
(* An answer may be older than its probe's by any number of keepalives. It *)
(* is kept out by the transaction id, which no answer on its way and no    *)
(* read under way refers to when a probe takes it. So whatever carries the *)
(* id of the probe that runs was sent after it began, and since endpoint   *)
(* only changes when a probe ends, it names no earlier mapping than        *)
(* endpoint does. This is the inductive invariant.                         *)
(***************************************************************************)
EXTENDS Punch, TLAPS

\* Steps of a probe that has a transaction.
TxSteps == {"send", "wait", "return"}

\* No earlier mapping than endpoint's.
UpToDate(e) == e # NoEndpoint => endpoint <= e /\ e <= mapping

\* The probe and its transaction.
ProbeOK ==
    /\ pending = IF prober.pc \in TxSteps THEN {prober.tx} ELSE {}
    /\ prober.pc \in TxSteps => prober.tx \in Tx
    /\ prober.pc = "set" => prober.result # NoEndpoint

ReadOK == reading = NotReading \/ (reading.tx \in Tx /\ reading.endpoint # NoEndpoint)

\* Whatever the probe has or will get names no earlier mapping than endpoint.
CurrentOK ==
    /\ endpoint <= mapping
    /\ UpToDate(prober.result)
    /\ prober.pc \in TxSteps =>
        /\ UpToDate(answers[prober.tx])
        /\ UpToDate(channel[prober.tx])
        /\ reading.tx = prober.tx => UpToDate(reading.endpoint)

\* Only an endpoint that is known is reported.
ReportOK ==
    /\ stage = "up" => endpoint # NoEndpoint
    /\ reporter.pc = "post" => reporter.payload # NoEndpoint

\* The inductive invariant.
IInv == PunchTypeOK /\ ProbeOK /\ ReadOK /\ CurrentOK /\ ReportOK

-----------------------------------------------------------------------------
\* Endpoints are numbered; 0 stands for none.
LEMMA EndpointsNat == /\ MaybeEndpoint \subseteq Nat /\ NoEndpoint \in MaybeEndpoint
                      /\ Endpoints = MaybeEndpoint \ {NoEndpoint}
BY PunchAssumption DEF MaybeEndpoint, Endpoints, NoEndpoint

\* Values that are compared are numbers.
LEMMA Numbers ==
    ASSUME IInv
    PROVE  /\ mapping \in Nat \ {0} /\ endpoint \in Nat /\ prober.result \in Nat
           /\ \A t \in Tx : answers[t] \in Nat /\ channel[t] \in Nat
           /\ reading.endpoint \in Nat
<1>1. /\ mapping \in Endpoints /\ endpoint \in MaybeEndpoint /\ prober.result \in MaybeEndpoint
      /\ \A t \in Tx : answers[t] \in MaybeEndpoint /\ channel[t] \in MaybeEndpoint
      /\ reading.endpoint \in MaybeEndpoint
    BY DEF IInv, PunchTypeOK
<1> QED
    BY <1>1, EndpointsNat DEF NoEndpoint

\* Probe can begin with a first server and go on to a next.
LEMMA FirstServer == 0 \in 0..Servers /\ 1 \in 0..Servers
BY PunchAssumption

ProberType == [pc : {"idle", "register", "send", "wait", "return", "set", "ended"},
               server : 0..Servers, tx : Tx \cup {NoTx}, result : MaybeEndpoint]

\* The server that starts satisfies the invariant.
LEMMA InitIInv == PunchInit => IInv
<1> SUFFICES ASSUME PunchInit PROVE IInv
    OBVIOUS
<1> USE PunchAssumption
<1>1. prober \in ProberType /\ prober.pc = "register" /\ prober.result = NoEndpoint
    BY EndpointsNat, FirstServer DEF PunchInit, Idle, ProberType
<1>2. PunchTypeOK
    <2>1. mapping \in Endpoints /\ faults \in 0..MaxFaults
        BY DEF PunchInit, Endpoints
    <2>2. /\ answers \in [Tx -> MaybeEndpoint] /\ channel \in [Tx -> MaybeEndpoint]
          /\ endpoint \in MaybeEndpoint /\ published \in MaybeEndpoint
        BY EndpointsNat DEF PunchInit
    <2>3. /\ reading \in [tx : Tx \cup {NoTx}, endpoint : MaybeEndpoint]
          /\ reporter \in [pc : {"idle", "post"}, payload : MaybeEndpoint]
        BY EndpointsNat DEF PunchInit, NotReading, Waiting
    <2> QED
        BY <1>1, <2>1, <2>2, <2>3 DEF PunchInit, PunchTypeOK, ProberType
<1>3. ProbeOK /\ ReadOK /\ ReportOK
    BY <1>1 DEF PunchInit, ProbeOK, ReadOK, ReportOK, TxSteps, Waiting
<1>4. CurrentOK
    BY <1>1 DEF PunchInit, CurrentOK, UpToDate, TxSteps, NoEndpoint
<1> QED
    BY <1>2, <1>3, <1>4 DEF IInv

-----------------------------------------------------------------------------
(* Probe.                                                                  *)

\* The probe has no transaction: it begins, goes on to the next server or ends.
LEMMA BetweenProbesKeeps ==
    ASSUME IInv, prober' \in ProberType, prober'.pc \in {"idle", "register", "ended"},
           prober'.result = NoEndpoint,
           pending' = {}, stage' \in {stage, "closed"}, faults' \in 0..MaxFaults,
           UNCHANGED <<network, channel, endpoint, loop, reporting>>
    PROVE  IInv'
<1> USE DEF network, loop, reporting
<1>1. PunchTypeOK'
    BY DEF IInv, PunchTypeOK, ProberType
<1>2. ProbeOK' /\ ReadOK' /\ ReportOK'
    BY DEF IInv, ProbeOK, ReadOK, ReportOK, TxSteps
<1>3. CurrentOK'
    BY DEF IInv, CurrentOK, UpToDate, TxSteps
<1> QED
    BY <1>1, <1>2, <1>3 DEF IInv

\* The next server, within the list, or the end of Probe.
LEMMA NextServerEffect ==
    ASSUME IInv, NextServer
    PROVE  /\ prober' \in ProberType /\ prober'.pc \in {"idle", "register", "ended"}
           /\ prober'.result = NoEndpoint /\ stage' \in {stage, "closed"}
<1> USE PunchAssumption
<1>1. prober.server \in 0..Servers
    BY DEF IInv, PunchTypeOK
<1>2. CASE prober.server < Servers
    <2>1. prober' = [Idle EXCEPT !.pc = "register", !.server = prober.server + 1]
          /\ stage' = stage
        BY <1>2 DEF NextServer
    <2>2. prober.server + 1 \in 0..Servers
        BY <1>1, <1>2
    <2> QED
        BY <2>1, <2>2, EndpointsNat DEF Idle, ProberType
<1>3. CASE ~(prober.server < Servers)
    <2>1. \E l \in {"idle", "ended"} : prober' = [Idle EXCEPT !.pc = l]
        BY <1>3 DEF NextServer
    <2>2. stage' \in {stage, "closed"}
        BY <1>3 DEF NextServer
    <2> QED
        BY <2>1, <2>2, EndpointsNat DEF Idle, ProberType
<1> QED
    BY <1>2, <1>3

\* The keepalive loop's ticks and end, a server that cannot be resolved.
LEMMA TicksKeep ==
    ASSUME IInv, KeepaliveTick \/ KeepaliveEnds \/ ResolveFails
    PROVE  IInv'
<1> USE PunchAssumption
<1>1. CASE KeepaliveTick \/ KeepaliveEnds
    <2>1. prober' \in ProberType /\ prober'.pc \in {"register", "ended"}
          /\ prober'.result = NoEndpoint
        BY <1>1, EndpointsNat, FirstServer DEF KeepaliveTick, KeepaliveEnds, Idle, ProberType
    <2>2. pending' = {} /\ faults' \in 0..MaxFaults
        BY <1>1 DEF KeepaliveTick, KeepaliveEnds, At, IInv, PunchTypeOK, ProbeOK, TxSteps
    <2> QED
        BY <1>1, <2>1, <2>2, BetweenProbesKeeps DEF KeepaliveTick, KeepaliveEnds
<1>2. CASE ResolveFails
    <2>1. pending' = {} /\ faults' \in 0..MaxFaults
        BY <1>2 DEF ResolveFails, Fault, At, IInv, PunchTypeOK, ProbeOK, TxSteps
    <2> QED
        BY <1>2, <2>1, NextServerEffect, BetweenProbesKeeps DEF ResolveFails
<1> QED
    BY <1>1, <1>2

\* A probe takes an id that nothing refers to.
LEMMA ProbeRegisterKeeps ==
    ASSUME IInv, ProbeRegister
    PROVE  IInv'
<1> USE DEF network, loop, reporting
<1>1. PICK t \in Fresh :
        /\ pending' = pending \cup {t}
        /\ channel' = [channel EXCEPT ![t] = NoEndpoint]
        /\ prober' = [prober EXCEPT !.pc = "send", !.tx = t]
    BY DEF ProbeRegister
<1>2. /\ prober.pc = "register"
      /\ UNCHANGED <<network, endpoint, stage, loop, reporting, faults>>
    BY DEF ProbeRegister, At
<1>3. t \in Tx /\ answers[t] = NoEndpoint /\ reading.tx # t
    BY DEF Fresh
<1>4. prober'.pc = "send" /\ prober'.tx = t /\ prober'.result = prober.result
    BY <1>1 DEF IInv, PunchTypeOK
<1>5. channel'[t] = NoEndpoint
    BY <1>1, <1>3 DEF IInv, PunchTypeOK
<1>6. PunchTypeOK'
    <2>1. channel' \in [Tx -> MaybeEndpoint]
        BY <1>1, EndpointsNat DEF IInv, PunchTypeOK
    <2>2. prober' \in ProberType
        BY <1>1, <1>3 DEF IInv, PunchTypeOK, ProberType
    <2> QED
        BY <1>1, <1>2, <1>3, <2>1, <2>2 DEF IInv, PunchTypeOK, ProberType
<1>7. ProbeOK'
    BY <1>1, <1>2, <1>3, <1>4 DEF IInv, ProbeOK, TxSteps
<1>8. ReadOK' /\ ReportOK'
    BY <1>2 DEF IInv, ReadOK, ReportOK
<1>9. CurrentOK'
    BY <1>2, <1>3, <1>4, <1>5 DEF IInv, CurrentOK, UpToDate
<1> QED
    BY <1>6, <1>7, <1>8, <1>9 DEF IInv

\* The request is sent: its answer names the mapping of the moment.
LEMMA SendsKeep ==
    ASSUME IInv, ProbeSend \/ ProbeSendLost \/ ProbeSendFails
    PROVE  IInv'
<1> USE DEF network, loop, reporting
<1>1. PICK l \in {"wait", "return"}, e \in {mapping, NoEndpoint} :
        prober.pc = "send" /\ Sent(l, e)
    BY DEF ProbeSend, ProbeSendLost, ProbeSendFails, At
<1>2. faults' \in 0..MaxFaults
    BY PunchAssumption DEF ProbeSend, ProbeSendLost, ProbeSendFails, Fault, IInv, PunchTypeOK
<1>3. /\ prober' = [prober EXCEPT !.pc = l]
      /\ answers' = [answers EXCEPT ![prober.tx] = e]
      /\ UNCHANGED <<mapping, pending, channel, endpoint, stage, loop, reporting>>
    BY <1>1 DEF Sent
<1>4. prober'.pc = l /\ prober'.tx = prober.tx /\ prober'.result = prober.result
    BY <1>3 DEF IInv, PunchTypeOK
<1>5. prober.tx \in Tx
    BY <1>1 DEF IInv, ProbeOK, TxSteps
<1>6. answers'[prober.tx] = e
    BY <1>3, <1>5 DEF IInv, PunchTypeOK
<1>7. PunchTypeOK'
    <2>1. answers' \in [Tx -> MaybeEndpoint]
        BY <1>3, EndpointsNat DEF IInv, PunchTypeOK
    <2>2. prober' \in ProberType
        BY <1>3 DEF IInv, PunchTypeOK, ProberType
    <2> QED
        BY <1>2, <1>3, <2>1, <2>2 DEF IInv, PunchTypeOK, ProberType
<1>8. ProbeOK' /\ ReadOK' /\ ReportOK'
    BY <1>1, <1>3, <1>4 DEF IInv, ProbeOK, ReadOK, ReportOK, TxSteps
<1>9. CurrentOK'
    <2>1. UpToDate(e)
        BY Numbers DEF IInv, CurrentOK, UpToDate
    <2> QED
        BY <1>1, <1>3, <1>4, <1>6, <2>1 DEF IInv, CurrentOK, UpToDate, TxSteps
<1> QED
    BY <1>7, <1>8, <1>9 DEF IInv

\* The probe has its answer, or stops waiting.
LEMMA WaitsKeep ==
    ASSUME IInv, ProbeAnswered \/ ProbeTimeout \/ ProbeCancelled
    PROVE  IInv'
<1> USE DEF network, loop, reporting
<1>1. prober.pc = "wait" /\ prober.tx \in Tx
    BY DEF ProbeAnswered, ProbeTimeout, ProbeCancelled, At, IInv, ProbeOK, TxSteps
<1>2. PICK e \in {channel[prober.tx], NoEndpoint} : Waited(e)
    BY DEF ProbeAnswered, ProbeTimeout, ProbeCancelled
<1>3. faults' \in 0..MaxFaults
    BY PunchAssumption
    DEF ProbeAnswered, ProbeTimeout, ProbeCancelled, Fault, IInv, PunchTypeOK
<1>4. /\ prober' = [prober EXCEPT !.pc = "return", !.result = e]
      /\ UNCHANGED <<network, pending, channel, endpoint, stage, loop, reporting>>
    BY <1>2 DEF Waited
<1>5. e \in MaybeEndpoint
    BY <1>1, EndpointsNat DEF IInv, PunchTypeOK
<1>6. prober'.pc = "return" /\ prober'.tx = prober.tx /\ prober'.result = e
    BY <1>4 DEF IInv, PunchTypeOK
<1>7. PunchTypeOK'
    <2>1. prober' \in ProberType
        BY <1>4, <1>5 DEF IInv, PunchTypeOK, ProberType
    <2> QED
        BY <1>3, <1>4, <2>1 DEF IInv, PunchTypeOK, ProberType
<1>8. ProbeOK' /\ ReadOK' /\ ReportOK'
    BY <1>1, <1>4, <1>6 DEF IInv, ProbeOK, ReadOK, ReportOK, TxSteps
<1>9. CurrentOK'
    <2>1. UpToDate(e)
        BY <1>1 DEF IInv, CurrentOK, UpToDate, TxSteps
    <2> QED
        BY <1>1, <1>4, <1>6, <2>1 DEF IInv, CurrentOK, UpToDate, TxSteps
<1> QED
    BY <1>7, <1>8, <1>9 DEF IInv

\* The probe returns and forgets its transaction.
LEMMA ProbeReturnKeeps ==
    ASSUME IInv, ProbeReturn
    PROVE  IInv'
<1> USE DEF network, loop, reporting
<1>1. /\ prober.pc = "return" /\ pending' = {}
      /\ UNCHANGED <<network, channel, endpoint, loop, reporting, faults>>
    BY DEF ProbeReturn, At, IInv, ProbeOK, TxSteps
<1>2. CASE prober.result # NoEndpoint
    <2>1. prober' = [prober EXCEPT !.pc = "set", !.tx = NoTx] /\ stage' = stage
        BY <1>2 DEF ProbeReturn
    <2>2. prober'.pc = "set" /\ prober'.result = prober.result
        BY <2>1 DEF IInv, PunchTypeOK
    <2>3. PunchTypeOK'
        <3>1. prober' \in ProberType
            BY <2>1 DEF IInv, PunchTypeOK, ProberType
        <3> QED
            BY <1>1, <2>1, <3>1 DEF IInv, PunchTypeOK, ProberType
    <2>4. ProbeOK' /\ ReadOK' /\ ReportOK' /\ CurrentOK'
        BY <1>1, <1>2, <2>1, <2>2
        DEF IInv, ProbeOK, ReadOK, ReportOK, CurrentOK, UpToDate, TxSteps
    <2> QED
        BY <2>3, <2>4 DEF IInv
<1>3. CASE prober.result = NoEndpoint
    <2>1. faults' \in 0..MaxFaults
        BY <1>1 DEF IInv, PunchTypeOK
    <2>2. NextServer
        BY <1>3 DEF ProbeReturn
    <2> QED
        BY <1>1, <2>1, <2>2, NextServerEffect, BetweenProbesKeeps
<1> QED
    BY <1>2, <1>3

\* The result becomes the endpoint.
LEMMA SetEndpointKeeps ==
    ASSUME IInv, SetEndpoint
    PROVE  IInv' /\ endpoint' >= endpoint
<1> USE DEF network, loop, reporting
<1>1. /\ prober.pc = "set" /\ endpoint' = prober.result /\ prober' = Idle
      /\ stage' = IF stage = "starting" THEN "up" ELSE stage
      /\ UNCHANGED <<network, pending, channel, loop, reporting, faults>>
    BY DEF SetEndpoint, At
<1>2. endpoint' # NoEndpoint /\ endpoint <= endpoint' /\ endpoint' <= mapping
    BY <1>1 DEF IInv, ProbeOK, CurrentOK, UpToDate
<1>3. Idle \in ProberType
    BY EndpointsNat, PunchAssumption DEF Idle, ProberType
<1>4. PunchTypeOK'
    BY <1>1, <1>3 DEF IInv, PunchTypeOK, ProberType
<1>5. ProbeOK' /\ ReadOK' /\ ReportOK'
    BY <1>1, <1>2 DEF IInv, ProbeOK, ReadOK, ReportOK, Idle, TxSteps
<1>6. CurrentOK'
    BY <1>1, <1>2 DEF CurrentOK, UpToDate, Idle, TxSteps
<1> QED
    BY <1>2, <1>4, <1>5, <1>6, Numbers DEF IInv

-----------------------------------------------------------------------------
(* The read loop and the network.                                          *)

\* An answer arrives, or a copy of it.
LEMMA HandleSTUNKeeps ==
    ASSUME IInv, NEW t \in Tx, HandleSTUN(t)
    PROVE  IInv'
<1> USE DEF probing, reporting
<1>1. /\ answers[t] # NoEndpoint
      /\ answers' = answers \/ answers' = [answers EXCEPT ![t] = NoEndpoint]
      /\ UNCHANGED <<mapping, probing, deaf, reporting>>
      /\ reading' = IF t \in pending THEN [tx |-> t, endpoint |-> answers[t]] ELSE NotReading
    BY DEF HandleSTUN, Arrives
<1>2. faults' \in 0..MaxFaults
    BY PunchAssumption DEF HandleSTUN, Arrives, Fault, IInv, PunchTypeOK
<1>3. answers' \in [Tx -> MaybeEndpoint]
      /\ \A u \in Tx : answers'[u] \in {answers[u], NoEndpoint}
    BY <1>1, EndpointsNat DEF IInv, PunchTypeOK
<1>4. PunchTypeOK'
    <2>1. reading' \in [tx : Tx \cup {NoTx}, endpoint : MaybeEndpoint]
        BY <1>1, EndpointsNat DEF IInv, PunchTypeOK, NotReading
    <2> QED
        BY <1>1, <1>2, <1>3, <2>1 DEF IInv, PunchTypeOK
<1>5. ProbeOK' /\ ReportOK'
    BY <1>1 DEF IInv, ProbeOK, ReportOK
<1>6. ReadOK'
    BY <1>1 DEF ReadOK
<1>7. CurrentOK'
    <2>1. prober.pc \in TxSteps => prober.tx \in Tx
        BY DEF IInv, ProbeOK
    <2>2. prober.pc \in TxSteps /\ reading'.tx = prober.tx => UpToDate(reading'.endpoint)
        BY <1>1, <2>1, PunchAssumption DEF NotReading, IInv, CurrentOK
    <2> QED
        BY <1>1, <1>3, <2>1, <2>2 DEF IInv, CurrentOK, UpToDate
<1> QED
    BY <1>4, <1>5, <1>6, <1>7 DEF IInv

\* The answer that was read goes to its probe's channel.
LEMMA SendResultKeeps ==
    ASSUME IInv, SendResult
    PROVE  IInv'
<1> USE DEF network, reporting
<1>1. /\ reading.tx \in Tx /\ reading.endpoint # NoEndpoint
      /\ channel' = [channel EXCEPT ![reading.tx] =
                        IF @ = NoEndpoint THEN reading.endpoint ELSE @]
      /\ reading' = NotReading
      /\ UNCHANGED <<network, pending, prober, endpoint, stage, deaf, reporting, faults>>
    BY DEF SendResult, IInv, ReadOK
<1>2. \A t \in Tx : channel'[t] \in {channel[t], IF reading.tx = t THEN reading.endpoint
                                                                    ELSE channel[t]}
    BY <1>1 DEF IInv, PunchTypeOK
<1>3. PunchTypeOK'
    <2>1. channel' \in [Tx -> MaybeEndpoint]
        BY <1>1 DEF IInv, PunchTypeOK
    <2>2. reading' \in [tx : Tx \cup {NoTx}, endpoint : MaybeEndpoint]
        BY <1>1, EndpointsNat DEF NotReading
    <2> QED
        BY <1>1, <2>1, <2>2 DEF IInv, PunchTypeOK
<1>4. ProbeOK' /\ ReadOK' /\ ReportOK'
    BY <1>1 DEF IInv, ProbeOK, ReadOK, ReportOK
<1>5. CurrentOK'
    <2>1. prober.pc \in TxSteps => prober.tx \in Tx
        BY DEF IInv, ProbeOK
    <2> QED
        BY <1>1, <1>2, <2>1, PunchAssumption DEF IInv, CurrentOK, UpToDate, NotReading
<1> QED
    BY <1>3, <1>4, <1>5 DEF IInv

\* The read loop ends, an answer is lost, the NAT makes a mapping.
LEMMA NetworkKeeps ==
    ASSUME IInv, ReadFails \/ Remap \/ \E t \in Tx : LoseAnswer(t)
    PROVE  IInv'
<1> USE PunchAssumption
<1> USE DEF network, loop, probing, reporting
<1>1. CASE ReadFails
    <2>1. PunchTypeOK'
        BY <1>1 DEF ReadFails, Fault, IInv, PunchTypeOK
    <2> QED
        BY <1>1, <2>1 DEF ReadFails, IInv, ProbeOK, ReadOK, CurrentOK, UpToDate, ReportOK
<1>2. CASE Remap
    <2>1. mapping' = mapping + 1 /\ mapping' \in Endpoints
        BY <1>2 DEF Remap, IInv, PunchTypeOK, Endpoints
    <2>2. UNCHANGED <<answers, probing, loop, reporting, faults>>
        BY <1>2 DEF Remap
    <2>3. PunchTypeOK'
        BY <2>1, <2>2 DEF IInv, PunchTypeOK
    <2>4. ProbeOK' /\ ReadOK' /\ ReportOK'
        BY <2>2 DEF IInv, ProbeOK, ReadOK, ReportOK
    <2>5. CurrentOK'
        <3>1. \A e \in Nat : UpToDate(e) => UpToDate(e)'
            BY <2>1, <2>2, Numbers DEF UpToDate
        <3>2. prober.pc \in TxSteps => prober.tx \in Tx
            BY DEF IInv, ProbeOK
        <3>3. endpoint' <= mapping'
            BY <2>1, <2>2, Numbers DEF IInv, CurrentOK
        <3> QED
            BY <2>2, <3>1, <3>2, <3>3, Numbers DEF IInv, CurrentOK
    <2> QED
        BY <2>3, <2>4, <2>5 DEF IInv
<1>3. ASSUME NEW t \in Tx, LoseAnswer(t) PROVE IInv'
    <2>1. /\ answers' = [answers EXCEPT ![t] = NoEndpoint]
          /\ UNCHANGED <<mapping, probing, loop, reporting>>
        BY <1>3 DEF LoseAnswer
    <2>2. faults' \in 0..MaxFaults
        BY <1>3 DEF LoseAnswer, Fault, IInv, PunchTypeOK
    <2>3. \A u \in Tx : answers'[u] \in {answers[u], NoEndpoint}
        BY <2>1 DEF IInv, PunchTypeOK
    <2>4. PunchTypeOK'
        <3>1. answers' \in [Tx -> MaybeEndpoint]
            BY <2>1, EndpointsNat DEF IInv, PunchTypeOK
        <3> QED
            BY <2>1, <2>2, <3>1 DEF IInv, PunchTypeOK
    <2>5. ProbeOK' /\ ReadOK' /\ ReportOK'
        BY <2>1 DEF IInv, ProbeOK, ReadOK, ReportOK
    <2>6. CurrentOK'
        <3>1. prober.pc \in TxSteps => prober.tx \in Tx
            BY DEF IInv, ProbeOK
        <3> QED
            BY <2>1, <2>3, <3>1 DEF IInv, CurrentOK, UpToDate
    <2> QED
        BY <2>4, <2>5, <2>6 DEF IInv
<1> QED
    BY <1>1, <1>2, <1>3

-----------------------------------------------------------------------------
(* The reporter and the shutdown.                                          *)

\* Reports, which read endpoint once the service is up.
LEMMA ReportsKeep ==
    ASSUME IInv, ReportStep
    PROVE  IInv'
<1> USE PunchAssumption
<1> USE DEF network, loop, probing
<1>1. UNCHANGED <<network, probing, loop>>
    BY DEF ReportStep, Report, Posted, PostFails, LatePost
<1>2. PunchTypeOK' /\ ReportOK'
    <2>1. CASE Report
        <3>1. reporter' = [pc |-> "post", payload |-> endpoint] /\ endpoint # NoEndpoint
            BY <2>1 DEF Report, IInv, ReportOK
        <3> QED
            BY <1>1, <2>1, <3>1 DEF Report, IInv, PunchTypeOK, ReportOK
    <2>2. CASE Posted
        BY <1>1, <2>2, EndpointsNat DEF Posted, Waiting, IInv, PunchTypeOK, ReportOK
    <2>3. CASE PostFails
        <3>1. reporter.payload \in Endpoints
            BY <2>3, EndpointsNat DEF PostFails, IInv, PunchTypeOK, ReportOK
        <3>2. late' \subseteq Endpoints /\ faults' \in 0..MaxFaults /\ reporter' = Waiting
              /\ published' = published
            BY <2>3, <3>1 DEF PostFails, Fault, IInv, PunchTypeOK
        <3> QED
            BY <1>1, <3>2, EndpointsNat DEF Waiting, IInv, PunchTypeOK, ReportOK
    <2>4. CASE LatePost
        BY <1>1, <2>4, EndpointsNat DEF LatePost, IInv, PunchTypeOK, ReportOK
    <2> QED
        BY <2>1, <2>2, <2>3, <2>4 DEF ReportStep
<1>3. ProbeOK' /\ ReadOK' /\ CurrentOK'
    BY <1>1 DEF IInv, ProbeOK, ReadOK, CurrentOK, UpToDate
<1> QED
    BY <1>2, <1>3 DEF IInv

\* The shutdown, and nothing.
LEMMA ShutdownKeeps ==
    ASSUME IInv, Cancel \/ Close \/ UNCHANGED punchVars
    PROVE  IInv'
<1> USE DEF network, loop, reporting, probing
<1>1. /\ UNCHANGED <<network, pending, channel, prober, endpoint, loop, reporting, faults>>
      /\ stage' \in {stage, "cancelled", "closed"}
    BY DEF Cancel, Close, punchVars
<1>2. PunchTypeOK' /\ ReportOK'
    BY <1>1 DEF IInv, PunchTypeOK, ReportOK
<1>3. ProbeOK' /\ ReadOK' /\ CurrentOK'
    BY <1>1 DEF IInv, ProbeOK, ReadOK, CurrentOK, UpToDate
<1> QED
    BY <1>2, <1>3 DEF IInv

-----------------------------------------------------------------------------
\* Every step keeps the invariant.
LEMMA NextIInv == IInv /\ [PunchNext]_punchVars => IInv'
BY TicksKeep, ProbeRegisterKeeps, SendsKeep, WaitsKeep, ProbeReturnKeeps, SetEndpointKeeps,
   HandleSTUNKeeps, SendResultKeeps, NetworkKeeps, ReportsKeep, ShutdownKeeps
DEF PunchNext, ProbeStep, ReadStep

\* The inductive invariant holds however answers are lost, delayed and repeated.
THEOREM PunchInvariance == PunchSpec => []IInv
    BY InitIInv, NextIInv, PTL DEF PunchSpec

\* Type correctness: Probe never asks a server past the last.
THEOREM PunchTypeCorrect == PunchSpec => []PunchTypeOK
<1>1. IInv => PunchTypeOK
    BY DEF IInv
<1> QED
    BY <1>1, PunchInvariance, PTL

\* The deferred delete of probeSTUN leaves no transaction behind.
THEOREM NoPendingLeft == PunchSpec => []PendingReclaimed
<1>1. IInv => PendingReclaimed
    BY DEF IInv, ProbeOK, PendingReclaimed
<1> QED
    BY <1>1, PunchInvariance, PTL

\* handleSTUN looks answers up by transaction id, so no late or repeated answer
\* puts an earlier mapping of the NAT in place of a later one.
THEOREM EndpointMonotone == PunchSpec => EndpointNeverOlder
<1>1. ASSUME IInv, [PunchNext]_punchVars PROVE endpoint' >= endpoint
    <2>1. CASE SetEndpoint
        BY <1>1, <2>1, SetEndpointKeeps
    <2>2. CASE endpoint' = endpoint
        BY <1>1, <2>2, Numbers
    <2>3. SetEndpoint \/ endpoint' = endpoint
        <3> USE DEF network, probing, loop, reporting
        <3>1. CASE ProbeStep
            BY <3>1 DEF ProbeStep, KeepaliveTick, KeepaliveEnds, ProbeRegister, ResolveFails,
                ProbeSend, ProbeSendLost, ProbeSendFails, Sent, ProbeAnswered, ProbeTimeout,
                ProbeCancelled, Waited, ProbeReturn
        <3>2. CASE ReadStep \/ ReadFails \/ Remap \/ \E t \in Tx : LoseAnswer(t)
            BY <3>2 DEF ReadStep, SendResult, HandleSTUN, Arrives, ReadFails, Remap, LoseAnswer
        <3>3. CASE ReportStep \/ Cancel \/ Close \/ UNCHANGED punchVars
            BY <3>3 DEF ReportStep, Report, Posted, PostFails, LatePost, Cancel, Close, punchVars
        <3> QED
            BY <1>1, <3>1, <3>2, <3>3 DEF PunchNext
    <2> QED
        BY <2>1, <2>2, <2>3
<1>2. IInv /\ [PunchNext]_punchVars => [endpoint' >= endpoint]_punchVars
    BY <1>1
<1> QED
    BY <1>2, PunchInvariance, PTL DEF PunchSpec, EndpointNeverOlder

=============================================================================
