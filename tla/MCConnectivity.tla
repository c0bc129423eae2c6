--------------------------- MODULE MCConnectivity ---------------------------
(***************************************************************************)
(* What connects the server to clients, for TLC: the probes, the UDP proxy *)
(* and the relay agent. They share no variable, so each is explored beside *)
(* initial states of the others: their product has no behaviour of any     *)
(* one of them that these have not.                                        *)
(***************************************************************************)
EXTENDS Punch, PunchProxy, RelayAgent

VARIABLE part

mcVars == <<part, punchVars, proxyVars, relayVars>>

MCInit == part \in {"probe", "proxy", "relay"} /\ PunchInit /\ ProxyInit /\ RelayInit

MCNext ==
    \/ part = "probe" /\ PunchNext /\ UNCHANGED <<part, proxyVars, relayVars>>
    \/ part = "proxy" /\ ProxyNext /\ UNCHANGED <<part, punchVars, relayVars>>
    \/ part = "relay" /\ RelayNext /\ UNCHANGED <<part, punchVars, proxyVars>>

\* PunchFairness and RelayFairness, owed by the part that is explored only. The
\* agent's other fair actions are not enabled in its initial state.
MCFairness ==
    /\ WF_punchVars(part = "probe" /\ ProbeStep)
    /\ WF_punchVars(part = "probe" /\ ReadStep)
    /\ WF_punchVars(part = "probe" /\ ReportStep)
    /\ WF_relayVars(part = "relay" /\ AgentStep)
    /\ \A q \in RelayRequests : WF_relayVars(Job(q))
    /\ \A s \in Sessions : WF_relayVars(KeepaliveFails(s))

MCSpec == MCInit /\ [][MCNext]_mcVars /\ MCFairness

\* The types of all three.
TypeOK == PunchTypeOK /\ ProxyTypeOK /\ RelayTypeOK

\* PublishedCatchesUp where the probes run.
EndpointPublished == part = "probe" => PublishedCatchesUp

\* AgentSettles where the agent runs.
AgentReconnects == part = "relay" => AgentSettles
=============================================================================
