---------------------------- MODULE UptimeProofs ----------------------------
(***************************************************************************)
(* The uptime proofs of QuorumCop in real time (seconds): daemons announce  *)
(* themselves, proofs are relayed and forgotten, while a daemon restarts or *)
(* stops, or loses all its connections for a while.  Time advances by the   *)
(* period of do_uptime_proof_call; messages take less than that.            *)
(***************************************************************************)
EXTENDS QuorumCop

CONSTANTS Provers,   \* the nodes that announce themselves
          Period,    \* seconds between two calls of do_uptime_proof_call
          MaxCut,    \* the longest time a node may be cut off
          MaxTime

ASSUME PeriodAssumption == Period \in Nat \ {0} /\ Provers \subseteq Nodes

\* The times fit: a proof and a half come before one is too old, and one before a node
\* votes.  The provers are full nodes of a release that others accept.
ASSUME TimesAssumption ==
  /\ UPTIME_PROOF_FREQUENCY \in Nat \ {0} /\ UPTIME_PROOF_BUFFER \in Nat /\ MIN_LIFETIME \in Nat
  /\ UPTIME_PROOF_FREQUENCY + UPTIME_PROOF_FREQUENCY \div 2 <= UPTIME_PROOF_MAX_TIME
  /\ UPTIME_PROOF_FREQUENCY <= MIN_LIFETIME
  /\ \A k \in Provers : is_full_node([chain |-> Trunk], k) /\ (HFVersion = 11 => Major[k] >= 3)

VARIABLES
  stopped,   \* when a node was stopped for good, or 0
  cut,       \* the nodes without connections
  since      \* when they lost them

timedVars == <<vars, stopped, cut, since>>

TimedInit == Init /\ stopped = [n \in Nodes |-> 0] /\ cut = {} /\ since = 0

\* Mutant of prune_uptime_proof: a proof is forgotten when the next one is due.
MutantPrune(s, time) ==
  [s EXCEPT !.seen = Restrict(@, {k \in DOMAIN @ : @[k] >= time - UPTIME_PROOF_FREQUENCY - UPTIME_PROOF_BUFFER})]

\* Mutant of prune_uptime_proof: nothing is forgotten.
MutantNoPrune(s, time) == s

prune_uptime_proof(s, time) ==
  [s EXCEPT !.seen = Restrict(@, {k \in DOMAIN @ : @[k] >= time - UPTIME_PROOF_MAX_TIME})]

\* on_idle of every daemon: announce, and forget old proofs.
Tick ==
  LET time == now + Period
      due == {n \in Provers : stopped[n] = 0 /\ n \notin cut /\ SubmitDue(node[n], n, time)}
  IN /\ net = {} /\ time <= MaxTime
     /\ cut # {} => time < since + MaxCut
     /\ now' = time
     /\ node' = [n \in Nodes |-> prune_uptime_proof(node[n], time)]
     /\ net' = UNION {[from : {n}, to : Connected(n), body : {Proof(n, time)}] : n \in due}
     /\ UNCHANGED <<dropped, faults, stopped, cut, since>>

\* A message arrives, unless its receiver is stopped or cut off.
Hear ==
  /\ \E msg \in net :
       \/ stopped[msg.to] = 0 /\ msg.to \notin cut /\ HandleProof(msg)
       \/ /\ stopped[msg.to] # 0 \/ msg.to \in cut
          /\ net' = net \ {msg}
          /\ UNCHANGED <<node, now, dropped, faults>>
  /\ UNCHANGED <<stopped, cut, since>>

\* A daemon is restarted.
Reboot(n) == stopped[n] = 0 /\ Restart(n) /\ UNCHANGED <<stopped, cut, since>>

\* A daemon is stopped and not started again.
Stop(n) ==
  /\ faults < MaxFaults /\ net = {} /\ n \in Provers
  /\ stopped' = [stopped EXCEPT ![n] = now]
  /\ faults' = faults + 1
  /\ UNCHANGED <<node, net, now, dropped, cut, since>>

\* A node loses its connections, and gets them back in time.
CutOff(n) ==
  /\ faults < MaxFaults /\ net = {} /\ cut = {}
  /\ cut' = {n} /\ since' = now
  /\ faults' = faults + 1
  /\ UNCHANGED <<node, net, now, dropped, stopped>>

Reconnect ==
  /\ cut # {} /\ net = {}
  /\ cut' = {} /\ since' = 0
  /\ UNCHANGED <<node, net, now, dropped, faults, stopped>>

TimedNext ==
  \/ Tick
  \/ Hear
  \/ \E n \in Nodes : Reboot(n) \/ Stop(n) \/ CutOff(n)
  \/ Reconnect

TimedSpec == TimedInit /\ [][TimedNext]_timedVars /\ WF_timedVars(Hear)

-----------------------------------------------------------------------------

Alive(n) == stopped[n] = 0 /\ now - node[n].start >= MIN_LIFETIME

\* Once the messages of a round are delivered, every node that is old enough to vote has a
\* recent proof of every node that runs: nobody that runs is voted off, although a restarted
\* node remembers nothing, a round may be missed, and a node announces itself only an hour
\* after its last proof came back to it.
RunningNodesAreSeen ==
  net = {} => \A n \in Nodes : Alive(n) =>
    \A k \in Provers \ {n} : stopped[k] = 0 => k \in DOMAIN node[n].seen

\* A node that stopped is forgotten by all when its last proof is too old, however late
\* that proof was relayed: its quorum can vote it off.
StoppedNodesAreForgotten ==
  \A k \in Provers : stopped[k] # 0 /\ now - stopped[k] > UPTIME_PROOF_MAX_TIME =>
    \A n \in Nodes : k \notin DOMAIN node[n].seen

\* The relay of a proof comes to an end: nobody passes one on twice.
RelayDiesOut == []<>(net = {})
==============================================================================
