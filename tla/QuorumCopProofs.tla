--------------------------- MODULE QuorumCopProofs ---------------------------
(***************************************************************************)
(* How many votes a quorum can give: with the constants of                 *)
(* full_node_rules.h a quorum has five members and a deregistration needs  *)
(* seven votes.  And the uptime proofs: a node that stopped is forgotten   *)
(* by all, whatever the times, the number of nodes, the faults and the     *)
(* order in which proofs are relayed.                                      *)
(***************************************************************************)
EXTENDS UptimeProofs, FiniteSetTheorems, TLAPS

(* verify_deregister takes one vote of each member of the quorum at most. *)
LEMMA OneVoteEach ==
  ASSUME NEW q, NEW tx, NEW n \in Nat, DOMAIN q.quorum_nodes = 1..n, verify_deregister(q, tx)
  PROVE  IsFiniteSet(tx.votes) /\ Cardinality(tx.votes) <= n
PROOF
<1> DEFINE Voter == [v \in tx.votes |-> v.voter]
<1>1. Voter \in Injection(tx.votes, 1..n)
  BY DEF verify_deregister, InBounds, Injection, IsInjective
<1>2. IsFiniteSet(1..n) /\ Cardinality(1..n) = n
  BY FS_Interval
<1>3. IsFiniteSet(tx.votes) /\ Cardinality(tx.votes) <= Cardinality(1..n)
  BY <1>1, <1>2, FS_Injection
<1> QED
  BY <1>2, <1>3

(* A quorum with fewer members than MIN_VOTES_TO_KICK_FULL_NODE cannot     *)
(* deregister anybody: check_tx_inputs accepts no deregister transaction   *)
(* of its height, whatever votes it carries and whatever the chain.        *)
THEOREM SmallQuorumKicksNobody ==
  ASSUME NEW s, NEW tx, NEW n \in Nat,
         DOMAIN get_quorum_state(s, tx.height).quorum_nodes = 1..n,
         n < MIN_VOTES_TO_KICK_FULL_NODE
  PROVE  ~check_tx_inputs(s, tx)
PROOF
<1> DEFINE q == get_quorum_state(s, tx.height)
<1> SUFFICES ASSUME verify_deregister(q, tx) PROVE FALSE
  BY DEF check_tx_inputs
<1> HIDE DEF q
<1>1. IsFiniteSet(tx.votes) /\ Cardinality(tx.votes) <= n
  BY OneVoteEach DEF q
<1>2. Cardinality(tx.votes) \in Nat
  BY <1>1, FS_CardinalityType
<1> QED
  BY <1>1, <1>2, QuorumCopAssumption DEF verify_deregister
------------------------------------------------------------------------------
(* The memory of a node. *)
IsNode(s) ==
  s = [chain |-> s.chain, last |-> s.last, seen |-> s.seen, votes |-> s.votes, sent |-> s.sent,
       txs |-> s.txs, start |-> s.start]

(* What is remembered of k was heard no later than now, no later than k stopped, and is not *)
(* yet too old. *)
Remembered(s, k, time, stop) ==
  k \in DOMAIN s.seen =>
    /\ s.seen[k] \in Nat /\ s.seen[k] <= time
    /\ stop # 0 => s.seen[k] <= stop
    /\ s.seen[k] >= time - UPTIME_PROOF_MAX_TIME

(* A node that stopped has nothing under way. *)
Silent(k, messages) == \A msg \in messages : msg.body.proof.key # k

(* The inductive form of StoppedNodesAreForgotten. *)
Memory ==
  /\ now \in Nat
  /\ node = [n \in Nodes |-> node[n]]
  /\ stopped \in [Nodes -> Nat]
  /\ \A n \in Nodes : IsNode(node[n])
  /\ \A k \in Provers : stopped[k] # 0 => stopped[k] <= now /\ Silent(k, net)
  /\ \A n \in Nodes, k \in Provers : Remembered(node[n], k, now, stopped[k])

(* Nothing is remembered at first. *)
LEMMA InitMemory == TimedInit => Memory
PROOF
<1> SUFFICES ASSUME TimedInit PROVE Memory
  OBVIOUS
<1>1. now \in Nat /\ net = {} /\ stopped = [n \in Nodes |-> 0] /\ node = [n \in Nodes |-> NewNode(Trunk, {}, now)]
  BY QuorumCopAssumption DEF TimedInit, Init
<1>2. IsNode(NewNode(Trunk, {}, now)) /\ \A k \in Provers : k \notin DOMAIN NewNode(Trunk, {}, now).seen
  BY DEF IsNode, NewNode
<1> QED
  BY <1>1, <1>2, PeriodAssumption DEF Memory, Remembered, Silent

(* prune_uptime_proof forgets what is too old at its own time. *)
LEMMA TickMemory == ASSUME Memory, Tick PROVE Memory'
PROOF
<1> DEFINE time == now + Period
           Pruned(s) == prune_uptime_proof(s, time)
<1>1. /\ now' = time /\ time \in Nat /\ time >= now
      /\ stopped' = stopped
      /\ node' = [n \in Nodes |-> Pruned(node[n])]
  BY PeriodAssumption DEF Memory, Tick
<1>2. ASSUME NEW n \in Nodes
      PROVE  /\ IsNode(Pruned(node[n]))
             /\ \A k \in DOMAIN Pruned(node[n]).seen :
                  /\ k \in DOMAIN node[n].seen
                  /\ Pruned(node[n]).seen[k] = node[n].seen[k]
                  /\ node[n].seen[k] >= time - UPTIME_PROOF_MAX_TIME
  <2> DEFINE seen == node[n].seen
             kept == Restrict(seen, {k \in DOMAIN seen : seen[k] >= time - UPTIME_PROOF_MAX_TIME})
  <2>1. IsNode(node[n])
    BY DEF Memory
  <2>2. Pruned(node[n]) = [node[n] EXCEPT !.seen = kept]
    BY DEF prune_uptime_proof
  <2>3. \A k \in DOMAIN kept : k \in DOMAIN seen /\ kept[k] = seen[k] /\ seen[k] >= time - UPTIME_PROOF_MAX_TIME
    BY DEF Restrict
  <2> HIDE DEF kept
  <2>4. IsNode([node[n] EXCEPT !.seen = kept]) /\ [node[n] EXCEPT !.seen = kept].seen = kept
    BY <2>1 DEF IsNode
  <2> QED
    BY <2>2, <2>3, <2>4
<1>3. ASSUME NEW k \in Provers, stopped[k] # 0 PROVE Silent(k, net')
  <2>1. \A msg \in net' : \E n \in Provers : stopped[n] = 0 /\ msg.body = Proof(n, time)
    BY DEF Tick
  <2>2. \A n \in Provers : Proof(n, time).proof.key = n
    BY DEF Proof
  <2> SUFFICES ASSUME NEW msg \in net' PROVE msg.body.proof.key # k
    BY DEF Silent
  <2>3. PICK n \in Provers : stopped[n] = 0 /\ msg.body = Proof(n, time)
    BY <2>1
  <2>4. msg.body.proof.key = n
    BY <2>2, <2>3
  <2> QED
    BY <1>3, <2>3, <2>4
<1> HIDE DEF Pruned
<1>4. ASSUME NEW n \in Nodes, NEW k \in Provers
      PROVE  Remembered(Pruned(node[n]), k, time, stopped[k])
  BY <1>1, <1>2 DEF Memory, Remembered
<1>5. /\ node' = [n \in Nodes |-> node'[n]]
      /\ \A n \in Nodes : IsNode(node'[n])
      /\ \A n \in Nodes, k \in Provers : Remembered(node'[n], k, now', stopped'[k])
  BY <1>1, <1>2, <1>4
<1>6. \A k \in Provers : stopped'[k] # 0 => stopped'[k] <= now' /\ Silent(k, net')
  BY <1>1, <1>3, PeriodAssumption DEF Memory
<1> QED
  BY <1>1, <1>5, <1>6 DEF Memory, Remembered, Silent, IsNode

(* A proof that arrives is of a node that runs; what is passed on is the same proof. *)
LEMMA HearMemory == ASSUME Memory, Hear PROVE Memory'
PROOF
<1>a. CASE UNCHANGED <<node, now, stopped>> /\ net' \subseteq net
  BY <1>a DEF Memory, Remembered, Silent, IsNode
<1>b. (UNCHANGED <<node, now, stopped>> /\ net' \subseteq net) \/ \E msg \in net : HandleProof(msg)
  BY DEF Hear
<1> SUFFICES ASSUME NEW msg \in net, HandleProof(msg) PROVE Memory'
  BY <1>a, <1>b
<1> DEFINE key == msg.body.proof.key
           Heard(s) == [s EXCEPT !.seen = Noted(@, key, now)]
<1>1. now' = now /\ stopped' = stopped
  BY DEF Hear, HandleProof
<1>2. node' = node \/ node' = [node EXCEPT ![msg.to] = Heard(node[msg.to])]
  BY Zenon DEF HandleProof
<1>3. ASSUME NEW k \in Provers, Silent(k, net) PROVE Silent(k, net')
  <2>1. \A x \in net' : x \in net \/ x.body = msg.body
    BY DEF HandleProof, Send
  <2> QED
    BY <1>3, <2>1 DEF Silent
<1>4. ASSUME NEW n \in Nodes
      PROVE  /\ IsNode(Heard(node[n]))
             /\ \A k \in Provers : Remembered(Heard(node[n]), k, now, stopped[k])
  <2> DEFINE seen == node[n].seen
             more == Noted(seen, key, now)
  <2>1. IsNode(node[n])
    BY DEF Memory
  <2>2. DOMAIN more = DOMAIN seen \cup {key} /\ \A k \in DOMAIN more : more[k] = IF k = key THEN now ELSE seen[k]
    BY DEF Noted
  <2> HIDE DEF more
  <2>3. IsNode([node[n] EXCEPT !.seen = more]) /\ [node[n] EXCEPT !.seen = more].seen = more
    BY <2>1 DEF IsNode
  <2>4. Heard(node[n]) = [node[n] EXCEPT !.seen = more]
    BY DEF more
  <2>5. key \in Provers => stopped[key] = 0
    BY DEF Memory, Silent
  <2> HIDE DEF Heard
  <2>6. ASSUME NEW k \in Provers PROVE Remembered(Heard(node[n]), k, now, stopped[k])
    <3>1. Heard(node[n]).seen = more
      BY <2>3, <2>4
    <3>2. Remembered(node[n], k, now, stopped[k]) /\ now \in Nat /\ stopped[k] \in Nat
      BY PeriodAssumption DEF Memory
    <3> QED
      BY <2>2, <2>5, <3>1, <3>2, QuorumCopAssumption DEF Remembered
  <2> QED
    BY <2>3, <2>4, <2>6
<1> HIDE DEF Heard
<1>5. /\ node' = [n \in Nodes |-> node'[n]]
      /\ \A n \in Nodes : node'[n] = node[n] \/ node'[n] = Heard(node[n])
  BY <1>2 DEF Memory
<1>6. /\ \A n \in Nodes : IsNode(node'[n])
      /\ \A n \in Nodes, k \in Provers : Remembered(node'[n], k, now', stopped'[k])
  BY <1>1, <1>4, <1>5 DEF Memory
<1> QED
  BY <1>1, <1>3, <1>5, <1>6 DEF Memory, Remembered, Silent, IsNode

(* A restarted daemon remembers nothing. *)
LEMMA RebootMemory == ASSUME Memory, NEW n \in Nodes, Reboot(n) PROVE Memory'
PROOF
<1> DEFINE new == NewNode(node[n].chain, node[n].txs, now)
<1>1. /\ now' = now /\ stopped' = stopped /\ net' = net
      /\ node' = [node EXCEPT ![n] = new]
  BY DEF Reboot, Restart
<1>2. IsNode(new) /\ \A k \in Provers : k \notin DOMAIN new.seen
  BY DEF IsNode, NewNode
<1> HIDE DEF new
<1> QED
  BY <1>1, <1>2 DEF Memory, Remembered, Silent, IsNode

(* A node that stops was last heard before. *)
LEMMA StopMemory == ASSUME Memory, NEW n \in Nodes, Stop(n) PROVE Memory'
  BY DEF Memory, Stop, Remembered, Silent, IsNode

(* The steps that leave the memories of the nodes alone. *)
LEMMA OtherMemory ==
  ASSUME Memory, UNCHANGED timedVars \/ Reconnect \/ \E n \in Nodes : CutOff(n)
  PROVE  Memory'
  BY DEF Memory, timedVars, vars, Reconnect, CutOff, Remembered, Silent, IsNode

(* StoppedNodesAreForgotten for any nodes, times, numbers of faults and periods: however   *)
(* late the last proof of a node is relayed and whoever restarts, prune_uptime_proof leaves *)
(* no trace of it when UPTIME_PROOF_MAX_TIME has passed since it stopped.                   *)
THEOREM StoppedAreForgotten == TimedSpec => []StoppedNodesAreForgotten
PROOF
<1>1. Memory /\ [TimedNext]_timedVars => Memory'
  BY TickMemory, HearMemory, RebootMemory, StopMemory, OtherMemory DEF TimedNext
<1>2. Memory => StoppedNodesAreForgotten
  BY QuorumCopAssumption, PeriodAssumption DEF Memory, Remembered, StoppedNodesAreForgotten
<1> QED
  BY InitMemory, <1>1, <1>2, PTL DEF TimedSpec
------------------------------------------------------------------------------
(* The shortest time between two proofs that are accepted. *)
Gap == UPTIME_PROOF_FREQUENCY \div 2

SeenSince(s, k, time) == k \in DOMAIN s.seen /\ s.seen[k] >= time

(* A proof of k that was sent at a time is under way, and under way to n. *)
Circulates(k, messages, time) == \E msg \in messages : msg.body = Proof(k, time)
Pending(n, k, messages, time) == \E msg \in messages : msg.to = n /\ msg.body = Proof(k, time)

(* What a node with the memory s knows of k, whose own memory is own: it has started, or    *)
(* accepted a proof, since k last heard itself, or shortly before; and its last proof of k  *)
(* is recent, and the more so while one is under way.                                       *)
KeepsUp(s, own, k, messages, time) ==
  /\ k \in DOMAIN own.seen => s.start >= own.seen[k] \/ SeenSince(s, k, own.seen[k] - Gap)
  /\ s.start > time - UPTIME_PROOF_FREQUENCY \/ SeenSince(s, k, time - UPTIME_PROOF_FREQUENCY - Gap)
  /\ Circulates(k, messages, time) => s.start >= time \/ SeenSince(s, k, time - Gap)

(* The inductive form of RunningNodesAreSeen: a node that does not keep up with another has *)
(* a proof of it to read.                                                                   *)
Attention ==
  /\ now > UPTIME_PROOF_MAX_TIME
  /\ \A n \in Nodes : node[n].start \in Nat /\ node[n].chain = Trunk
  /\ \A msg \in net : msg.to \in Nodes /\ \E k \in Provers : msg.body = Proof(k, now)
  /\ \A n \in Nodes, k \in Provers :
       n # k /\ stopped[n] = 0 /\ stopped[k] = 0 =>
         Pending(n, k, net, now) \/ KeepsUp(node[n], node[k], k, net, now)

(* The times as integers. *)
LEMMA Times ==
  /\ Gap \in Nat /\ UPTIME_PROOF_FREQUENCY \in Nat \ {0} /\ UPTIME_PROOF_MAX_TIME \in Nat
  /\ UPTIME_PROOF_FREQUENCY + Gap <= UPTIME_PROOF_MAX_TIME
  BY TimesAssumption, QuorumCopAssumption DEF Gap

(* Two proofs of one time are the same only if they are of the same node. *)
LEMMA ProofKey ==
  ASSUME NEW j, NEW k, NEW time, NEW t, Proof(j, time) = Proof(k, t)
  PROVE  j = k
<1>1. Proof(j, time).proof.key = j /\ Proof(k, t).proof.key = k
  BY DEF Proof
<1> QED
  BY <1>1

(* Nobody has been running for long at first. *)
LEMMA InitAttention == TimedInit => Attention
PROOF
<1> SUFFICES ASSUME TimedInit PROVE Attention
  OBVIOUS
<1>1. now = StartTime /\ net = {} /\ node = [n \in Nodes |-> NewNode(Trunk, {}, now)]
  BY DEF TimedInit, Init
<1>2. /\ NewNode(Trunk, {}, now).start = now /\ NewNode(Trunk, {}, now).chain = Trunk
      /\ \A k : k \notin DOMAIN NewNode(Trunk, {}, now).seen
  BY DEF NewNode
<1>3. \A n \in Nodes : node[n].start = now /\ node[n].chain = Trunk /\ \A k : k \notin DOMAIN node[n].seen
  BY <1>1, <1>2
<1> QED
  BY <1>1, <1>3, Times, QuorumCopAssumption, PeriodAssumption DEF Attention, KeepsUp, Circulates

(* A prover is a full node for everybody. *)
LEMMA ProversAreFullNodes ==
  ASSUME Attention, NEW n \in Nodes, NEW k \in Provers
  PROVE  is_full_node(node[n], k)
<1>1. node[n].chain = Trunk
  BY DEF Attention
<1> QED
  BY <1>1, TimesAssumption DEF is_full_node, Kicked, KickedBetween, Height

(* A node that does not announce itself has heard itself within the hour, and whoever ran   *)
(* then heard it half an hour earlier or later.                                             *)
LEMMA TickAttention == ASSUME Memory, Attention, cut = {}, Tick PROVE Attention'
PROOF
<1> DEFINE time == now + Period
           Pruned(s) == prune_uptime_proof(s, time)
           due == {n \in Provers : stopped[n] = 0 /\ SubmitDue(node[n], n, time)}
<1>1. /\ now' = time /\ time \in Nat /\ time >= now /\ now \in Nat
      /\ stopped' = stopped /\ net = {}
      /\ node' = [n \in Nodes |-> Pruned(node[n])]
      /\ net' = UNION {[from : {n}, to : Connected(n), body : {Proof(n, time)}] : n \in due}
  BY PeriodAssumption DEF Memory, Tick
<1>2. ASSUME NEW n \in Nodes
      PROVE  /\ Pruned(node[n]).start = node[n].start /\ Pruned(node[n]).chain = node[n].chain
             /\ \A k : k \in DOMAIN Pruned(node[n]).seen <=>
                         SeenSince(node[n], k, time - UPTIME_PROOF_MAX_TIME)
             /\ \A k \in DOMAIN Pruned(node[n]).seen : Pruned(node[n]).seen[k] = node[n].seen[k]
  <2> DEFINE seen == node[n].seen
             kept == Restrict(seen, {k \in DOMAIN seen : seen[k] >= time - UPTIME_PROOF_MAX_TIME})
  <2>1. IsNode(node[n])
    BY DEF Memory
  <2>2. Pruned(node[n]) = [node[n] EXCEPT !.seen = kept]
    BY DEF prune_uptime_proof
  <2>3. /\ DOMAIN kept = {k \in DOMAIN seen : seen[k] >= time - UPTIME_PROOF_MAX_TIME}
        /\ \A k \in DOMAIN kept : kept[k] = seen[k]
    BY DEF Restrict
  <2> HIDE DEF kept
  <2>4. /\ [node[n] EXCEPT !.seen = kept].seen = kept
        /\ [node[n] EXCEPT !.seen = kept].start = node[n].start
        /\ [node[n] EXCEPT !.seen = kept].chain = node[n].chain
    BY <2>1 DEF IsNode
  <2> QED
    BY <2>2, <2>3, <2>4 DEF SeenSince
<1> HIDE DEF Pruned
<1>3. /\ \A msg \in net' : \E n \in due : msg.to \in Connected(n) /\ msg.body = Proof(n, time)
      /\ \A n \in due : \A m \in Connected(n) : Pending(m, n, net', time)
  <2>1. \A n \in due : \A m \in Connected(n) : [from |-> n, to |-> m, body |-> Proof(n, time)] \in net'
    BY <1>1
  <2>2. \A n \in due : \A m \in Connected(n) :
          /\ [from |-> n, to |-> m, body |-> Proof(n, time)].to = m
          /\ [from |-> n, to |-> m, body |-> Proof(n, time)].body = Proof(n, time)
    OBVIOUS
  <2>3. \A n \in due : \A m \in Connected(n) : Pending(m, n, net', time)
    BY <2>1, <2>2, Zenon DEF Pending
  <2>4. ASSUME NEW msg \in net'
        PROVE  \E n \in due : msg.to \in Connected(n) /\ msg.body = Proof(n, time)
    <3>1. PICK n \in due : msg \in [from : {n}, to : Connected(n), body : {Proof(n, time)}]
      BY <1>1
    <3> QED
      BY <3>1
  <2> QED
    BY <2>3, <2>4
<1>4. ASSUME NEW n \in Nodes, NEW k \in Provers, n # k, stopped[n] = 0, stopped[k] = 0, k \notin due
      PROVE  KeepsUp(Pruned(node[n]), Pruned(node[k]), k, net', time)
  <2> DEFINE a == node[k].seen[k]
  <2>1. k \in Nodes /\ is_full_node(node[k], k)
    BY ProversAreFullNodes, PeriodAssumption
  <2>2. ~(LastProof(node[k], k) <= time - UPTIME_PROOF_FREQUENCY)
    BY <1>4, <2>1 DEF SubmitDue
  <2>3. k \in DOMAIN node[k].seen /\ a \in Nat /\ a > time - UPTIME_PROOF_FREQUENCY
    <3>1. k \in DOMAIN node[k].seen => a \in Nat
      BY <2>1 DEF Memory, Remembered
    <3>2. time > UPTIME_PROOF_FREQUENCY
      BY <1>1, Times DEF Attention
    <3> QED
      BY <1>1, <2>2, <3>1, <3>2, Times DEF LastProof
  <2>4. KeepsUp(node[n], node[k], k, net, now)
    BY <1>1, <1>4 DEF Attention, Pending
  <2>5. node[n].start >= a \/ SeenSince(node[n], k, a - Gap)
    BY <2>3, <2>4 DEF KeepsUp
  <2>6. k \in DOMAIN node[n].seen => node[n].seen[k] \in Nat
    BY DEF Memory, Remembered
  <2>7. node[n].start \in Nat
    BY DEF Attention
  <2>8. k \in DOMAIN Pruned(node[k]).seen => Pruned(node[k]).seen[k] = a
    BY <1>2, <2>1
  <2> HIDE DEF a
  <2>9. SeenSince(node[n], k, a - Gap) =>
          SeenSince(Pruned(node[n]), k, a - Gap) /\ SeenSince(Pruned(node[n]), k, time - UPTIME_PROOF_FREQUENCY - Gap)
    <3> SUFFICES ASSUME SeenSince(node[n], k, a - Gap)
                 PROVE  /\ SeenSince(Pruned(node[n]), k, a - Gap)
                        /\ SeenSince(Pruned(node[n]), k, time - UPTIME_PROOF_FREQUENCY - Gap)
      OBVIOUS
    <3>1. k \in DOMAIN node[n].seen /\ node[n].seen[k] >= a - Gap
      BY DEF SeenSince
    <3>2. node[n].seen[k] >= time - UPTIME_PROOF_MAX_TIME /\ node[n].seen[k] >= time - UPTIME_PROOF_FREQUENCY - Gap
      BY <1>1, <2>3, <2>6, <3>1, Times
    <3>3. k \in DOMAIN Pruned(node[n]).seen /\ Pruned(node[n]).seen[k] = node[n].seen[k]
      BY <1>2, <3>1, <3>2 DEF SeenSince
    <3> QED
      BY <3>1, <3>2, <3>3 DEF SeenSince
  <2>10. ~Circulates(k, net', time)
    BY <1>3, <1>4, ProofKey DEF Circulates
  <2>11. node[n].start >= a => node[n].start > time - UPTIME_PROOF_FREQUENCY
    BY <1>1, <2>3, <2>7, Times
  <2>12. Pruned(node[n]).start = node[n].start
    BY <1>2
  <2> QED
    BY <2>5, <2>8, <2>9, <2>10, <2>11, <2>12 DEF KeepsUp
<1>5. now' > UPTIME_PROOF_MAX_TIME
  BY <1>1, Times DEF Attention
<1>6. \A n \in Nodes : node'[n].start \in Nat /\ node'[n].chain = Trunk
  BY <1>1, <1>2 DEF Attention
<1>7. \A msg \in net' : msg.to \in Nodes /\ \E k \in Provers : msg.body = Proof(k, now')
  BY <1>1, <1>3 DEF Connected
<1>8. ASSUME NEW n \in Nodes, NEW k \in Provers, n # k, stopped[n] = 0, stopped[k] = 0
      PROVE  Pending(n, k, net', time) \/ KeepsUp(Pruned(node[n]), Pruned(node[k]), k, net', time)
  BY <1>3, <1>4, <1>8 DEF Connected
<1>9. \A n \in Nodes : node'[n] = Pruned(node[n])
  BY <1>1
<1> QED
  BY <1>1, <1>5, <1>6, <1>7, <1>8, <1>9, PeriodAssumption DEF Attention

(* Whoever reads a proof has one that recent afterwards, accepted or not. *)
LEMMA HearAttention == ASSUME Memory, Attention, cut = {}, Hear PROVE Attention'
PROOF
<1>1. PICK msg \in net :
        \/ HandleProof(msg)
        \/ stopped[msg.to] # 0 /\ net' = net \ {msg} /\ UNCHANGED <<node, now>>
  BY DEF Hear
<1>2. stopped' = stopped /\ now' = now /\ now \in Nat
  BY <1>1 DEF Hear, HandleProof, Memory
<1>3. msg.to \in Nodes /\ \E j \in Provers : msg.body = Proof(j, now)
  BY DEF Attention
<1>4. PICK j \in Provers : msg.body = Proof(j, now)
  BY <1>3
<1>5. CASE stopped[msg.to] # 0 /\ net' = net \ {msg} /\ UNCHANGED <<node, now>>
  <2>1. ASSUME NEW n \in Nodes, NEW k \in Provers, stopped[n] = 0, Pending(n, k, net, now)
        PROVE  Pending(n, k, net', now)
    BY <1>5, <2>1 DEF Pending
  <2>2. ASSUME NEW n \in Nodes, NEW k \in Provers, KeepsUp(node[n], node[k], k, net, now)
        PROVE  KeepsUp(node[n], node[k], k, net', now)
    BY <1>5, <2>2 DEF KeepsUp, Circulates
  <2> QED
    BY <1>2, <1>5, <2>1, <2>2 DEF Attention
<1>6. CASE HandleProof(msg)
  <2> DEFINE m == msg.to
             accepted == handle_uptime_proof(node[m], msg.body.proof, now)
             more == Noted(node[m].seen, j, now)
  <2>1. /\ msg.body.proof.key = j /\ msg.body.proof.time = now
        /\ HFVersion = 11 => msg.body.proof.major >= 3
        /\ HFVersion = 10 => msg.body.proof.major >= 2
    BY <1>4, TimesAssumption DEF Proof, ProofMajor
  <2>2. node' = IF accepted THEN [node EXCEPT ![m].seen = more] ELSE node
    BY <1>6, <2>1 DEF HandleProof
  <2>3. /\ net \ {msg} \subseteq net'
        /\ \A x \in net' : x \in net \/ (x.to \in Nodes /\ x.body = msg.body)
    BY <1>6 DEF HandleProof, Send, Connected
  <2>4. DOMAIN more = DOMAIN node[m].seen \cup {j} /\ \A k \in DOMAIN more : more[k] = IF k = j THEN now ELSE node[m].seen[k]
    BY DEF Noted
  <2>5. ~accepted => SeenSince(node[m], j, now - Gap)
    <3>1. is_full_node(node[m], j)
      BY <1>3, ProversAreFullNodes
    <3>2. now \in now - UPTIME_PROOF_BUFFER..now + UPTIME_PROOF_BUFFER
      BY <1>2, TimesAssumption
    <3>3. ~accepted => ~(LastProof(node[m], j) < now - Gap)
      BY <2>1, <3>1, <3>2 DEF handle_uptime_proof, Gap
    <3>4. now - Gap > 0 /\ Gap \in Nat
      BY <1>2, Times DEF Attention
    <3>5. j \in DOMAIN node[m].seen => node[m].seen[j] \in Nat
      BY <1>3 DEF Memory, Remembered
    <3> QED
      BY <1>2, <3>3, <3>4, <3>5 DEF LastProof, SeenSince
  <2> HIDE DEF accepted, more
  <2>6. ASSUME NEW n \in Nodes
        PROVE  /\ node'[n].start = node[n].start /\ node'[n].chain = node[n].chain
               /\ n # m => node'[n] = node[n]
               /\ \A k : k # j => /\ k \in DOMAIN node'[n].seen <=> k \in DOMAIN node[n].seen
                                  /\ node'[n].seen[k] = node[n].seen[k] \/ k \notin DOMAIN node[n].seen
    <3>1. node = [x \in Nodes |-> node[x]] /\ IsNode(node[n])
      BY DEF Memory
    <3>2. CASE ~accepted
      BY <2>2, <3>2
    <3>3. CASE accepted
      <4>1. node' = [node EXCEPT ![m].seen = more]
        BY <2>2, <3>3
      <4>2. n # m => node'[n] = node[n]
        BY <3>1, <4>1
      <4>3. n = m => node'[n] = [node[n] EXCEPT !.seen = more]
        BY <1>3, <3>1, <4>1
      <4>4. /\ [node[n] EXCEPT !.seen = more].start = node[n].start
            /\ [node[n] EXCEPT !.seen = more].chain = node[n].chain
            /\ [node[n] EXCEPT !.seen = more].seen = more
        BY <3>1 DEF IsNode
      <4> QED
        BY <2>4, <4>2, <4>3, <4>4
    <3> QED
      BY <3>2, <3>3
  <2>7. /\ SeenSince(node'[m], j, now - Gap)
        /\ j \in DOMAIN node'[m].seen => node'[m].seen[j] = now \/ (node'[m] = node[m])
    <3>1. CASE ~accepted
      BY <2>2, <2>5, <3>1
    <3>2. CASE accepted
      <4>1. IsNode(node[m]) /\ node = [x \in Nodes |-> node[x]]
        BY <1>3 DEF Memory
      <4>2. node'[m] = [node[m] EXCEPT !.seen = more]
        BY <1>3, <2>2, <3>2, <4>1
      <4>3. [node[m] EXCEPT !.seen = more].seen = more
        BY <4>1 DEF IsNode
      <4>4. node'[m].seen = more /\ j \in DOMAIN more /\ more[j] = now
        BY <2>4, <4>2, <4>3
      <4>5. now >= now - Gap
        BY <1>2, Times
      <4> QED
        BY <4>4, <4>5 DEF SeenSince
    <3> QED
      BY <3>1, <3>2
  <2>8. ASSUME NEW n \in Nodes, NEW k \in Provers, n # k, stopped[n] = 0, stopped[k] = 0
        PROVE  Pending(n, k, net', now) \/ KeepsUp(node'[n], node'[k], k, net', now)
    <3>1. Pending(n, k, net, now) \/ KeepsUp(node[n], node[k], k, net, now)
      BY <2>8 DEF Attention
    <3>2. k \in Nodes
      BY PeriodAssumption
    <3>3. k # j => (Circulates(k, net', now) => Circulates(k, net, now))
      BY <1>4, <2>3, ProofKey DEF Circulates
    <3>4. Pending(n, k, net, now) /\ (n # m \/ k # j) => Pending(n, k, net', now)
      BY <1>4, <2>3, ProofKey DEF Pending
    <3>5. Circulates(j, net, now)
      BY <1>4 DEF Circulates
    <3>6. ASSUME k # j PROVE KeepsUp(node[n], node[k], k, net, now) => KeepsUp(node'[n], node'[k], k, net', now)
      <4>1. /\ node'[n].start = node[n].start
            /\ k \in DOMAIN node'[n].seen <=> k \in DOMAIN node[n].seen
            /\ node'[n].seen[k] = node[n].seen[k] \/ k \notin DOMAIN node[n].seen
            /\ k \in DOMAIN node'[k].seen <=> k \in DOMAIN node[k].seen
            /\ node'[k].seen[k] = node[k].seen[k] \/ k \notin DOMAIN node[k].seen
        BY <2>6, <3>2, <3>6
      <4> QED
        BY <3>3, <3>6, <4>1 DEF KeepsUp, SeenSince
    <3>7. ASSUME k = j, n = m PROVE KeepsUp(node'[n], node'[k], k, net', now)
      <4>1. node'[k] = node[k] /\ SeenSince(node'[n], k, now - Gap)
        BY <2>6, <2>7, <2>8, <3>2, <3>7
      <4>2. k \in DOMAIN node[k].seen => node[k].seen[k] \in Nat /\ node[k].seen[k] <= now
        BY <3>2 DEF Memory, Remembered
      <4>3. k \in DOMAIN node'[n].seen /\ node'[n].seen[k] >= now - Gap
        BY <4>1 DEF SeenSince
      <4>4. node'[n].seen[k] = now \/ node'[n].seen[k] \in Nat
        <5>1. node'[m].seen[j] = now \/ node'[m] = node[m]
          BY <2>7, <3>7, <4>3
        <5>2. j \in DOMAIN node[m].seen => node[m].seen[j] \in Nat
          BY <1>3 DEF Memory, Remembered
        <5> QED
          BY <3>7, <4>3, <5>1, <5>2
      <4>5. /\ k \in DOMAIN node[k].seen => node'[n].seen[k] >= node[k].seen[k] - Gap
            /\ node'[n].seen[k] >= now - UPTIME_PROOF_FREQUENCY - Gap
        BY <1>2, <4>2, <4>3, <4>4, Times
      <4> QED
        BY <4>1, <4>3, <4>5 DEF KeepsUp, SeenSince
    <3>8. ASSUME k = j, n # m, KeepsUp(node[n], node[k], k, net, now)
          PROVE  KeepsUp(node'[n], node'[k], k, net', now)
      <4>1. node'[n] = node[n]
        BY <2>6, <3>8
      <4>2. node[n].start >= now \/ SeenSince(node[n], k, now - Gap)
        BY <3>5, <3>8 DEF KeepsUp
      <4>3. k \in DOMAIN node'[k].seen => node'[k].seen[k] = now \/ node'[k] = node[k]
        BY <2>6, <2>7, <3>2, <3>8
      <4> QED
        BY <3>8, <4>1, <4>2, <4>3 DEF KeepsUp
    <3> QED
      BY <3>1, <3>4, <3>6, <3>7, <3>8
  <2>9. \A n \in Nodes : node'[n].start \in Nat /\ node'[n].chain = Trunk
    BY <2>6 DEF Attention
  <2>10. \A x \in net' : x.to \in Nodes /\ \E k \in Provers : x.body = Proof(k, now)
    BY <1>4, <2>3 DEF Attention
  <2> QED
    BY <1>2, <2>8, <2>9, <2>10 DEF Attention
<1> QED
  BY <1>1, <1>5, <1>6

(* A restarted node has time; a restarted prover announces itself at once. *)
LEMMA RebootAttention == ASSUME Memory, Attention, NEW m \in Nodes, Reboot(m) PROVE Attention'
PROOF
<1> DEFINE new == NewNode(node[m].chain, node[m].txs, now)
<1>1. /\ now' = now /\ now \in Nat /\ stopped' = stopped /\ net' = net
      /\ node' = [node EXCEPT ![m] = new] /\ node = [n \in Nodes |-> node[n]]
  BY DEF Reboot, Restart, Memory
<1>2. new.start = now /\ new.chain = node[m].chain /\ \A k : k \notin DOMAIN new.seen
  BY DEF NewNode
<1> HIDE DEF new
<1>3. \A n \in Nodes : node'[n] = IF n = m THEN new ELSE node[n]
  BY <1>1
<1>4. ASSUME NEW n \in Nodes, NEW k \in Provers, n # k, KeepsUp(node[n], node[k], k, net, now)
      PROVE  KeepsUp(node'[n], node'[k], k, net, now)
  <2>1. k \in Nodes /\ (k \in DOMAIN node[k].seen => node[k].seen[k] \in Nat /\ node[k].seen[k] <= now)
    BY PeriodAssumption DEF Memory, Remembered
  <2>2. CASE n = m
    <3>1. node'[k] = node[k] /\ node'[n].start = now
      BY <1>2, <1>3, <1>4, <2>1, <2>2
    <3>2. now >= now /\ now > now - UPTIME_PROOF_FREQUENCY
      BY <1>1, Times
    <3> QED
      BY <2>1, <3>1, <3>2 DEF KeepsUp
  <2>3. CASE k = m
    BY <1>2, <1>3, <1>4, <2>3 DEF KeepsUp
  <2> QED
    BY <1>3, <1>4, <2>1, <2>2, <2>3
<1>5. \A n \in Nodes : node'[n].start \in Nat /\ node'[n].chain = Trunk
  BY <1>1, <1>2, <1>3 DEF Attention
<1> QED
  BY <1>1, <1>4, <1>5 DEF Attention

(* The steps that leave the memories of the nodes and the messages alone. *)
LEMMA OtherAttention ==
  ASSUME Memory, Attention,
         UNCHANGED timedVars \/ Reconnect \/ \E n \in Nodes : CutOff(n) \/ Stop(n)
  PROVE  Attention'
PROOF
<1>1. UNCHANGED <<node, net, now>> /\ (UNCHANGED stopped \/ \E n \in Nodes : stopped' = [stopped EXCEPT ![n] = now])
  BY DEF timedVars, vars, Reconnect, CutOff, Stop
<1>2. now # 0
  BY Times DEF Memory, Attention
<1>3. \A n \in Nodes : stopped'[n] = 0 => stopped[n] = 0
  BY <1>1, <1>2 DEF Memory
<1> QED
  BY <1>1, <1>3, PeriodAssumption DEF Attention

(* RunningNodesAreSeen for any number of nodes, provers, restarts and stops, any period and *)
(* any order in which proofs are relayed, as long as nobody is cut off: a node that is old   *)
(* enough to vote has a proof of every node that runs.  It takes the released times: half    *)
(* as much again as the time between two proofs must fit into UPTIME_PROOF_MAX_TIME.         *)
THEOREM RunningAreSeen == TimedSpec /\ [](cut = {}) => []RunningNodesAreSeen
PROOF
<1>1. Memory /\ [TimedNext]_timedVars => Memory'
  BY TickMemory, HearMemory, RebootMemory, StopMemory, OtherMemory DEF TimedNext
<1>2. Memory /\ Attention /\ cut = {} /\ [TimedNext]_timedVars => Attention'
  BY TickAttention, HearAttention, RebootAttention, OtherAttention DEF TimedNext
<1>3. ASSUME Memory, Attention PROVE RunningNodesAreSeen
  <2> SUFFICES ASSUME net = {}, NEW n \in Nodes, Alive(n), NEW k \in Provers \ {n}, stopped[k] = 0,
                      k \notin DOMAIN node[n].seen
               PROVE  FALSE
    BY DEF RunningNodesAreSeen
  <2>1. KeepsUp(node[n], node[k], k, net, now)
    BY <1>3 DEF Attention, Pending, Alive
  <2>2. node[n].start > now - UPTIME_PROOF_FREQUENCY
    BY <2>1 DEF KeepsUp, SeenSince
  <2> QED
    BY <1>3, <2>2, TimesAssumption DEF Alive, Attention, Memory
<1> QED
  BY InitMemory, InitAttention, <1>1, <1>2, <1>3, PTL DEF TimedSpec
=============================================================================
