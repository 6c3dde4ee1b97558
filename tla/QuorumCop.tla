------------------------------ MODULE QuorumCop ------------------------------
(***************************************************************************)
(* How full nodes vote each other off (full_node_quorum_cop.cpp,            *)
(* full_node_deregister.cpp and their callers in cryptonote_core.cpp and    *)
(* cryptonote_protocol_handler.inl): every node announces uptime proofs;    *)
(* the quorum of a block votes against the tested nodes it has no proof of; *)
(* votes are relayed, and enough of them make a deregister transaction.     *)
(*                                                                          *)
(* A node's state has                                                       *)
(*   chain   its blocks: who mined them, their deregister transactions and  *)
(*           the nodes these kick;                                          *)
(*   last    m_last_height, the next block whose quorum the cop looks at;   *)
(*   seen    m_uptime_proof_seen;                                           *)
(*   votes   m_deregisters of the vote pool, and                            *)
(*   sent    those of them with a recent m_time_last_sent_p2p;              *)
(*   txs     the deregister transactions in its memory pool;                *)
(*   start   when the daemon started.                                       *)
(* A handler runs under the blockchain lock or the lock of the structure it *)
(* changes, so it is one step.  All nodes are synchronised.                 *)
(***************************************************************************)
EXTENDS Integers, Sequences, FiniteSets, SequencesExt, FiniteSetsExt, Functions, TLC

CONSTANTS
  Nodes,                   \* the nodes of the network, all of them full nodes
  Trunk,                   \* the blocks every node has when it starts
  Quorum(_, _),            \* the quorum state of a block: of its miner (for its hash) and its height
  VOTE_LIFETIME_BY_HEIGHT, REORG_SAFETY_BUFFER_IN_BLOCKS, MIN_VOTES_TO_KICK_FULL_NODE,
  UPTIME_PROOF_FREQUENCY, UPTIME_PROOF_BUFFER, UPTIME_PROOF_MAX_TIME, MIN_LIFETIME,
  HFVersion, Major,        \* the network version, and the releases of the nodes
  Finders(_), MaxHeight,   \* who may find the block of a height
  MaxReorg, MaxFaults,     \* the longest branch that loses, and how much goes wrong
  StartTime

ASSUME QuorumCopAssumption ==
  /\ REORG_SAFETY_BUFFER_IN_BLOCKS < VOTE_LIFETIME_BY_HEIGHT
  /\ MIN_VOTES_TO_KICK_FULL_NODE \in Nat
  /\ StartTime \in Nat /\ UPTIME_PROOF_MAX_TIME \in Nat
  /\ StartTime > UPTIME_PROOF_MAX_TIME
  /\ \A h \in Len(Trunk)..MaxHeight - 1 : Finders(h) \subseteq Nodes

VARIABLES
  node,      \* the state of every node
  net,       \* messages on their way
  now,
  dropped,   \* the connections that were dropped: who dropped whom
  faults     \* restarts and losses so far

vars == <<node, net, now, dropped, faults>>

Height(s) == Len(s.chain)

\* The nodes kicked by the blocks of a range of heights.
KickedBetween(s, from, to) == UNION {s.chain[h + 1].kicked : h \in from..to}

Kicked(s) == KickedBetween(s, 0, Height(s) - 1)

is_full_node(s, key) == key \notin Kicked(s)

\* full_node_list::get_quorum_state: chosen from the nodes that are left after the block.
get_quorum_state(s, h) ==
  LET left(key) == key \notin KickedBetween(s, 0, h)
      q == Quorum(s.chain[h + 1].miner, h)
  IN [quorum_nodes |-> SelectSeq(q.quorum_nodes, left), nodes_to_test |-> SelectSeq(q.nodes_to_test, left)]

\* verify_votes_helper: the index and the voters are in range and the signatures hold.  A
\* signature is over the height and the index only.
InBounds(q, index, votes) ==
  index \in DOMAIN q.nodes_to_test /\ \A v \in votes : v.voter \in DOMAIN q.quorum_nodes

SignaturesHold(q, votes) == \A v \in votes : v.signer = q.quorum_nodes[v.voter]

verify_deregister(q, tx) ==
  /\ Cardinality(tx.votes) >= MIN_VOTES_TO_KICK_FULL_NODE
  /\ InBounds(q, tx.index, tx.votes)
  /\ \A v, w \in tx.votes : v # w => v.voter # w.voter
  /\ SignaturesHold(q, tx.votes)

\* The node that a deregister transaction is about, on a chain that has its block.
Target(s, tx) == get_quorum_state(s, tx.height).nodes_to_test[tx.index]

\* Mutant of check_tx_inputs: without the search for an earlier deregistration.
MutantCheckTxInputs(s, tx) ==
  /\ tx.height < Height(s) /\ Height(s) - tx.height < VOTE_LIFETIME_BY_HEIGHT
  /\ verify_deregister(get_quorum_state(s, tx.height), tx)

\* What check_tx_inputs asks of a deregister transaction: that the votes are enough and not
\* too old, and that no block since the vote has kicked the node.
check_tx_inputs(s, tx) ==
  /\ tx.height < Height(s) /\ Height(s) - tx.height < VOTE_LIFETIME_BY_HEIGHT
  /\ verify_deregister(get_quorum_state(s, tx.height), tx)
  /\ Target(s, tx) \notin KickedBetween(s, tx.height, Height(s) - 1)

\* handle_incoming_tx of a deregister transaction: one per height and index.
AddToMempool(s, tx) ==
  IF (\E u \in s.txs : u.height = tx.height /\ u.index = tx.index) \/ ~check_tx_inputs(s, tx)
  THEN s ELSE [s EXCEPT !.txs = @ \cup {tx}]

\* The entry of m_deregisters for a vote's height and index.
GroupOf(s, v) == {w \in s.votes : w.height = v.height /\ w.index = v.index}

\* deregister_vote_pool::add_vote of a vote that verifies: one per voter; from the last vote
\* that is needed on, each new vote makes a transaction of the whole group.
add_vote(s, v) ==
  LET group == GroupOf(s, v)
      added == [s EXCEPT !.votes = @ \cup {v}]
      tx == [height |-> v.height, index |-> v.index, votes |-> group \cup {v}]
  IN IF \E w \in group : w.voter = v.voter THEN s
     ELSE IF Cardinality(group) + 1 >= MIN_VOTES_TO_KICK_FULL_NODE THEN AddToMempool(added, tx)
     ELSE added

Current(s, v) ==
  v.height < Height(s) /\ Height(s) - v.height < VOTE_LIFETIME_BY_HEIGHT

\* core::add_deregister_vote: the vote is fatal to the connection it came from, or is
\* ignored for an index out of bounds, or goes to the pool.
Fatal(s, v) ==
  \/ ~Current(s, v)
  \/ LET q == get_quorum_state(s, v.height) IN InBounds(q, v.index, {v}) /\ ~SignaturesHold(q, {v})

add_deregister_vote(s, v) ==
  IF Fatal(s, v) \/ ~InBounds(get_quorum_state(s, v.height), v.index, {v}) THEN s ELSE add_vote(s, v)

-----------------------------------------------------------------------------

\* quorum_cop::block_added for the votes of node n on the block at height m.
Judge(n, s, m) ==
  LET q == get_quorum_state(s, m)
      voter == {i \in DOMAIN q.quorum_nodes : q.quorum_nodes[i] = n}
      guilty == {i \in DOMAIN q.nodes_to_test : q.nodes_to_test[i] \notin DOMAIN s.seen}
      vote(i) == [height |-> m, index |-> i, voter |-> Min(voter), signer |-> n,
                  against |-> q.nodes_to_test[i]]
  IN IF voter = {} THEN s
     ELSE FoldSet(LAMBDA i, t : add_deregister_vote(t, vote(i)), s, guilty)

\* Mutant of block_added: without the safety buffer.
MutantBlockAdded(n, s, time) ==
  LET from == Max({s.last, Height(s) - VOTE_LIFETIME_BY_HEIGHT})
      judged == FoldLeft(LAMBDA t, m : Judge(n, t, m), s,
                         [i \in 1..(Height(s) - 1 - from) |-> from + i - 1])
  IN IF time - s.start < MIN_LIFETIME \/ Height(s) < VOTE_LIFETIME_BY_HEIGHT THEN s
     ELSE [judged EXCEPT !.last = Max({from, Height(s) - 1})]

block_added(n, s, time) ==
  LET height == Height(s) - 1
      execute_justice_from_height == Height(s) - VOTE_LIFETIME_BY_HEIGHT
      from == Max({s.last, execute_justice_from_height})
      end == height - REORG_SAFETY_BUFFER_IN_BLOCKS
      judged == FoldLeft(LAMBDA t, m : Judge(n, t, m), s, [i \in 1..(end - from) |-> from + i - 1])
  IN IF time - s.start < MIN_LIFETIME \/ Height(s) < VOTE_LIFETIME_BY_HEIGHT THEN s
     ELSE [judged EXCEPT !.last = Max({from, end})]

blockchain_detached(s, height) == [s EXCEPT !.last = IF @ >= height THEN height ELSE @]

remove_expired_votes(s, height) ==
  IF height < VOTE_LIFETIME_BY_HEIGHT THEN s
  ELSE [s EXCEPT !.votes = {v \in @ : v.height >= height - VOTE_LIFETIME_BY_HEIGHT}]

remove_used_votes(s, txs) ==
  [s EXCEPT !.votes = {v \in @ : \A tx \in txs : tx.height # v.height \/ tx.index # v.index}]

\* Mutant of AddBlock: votes expire with the height of the block, not the one after it.
MutantAddBlock(n, s, block, time) ==
  LET added == [s EXCEPT !.chain = Append(@, block), !.txs = @ \ block.txs]
      hooked == block_added(n, added, time)
      swept == remove_used_votes(remove_expired_votes(hooked, Height(hooked)), block.txs)
  IN [swept EXCEPT !.sent = @ \cap swept.votes]

\* A block goes onto the chain, with the hooks and the housekeeping after them.
AddBlock(n, s, block, time) ==
  LET added == [s EXCEPT !.chain = Append(@, block), !.txs = @ \ block.txs]
      hooked == block_added(n, added, time)
      swept == remove_used_votes(remove_expired_votes(hooked, Height(hooked) + 1), block.txs)
  IN [swept EXCEPT !.sent = @ \cap swept.votes]

\* Blocks come off the chain, and their transactions return to the pool.
PopTo(s, height) ==
  [blockchain_detached(s, height) EXCEPT
     !.chain = SubSeq(@, 1, height),
     !.txs = @ \cup UNION {s.chain[i].txs : i \in height + 1..Height(s)}]

Common(c, d) == Max({k \in 0..Min({Len(c), Len(d)}) : SubSeq(c, 1, k) = SubSeq(d, 1, k)})

Connected(n) == Nodes \ {n}

Send(n, to, body) == net \cup {[from |-> n, to |-> m, body |-> body] : m \in to}

-----------------------------------------------------------------------------

NewNode(chain, txs, time) ==
  [chain |-> chain, last |-> 0, seen |-> <<>>, votes |-> {}, sent |-> {}, txs |-> txs, start |-> time]

Init ==
  /\ now = StartTime
  /\ node = [n \in Nodes |-> NewNode(Trunk, {}, now)]
  /\ net = {}
  /\ dropped = {}
  /\ faults = 0

\* A block, of two branches that grow longer than MaxReorg on at most one, with every
\* deregister transaction of the pool that holds: two about the
\* same node too, each is only checked against the blocks before.
Mine(n) ==
  LET s == node[n]
      txs == {tx \in s.txs : check_tx_inputs(s, tx)}
      block == [miner |-> n, txs |-> txs, kicked |-> {Target(s, tx) : tx \in txs}]
  IN /\ Height(s) < MaxHeight /\ n \in Finders(Height(s))
     /\ \A m \in Nodes \ {n} : LET split == Common(s.chain, node[m].chain)
                             IN Height(s) - split < MaxReorg \/ Height(node[m]) - split <= MaxReorg
     /\ node' = [node EXCEPT ![n] = AddBlock(n, s, block, now)]
     /\ UNCHANGED <<net, now, dropped, faults>>

\* The next block, or a longer branch, from a peer.
Adopt(n, m) ==
  LET s == node[n]
      other == node[m].chain
      split == Common(s.chain, other)
      blocks == SubSeq(other, split + 1, IF split = Height(s) THEN split + 1 ELSE Len(other))
      based == IF split = Height(s) THEN s ELSE PopTo(s, split)
  IN /\ Len(other) > Height(s)
     /\ node' = [node EXCEPT ![n] = FoldLeft(LAMBDA t, b : AddBlock(n, t, b, now), based, blocks)]
     /\ UNCHANGED <<net, now, dropped, faults>>

\* What a node sent earlier has arrived or is lost: the relay runs every two minutes.
Arrived(n) == \A msg \in net : msg.from # n

\* core::relay_deregister_votes.
RelayVotes(n) ==
  LET fresh == node[n].votes \ node[n].sent
  IN /\ fresh # {} /\ Arrived(n)
     /\ net' = Send(n, Connected(n), [votes |-> fresh])
     /\ node' = [node EXCEPT ![n].sent = @ \cup fresh]
     /\ UNCHANGED <<now, dropped, faults>>

\* Mutant of RelayIntervalPasses: a vote is relayed once.
MutantRelayInterval(n) == FALSE /\ UNCHANGED vars

\* Two minutes pass after which get_relayable_votes returns the votes again.
RelayIntervalPasses(n) ==
  /\ node[n].sent # {} /\ Arrived(n)
  /\ node' = [node EXCEPT ![n].sent = {}]
  /\ UNCHANGED <<net, now, dropped, faults>>

\* handle_notify_new_deregister_vote: new votes are passed on; a fatal one drops the
\* connection with whatever came after it unread.
HandleVotes(msg) ==
  LET n == msg.to
      s == node[n]
      votes == msg.body.votes
      fatal == {v \in votes : Fatal(s, v)}
      after(read) == FoldSet(LAMBDA v, t : add_deregister_vote(t, v), s, read)
      new == after(votes).votes \ s.votes
  IN \/ /\ fatal # {}
        /\ \E read \in SUBSET (votes \ fatal) : node' = [node EXCEPT ![n] = after(read)]
        /\ dropped' = dropped \cup {<<n, msg.from>>}
        /\ net' = net \ {msg}
        /\ UNCHANGED <<now, faults>>
     \/ /\ fatal = {}
        /\ node' = [node EXCEPT ![n] = after(votes)]
        /\ net' = (IF new = {} THEN net ELSE Send(n, Connected(n) \ {msg.from}, [votes |-> new])) \ {msg}
        /\ UNCHANGED <<now, dropped, faults>>

ProofMajor(n) == IF HFVersion = 10 THEN 2 ELSE Major[n]

LastProof(s, key) == IF key \in DOMAIN s.seen THEN s.seen[key] ELSE 0

\* Mutant of handle_uptime_proof: a proof is accepted however recent the last one is.
MutantHandleUptimeProof(s, proof, time) ==
  /\ proof.time \in time - UPTIME_PROOF_BUFFER..time + UPTIME_PROOF_BUFFER
  /\ is_full_node(s, proof.key)

\* quorum_cop::handle_uptime_proof of a proof with a valid signature.
handle_uptime_proof(s, proof, time) ==
  /\ proof.time \in time - UPTIME_PROOF_BUFFER..time + UPTIME_PROOF_BUFFER
  /\ is_full_node(s, proof.key)
  /\ HFVersion = 11 => proof.major >= 3
  /\ HFVersion = 10 => proof.major >= 2
  /\ LastProof(s, proof.key) < time - UPTIME_PROOF_FREQUENCY \div 2

Noted(seen, key, time) == [k \in DOMAIN seen \cup {key} |-> IF k = key THEN time ELSE seen[k]]

HandleProof(msg) ==
  LET n == msg.to
      proof == msg.body.proof
      accepted == handle_uptime_proof(node[n], proof, now)
  IN /\ node' = IF accepted THEN [node EXCEPT ![n].seen = Noted(@, proof.key, now)] ELSE node
     /\ net' = (IF accepted THEN Send(n, Connected(n) \ {msg.from}, msg.body) ELSE net) \ {msg}
     /\ UNCHANGED <<now, dropped, faults>>

Lose(msg) ==
  /\ faults < MaxFaults
  /\ net' = net \ {msg}
  /\ faults' = faults + 1
  /\ UNCHANGED <<node, now, dropped>>

\* The chain and the memory pool are in the database; the rest is not.
Restart(n) ==
  /\ faults < MaxFaults
  /\ node' = [node EXCEPT ![n] = NewNode(node[n].chain, node[n].txs, now)]
  /\ faults' = faults + 1
  /\ UNCHANGED <<net, now, dropped>>

\* do_uptime_proof_call: an hour after the node's own proof was last heard back.
SubmitDue(s, n, time) == is_full_node(s, n) /\ LastProof(s, n) <= time - UPTIME_PROOF_FREQUENCY

Proof(n, time) == [proof |-> [key |-> n, time |-> time, major |-> ProofMajor(n)]]
==============================================================================
