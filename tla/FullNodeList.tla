----------------------------- MODULE FullNodeList -----------------------------
(***************************************************************************)
(* full_node_list: the list of full nodes that every daemon derives from   *)
(* the block chain, kept up to date through the block_added and            *)
(* blockchain_detached hooks, written to the database after every hook and *)
(* rebuilt by init.                                                        *)
(*                                                                         *)
(* A hook runs to completion under m_sn_mutex, but the daemon may be       *)
(* killed at any point of it, so a hook is a sequence of steps driven by   *)
(* pc: one per block phase, per transaction and per rollback event.        *)
(***************************************************************************)
EXTENDS FullNodeInfo, FiniteSets

CONSTANTS
  Hashes,                 \* block hashes, as far as the shuffle tells them apart
  Txs,                    \* standard transactions
  HardForkVersion(_),     \* m_blockchain.get_hard_fork_version(height)
  HF9_HEIGHT,             \* the first height of version 9
  Shuffle(_, _),          \* antd_shuffle: a permutation of a set of nodes, given a hash
  SwarmOutcomes(_, _),    \* calc_swarm_changes: the assignments it may return
  LOCK_BLOCKS_EXCESS,     \* STAKING_REQUIREMENT_LOCK_BLOCKS_EXCESS
  ROLLBACK_EVENT_EXPIRATION_BLOCKS,
  QUORUM_SIZE, QUORUM_LIFETIME, MIN_VOTES_TO_KICK_FULL_NODE,
  NTH_OF_THE_NETWORK_TO_TEST, MIN_NODES_TO_TEST,
  DEREGISTER_LIFETIME_BY_HEIGHT,
  CHECKPOINT,             \* the height of the last checkpoint (0: the genesis block)
  MaxHeight, MaxTxsPerBlock, MaxEvents, MaxCrashes  \* bounds of the model

VARIABLES
  chain,    \* the main chain in the database; block h is chain[h + 1]
  state,    \* m_transient_state
  db,       \* the blob of the last store(), or None
  pc,       \* what the daemon is doing
  cur,      \* height of the block being processed
  caller,   \* who processes it: the block_added hook or init
  after,    \* where init returns to
  target,   \* the height blockchain_detached was called with
  index,    \* the next transaction of the block (from 1)
  changed,  \* registrations || deregistrations || expired_count
  crashes

vars == <<chain, state, db, pc, cur, caller, after, target, index, changed, crashes>>

Height == Len(chain)          \* get_current_blockchain_height
Block(h) == chain[h + 1]
CurrentVersion == HardForkVersion(Height)

\* A standard transaction, as FullNodeInfo reads it.
Tx == [type : {"standard"}, id : TxIds, node : Nodes \cup {None},
       registration : {None} \cup
         [addresses : Seq(Addresses), portions : Seq(Nat), authentic : BOOLEAN],
       contribution : {None} \cup
         [address : Addresses, outs : Seq(Nat), unlock_time : Nat, proofs : BOOLEAN]]

ASSUME ListAssumption ==
  /\ IsFiniteSet(Nodes)
  /\ HF9_HEIGHT \in Nat \ {0}
  /\ \A h \in 0..MaxHeight : HardForkVersion(h) \in Nat
                             /\ (HardForkVersion(h) >= 9 <=> h >= HF9_HEIGHT)
  /\ ROLLBACK_EVENT_EXPIRATION_BLOCKS \in Nat /\ LOCK_BLOCKS_EXCESS \in Nat
  /\ QUORUM_SIZE \in Nat /\ QUORUM_LIFETIME \in Nat
  /\ NTH_OF_THE_NETWORK_TO_TEST \in Nat \ {0} /\ MIN_NODES_TO_TEST \in Nat
  /\ DEREGISTER_LIFETIME_BY_HEIGHT \in Nat /\ MIN_VOTES_TO_KICK_FULL_NODE \in Nat
  /\ CHECKPOINT \in Nat
  /\ MaxHeight \in Nat \ {0} /\ MaxTxsPerBlock \in Nat /\ MaxEvents \in Nat /\ MaxCrashes \in Nat
  /\ UINT32_MAX > MaxTxsPerBlock

\* The transactions are well formed, the shuffle orders nodes, and swarms are
\* assigned to all the nodes and no others.
ASSUME DataAssumption ==
  /\ Txs \subseteq Tx
  /\ \A tx \in Txs : tx.contribution # None => Len(tx.contribution.outs) <= MAX_STAKING_OUTPUTS
  /\ \A hash \in Hashes, S \in SUBSET Nodes :
       /\ Shuffle(hash, S) \in Seq(Nodes)
       /\ \A swarms \in [S -> SwarmIds] : SwarmOutcomes(hash, swarms) \subseteq [S -> SwarmIds]

\* The portions of a registration add up to a word: check_full_node_portions
\* adds them up without looking for a carry.
ASSUME PortionsDoNotWrap ==
  \A tx \in Txs : tx.registration # None => Sum4(tx.registration.portions) < UINT64
------------------------------------------------------------------------------
(***************************************************************************)
(* The state and its rollback events.  A run of rollback_change events of  *)
(* one phase on different nodes is one event with the saved info of each   *)
(* node (None for the others); likewise for blacklist entries.             *)
(***************************************************************************)
NoInfos == [n \in Nodes |-> None]
rollback_change(h, saved) == [type |-> "change", height |-> h, saved |-> saved]
rollback_new(h, n) == [type |-> "new", height |-> h, key |-> n]
prevent_rollback(h) == [type |-> "prevent", height |-> h]
rollback_key_image_blacklist(h, entries, adding) ==
  [type |-> "blacklist", height |-> h, entries |-> entries, adding |-> adding]
rollback_key_image_unlock(h, n) == [type |-> "unlock", height |-> h, key |-> n]

\* clear(): an empty list that starts at the first block of version 9.
Cleared == [infos |-> NoInfos, blacklist |-> {}, quorums |-> <<>>, events |-> <<>>,
            height |-> HF9_HEIGHT]

Registered(s) == {n \in Nodes : s.infos[n] # None}
Funded(s) == {n \in Registered(s) : is_fully_funded(s.infos[n])}

PushEvent(s, e) == [s EXCEPT !.events = Append(@, e)]

\* Save the infos of the nodes in S in one rollback_change event, then set
\* their infos to what `infos` says.
ChangeNodes(s, h, S, infos) ==
  IF S = {} THEN s
  ELSE [PushEvent(s, rollback_change(h, [n \in Nodes |-> IF n \in S THEN s.infos[n] ELSE None]))
          EXCEPT !.infos = [n \in Nodes |-> IF n \in S THEN infos[n] ELSE s.infos[n]]]

\* is_key_image_locked
is_key_image_locked(s, key_image) ==
  \E n \in Registered(s) : key_image \in KeyImagesOf(s.infos[n])
LockedKeyImages(s) == UNION {KeyImagesOf(s.infos[n]) : n \in Registered(s)}

\* select_winner: the funded nodes that have waited longest.  Were there two,
\* the order of the unordered_map would decide.
select_winner(s) ==
  IF Funded(s) = {} THEN {None}
  ELSE {n \in Funded(s) : \A k \in Funded(s) : ~WaitsLonger(s.infos[k], s.infos[n])}
------------------------------------------------------------------------------
(***************************************************************************)
(* Transactions in the block at height h.                                  *)
(***************************************************************************)
process_registration_tx(s, tx, h, i) ==
  LET new == RegisteredInfo(HardForkVersion(h), tx, h, i)
      old == s.infos[tx.node]
  IN  [PushEvent(s, rollback_new(h, tx.node)) EXCEPT
         !.infos[tx.node] =
            IF old = None THEN new
            ELSE [new EXCEPT
                    !.last_reward_block_height = old.last_reward_block_height,
                    !.last_reward_transaction_index = old.last_reward_transaction_index]]

\* A registered node may register again only in version 10, in its grace period.
IsNewRegistration(s, tx, h) ==
  /\ is_registration_tx(HardForkVersion(h), tx, h)
  /\ s.infos[tx.node] # None =>
       /\ HardForkVersion(h) = 10
       /\ h >= s.infos[tx.node].registration_height + LOCK_BLOCKS

IsContribution(s, tx, h) ==
  /\ tx.node # None
  /\ HasContribution(HardForkVersion(h), tx)
  /\ s.infos[tx.node] # None
  /\ AcceptsContribution(HardForkVersion(h), s.infos[tx.node],
                         get_contribution(HardForkVersion(h), tx, h))

\* Mutants of process_contribution_tx: the total counts what was paid beyond the
\* cap; the node keeps the place in the reward queue it registered with.
ContributionUncapped(s, tx, h, i) ==
  LET parsed == get_contribution(HardForkVersion(h), tx, h)
  IN  IF ~IsContribution(s, tx, h) THEN s
      ELSE ChangeNodes(s, h, {tx.node},
             [n \in {tx.node} |->
                [ContributedInfo(HardForkVersion(h), s.infos[n], parsed, h, i) EXCEPT
                   !.total_contributed = s.infos[n].total_contributed + parsed.transferred]])
ContributionKeepsPlace(s, tx, h, i) ==
  LET parsed == get_contribution(HardForkVersion(h), tx, h)
  IN  IF ~IsContribution(s, tx, h) THEN s
      ELSE ChangeNodes(s, h, {tx.node},
             [n \in {tx.node} |->
                [ContributedInfo(HardForkVersion(h), s.infos[n], parsed, h, i) EXCEPT
                   !.last_reward_block_height = s.infos[n].last_reward_block_height,
                   !.last_reward_transaction_index = s.infos[n].last_reward_transaction_index]])

process_contribution_tx(s, tx, h, i) ==
  IF ~IsContribution(s, tx, h) THEN s
  ELSE ChangeNodes(s, h, {tx.node},
         [n \in {tx.node} |->
            ContributedInfo(HardForkVersion(h), s.infos[n],
                            get_contribution(HardForkVersion(h), tx, h), h, i)])

\* The node a deregister transaction names, if the quorum of its height is
\* still there and the index is in range.
DeregisterTarget(s, tx) ==
  IF tx.height \in DOMAIN s.quorums /\ tx.index \in DOMAIN s.quorums[tx.height].nodes_to_test
  THEN s.quorums[tx.height].nodes_to_test[tx.index] ELSE None

\* Mutants of process_deregistration_tx: without the rollback_change event;
\* without the blacklist.
DeregistrationUnlogged(s, tx, h) == [s EXCEPT !.infos[DeregisterTarget(s, tx)] = None]
DeregistrationUnlisted(s, tx, h) == ChangeNodes(s, h, {DeregisterTarget(s, tx)}, NoInfos)

process_deregistration_tx(s, tx, h) ==
  LET n       == DeregisterTarget(s, tx)
      entries == {[key_image |-> k, unlock_height |-> h + LOCK_BLOCKS] : k \in KeyImagesOf(s.infos[n])}
      removed == ChangeNodes(s, h, {n}, NoInfos)
  IN  IF HardForkVersion(h) < 11 \/ entries = {} THEN removed
      ELSE [PushEvent(removed, rollback_key_image_blacklist(h, entries, TRUE))
              EXCEPT !.blacklist = @ \cup entries]

IsDeregistration(s, tx) ==
  DeregisterTarget(s, tx) # None /\ s.infos[DeregisterTarget(s, tx)] # None

\* get_locked_key_image_unlock_height
UnlockHeight(h) == h + (LOCK_BLOCKS \div 2)

\* Mutant of process_unlock_tx: without the rollback event.
UnlockUnlogged(s, tx, h) ==
  IF /\ s.infos[tx.node] # None
     /\ s.infos[tx.node].requested_unlock_height = KEY_IMAGE_AWAITING_UNLOCK_HEIGHT
     /\ tx.key_image \in KeyImagesOf(s.infos[tx.node])
  THEN [s EXCEPT !.infos[tx.node].requested_unlock_height = UnlockHeight(h)]
  ELSE s

process_unlock_tx(s, tx, h) ==
  IF /\ s.infos[tx.node] # None
     /\ s.infos[tx.node].requested_unlock_height = KEY_IMAGE_AWAITING_UNLOCK_HEIGHT
     /\ tx.key_image \in KeyImagesOf(s.infos[tx.node])
  THEN [PushEvent(s, rollback_key_image_unlock(h, tx.node))
          EXCEPT !.infos[tx.node].requested_unlock_height = UnlockHeight(h)]
  ELSE s

\* One round of the transaction loop of block_added_generic.
ProcessedTx(s, tx, h, i) ==
  CASE tx.type = "standard" ->
         process_contribution_tx(
           IF IsNewRegistration(s, tx, h) THEN process_registration_tx(s, tx, h, i) ELSE s,
           tx, h, i)
    [] tx.type = "deregister" ->
         IF IsDeregistration(s, tx) THEN process_deregistration_tx(s, tx, h) ELSE s
    [] tx.type = "key_image_unlock" -> process_unlock_tx(s, tx, h)

ChangesMembership(s, tx, h) ==
  \/ tx.type = "standard" /\ IsNewRegistration(s, tx, h)
  \/ tx.type = "deregister" /\ IsDeregistration(s, tx)
------------------------------------------------------------------------------
(***************************************************************************)
(* The other phases of block_added_generic, for block blk at height h.     *)
(***************************************************************************)
CullHeight(h) ==
  IF h < ROLLBACK_EVENT_EXPIRATION_BLOCKS THEN h ELSE h - ROLLBACK_EVENT_EXPIRATION_BLOCKS

\* The rollback events without the k oldest, fenced by a prevent_rollback.
CulledEvents(events, h, k) ==
  <<prevent_rollback(CullHeight(h))>> \o SubSeq(events, k + 1, Len(events))

\* k counts the events at the front that are older than the cull height.
IsCullCount(events, h, k) ==
  /\ \A i \in 1..k : events[i].height < CullHeight(h)
  /\ k < Len(events) => events[k + 1].height >= CullHeight(h)

ExpireBlacklist(s, h) ==
  LET gone == {e \in s.blacklist : h >= e.unlock_height}
  IN  IF gone = {} THEN s
      ELSE [PushEvent(s, rollback_key_image_blacklist(h, gone, FALSE))
              EXCEPT !.blacklist = @ \ gone]

\* update_and_get_expired_nodes
ExpiredNodes(s, h) ==
  IF HardForkVersion(h) = 9
  THEN IF h < LOCK_BLOCKS THEN {}
       ELSE LET old == h - LOCK_BLOCKS
            IN  {n \in Registered(s) :
                   \E i \in DOMAIN Block(old).txs :
                     /\ Block(old).txs[i].type = "standard"
                     /\ Block(old).txs[i].node = n
                     /\ is_registration_tx(HardForkVersion(old), Block(old).txs[i], old)}
  ELSE {n \in Registered(s) :
          LET info == s.infos[n]
          IN  IF HardForkVersion(info.registration_height) >= 11
              THEN /\ info.requested_unlock_height # KEY_IMAGE_AWAITING_UNLOCK_HEIGHT
                   /\ h > info.requested_unlock_height
              ELSE h > info.registration_height + LOCK_BLOCKS + LOCK_BLOCKS_EXCESS}

\* Mutant of ExpireNodes: without the rollback_change event.
ExpireNodesUnlogged(s, h) ==
  [s EXCEPT !.infos = [n \in Nodes |-> IF n \in ExpiredNodes(s, h) THEN None ELSE @[n]]]

ExpireNodes(s, h) == ChangeNodes(s, h, ExpiredNodes(s, h), NoInfos)

\* Mutant of RewardWinner: the winner does not go behind the transactions of
\* its own block.
RewardWinnerFirstIndex(s, blk, h) ==
  IF blk.winner \notin Registered(s) THEN s
  ELSE ChangeNodes(s, h, {blk.winner},
         [n \in {blk.winner} |->
            [s.infos[n] EXCEPT !.last_reward_block_height = h, !.last_reward_transaction_index = 0]])

RewardWinner(s, blk, h) ==
  IF blk.winner \notin Registered(s) THEN s
  ELSE ChangeNodes(s, h, {blk.winner},
         [n \in {blk.winner} |->
            [s.infos[n] EXCEPT !.last_reward_block_height = h,
                               !.last_reward_transaction_index = UINT32_MAX]])

\* Everything before the transaction loop, but for the culling of events.
AdvancedList(s, blk, h) == RewardWinner(ExpireNodes(ExpireBlacklist(s, h), h), blk, h)

\* update_swarms, with the assignment calc_swarm_changes came up with.
UpdateSwarms(s, h, assignment) ==
  LET moved == {n \in Registered(s) : assignment[n] # s.infos[n].swarm_id}
  IN  ChangeNodes(s, h, moved,
        [n \in moved |-> [s.infos[n] EXCEPT !.swarm_id = assignment[n]]])

Smaller(a, b) == IF a < b THEN a ELSE b
Larger(a, b) == IF a > b THEN a ELSE b

\* store_quorum_state_from_rewards_list: the first nodes of the shuffled list
\* are the quorum, the next ones are tested.
QuorumState(s, hash) ==
  LET order     == Shuffle(hash, Funded(s))
      quorum    == Smaller(Len(order), QUORUM_SIZE)
      remaining == Len(order) - quorum
      tested    == Larger(remaining \div NTH_OF_THE_NETWORK_TO_TEST,
                          Smaller(MIN_NODES_TO_TEST, remaining))
  IN  [quorum_nodes |-> SubSeq(order, 1, quorum),
       nodes_to_test |-> SubSeq(order, quorum + 1, quorum + tested)]

\* Mutant of UpdateQuorums: only the newest quorum state is kept.
UpdateQuorumsNewest(s, blk, h) ==
  [s EXCEPT !.quorums = [g \in {h} |-> QuorumState(s, blk.hash)]]

\* Mutant of UpdateQuorums: the cached states follow the list.
UpdateQuorumsAnew(s, blk, h) ==
  [s EXCEPT !.quorums = [g \in DOMAIN s.quorums \cup {h} |-> QuorumState(s, blk.hash)]]

\* The cached quorum states with the one of height h, without the old ones.
UpdateQuorums(s, blk, h) ==
  LET from == IF h < QUORUM_LIFETIME THEN 0 ELSE h - QUORUM_LIFETIME
  IN  [s EXCEPT !.quorums =
         [g \in {k \in DOMAIN s.quorums \cup {h} : k >= from} |->
            IF g = h THEN QuorumState(s, blk.hash) ELSE s.quorums[g]]]
------------------------------------------------------------------------------
(***************************************************************************)
(* store() and load().  The blob's version is that of the last block of    *)
(* the list, and only version 2 holds the blacklist.                       *)
(***************************************************************************)
SerializedInfos(infos) ==
  [n \in Nodes |-> IF infos[n] = None THEN None ELSE SerializedInfo(infos[n])]

SerializedEvent(e) ==
  IF e.type = "change" THEN [e EXCEPT !.saved = SerializedInfos(@)] ELSE e

Serialized(s) ==
  [s EXCEPT !.infos = SerializedInfos(@),
            !.events = [i \in DOMAIN s.events |-> SerializedEvent(s.events[i])],
            !.blacklist = IF MinInfoVersion(HardForkVersion(s.height - 1)) >= 2 THEN @ ELSE {}]

Stored(s) == IF CurrentVersion < 9 THEN db ELSE Serialized(s)
------------------------------------------------------------------------------
(***************************************************************************)
(* What the next block may hold: Blockchain::check_tx_inputs and           *)
(* validate_miner_tx, against the list as it is before the block.          *)
(***************************************************************************)
InChain(tx) == \E h \in DOMAIN chain : \E i \in DOMAIN chain[h].txs : chain[h].txs[i] = tx

\* A node is deregistered at most once for the heights that a deregister
\* transaction of height h can share blocks with.
AlreadyDeregistered(n, h) ==
  \E g \in h..(h + DEREGISTER_LIFETIME_BY_HEIGHT - 1) :
    /\ g < Height
    /\ \E i \in DOMAIN Block(g).txs : /\ Block(g).txs[i].type = "deregister"
                                      /\ DeregisterTarget(state, Block(g).txs[i]) = n

\* verify_deregister: enough distinct voters of the quorum have signed.
ValidDeregisters ==
  {tx \in [type : {"deregister"}, height : DOMAIN state.quorums, index : 1..Cardinality(Nodes)] :
     /\ tx.index \in DOMAIN state.quorums[tx.height].nodes_to_test
     /\ Len(state.quorums[tx.height].quorum_nodes) >= MIN_VOTES_TO_KICK_FULL_NODE
     /\ tx.height < Height
     /\ Height - tx.height < DEREGISTER_LIFETIME_BY_HEIGHT
     /\ ~AlreadyDeregistered(DeregisterTarget(state, tx), tx.height)}

\* The key image must be locked by a node that has no unlock pending; the node
\* named in the tx extra need not be that node.
ValidUnlocks ==
  {tx \in [type : {"key_image_unlock"}, node : Nodes, key_image : LockedKeyImages(state)] :
     \E n \in Registered(state) :
       /\ tx.key_image \in KeyImagesOf(state.infos[n])
       /\ state.infos[n].requested_unlock_height = KEY_IMAGE_AWAITING_UNLOCK_HEIGHT}

ValidTxs == {tx \in Txs : ~InChain(tx)} \cup ValidDeregisters \cup ValidUnlocks

IsTxList(txs) == \A i, j \in DOMAIN txs : txs[i] = txs[j] => i = j
------------------------------------------------------------------------------
Init ==
  /\ \E hash \in Hashes : chain = <<[hash |-> hash, winner |-> None, txs |-> <<>>]>>
  /\ state = Cleared /\ db = None
  /\ pc = "idle" /\ cur = 0 /\ caller = "added" /\ after = "idle"
  /\ target = 0 /\ index = 0 /\ changed = FALSE /\ crashes = 0

\* handle_block_to_main_chain: the block is in the database before the hooks run.
AddBlock ==
  /\ pc = "idle" /\ Height < MaxHeight /\ Len(state.events) < MaxEvents
  /\ \E hash \in Hashes, n \in 0..MaxTxsPerBlock,
        winner \in IF CurrentVersion < 9 THEN {None} ELSE select_winner(state) :
       \E txs \in [1..n -> ValidTxs] :
         /\ IsTxList(txs)
         /\ chain' = Append(chain, [hash |-> hash, winner |-> winner, txs |-> txs])
  /\ pc' = "block" /\ cur' = Height /\ caller' = "added"
  /\ UNCHANGED <<state, db, after, target, index, changed, crashes>>

\* The start of block_added_generic, up to the transaction loop.
BeginBlock ==
  /\ pc = "block" /\ HardForkVersion(cur) >= 9
  /\ \E k \in 0..Len(state.events) :
       /\ IsCullCount(state.events, cur, k)
       /\ LET culled == [state EXCEPT !.height = @ + 1,
                                      !.events = CulledEvents(@, cur, k)]
          IN  /\ state' = AdvancedList(culled, Block(cur), cur)
              /\ changed' = (ExpiredNodes(ExpireBlacklist(culled, cur), cur) # {})
  /\ pc' = "txs" /\ index' = 1
  /\ UNCHANGED <<chain, db, cur, caller, after, target, crashes>>

ProcessTx ==
  /\ pc = "txs" /\ index <= Len(Block(cur).txs)
  /\ LET tx == Block(cur).txs[index]
     IN  /\ state' = ProcessedTx(state, tx, cur, index - 1)
         /\ changed' = (changed \/ ChangesMembership(state, tx, cur))
  /\ index' = index + 1
  /\ UNCHANGED <<chain, db, pc, cur, caller, after, target, crashes>>

\* Mutant of FinishBlock: the scan reads one block past the chain.
FinishBlockPastEnd(s) ==
  IF caller = "added"
  THEN db' = Stored(s) /\ pc' = "idle" /\ cur' = 0 /\ UNCHANGED <<caller, after>>
  ELSE /\ db' = db
       /\ IF cur < Height THEN pc' = "block" /\ cur' = cur + 1 /\ UNCHANGED <<caller, after>>
          ELSE pc' = after /\ cur' = 0 /\ caller' = "added" /\ after' = "idle"

\* After a block: block_added stores the list; init's scan goes on with the
\* next block it fetched, fetches again while the list is behind the chain, or
\* returns.
FinishBlock(s) ==
  IF caller = "added"
  THEN db' = Stored(s) /\ pc' = "idle" /\ cur' = 0 /\ UNCHANGED <<caller, after>>
  ELSE /\ db' = db
       /\ IF cur + 1 < Height THEN pc' = "block" /\ cur' = cur + 1 /\ UNCHANGED <<caller, after>>
          ELSE IF s.height < Height THEN pc' = "block" /\ cur' = s.height /\ UNCHANGED <<caller, after>>
          ELSE pc' = after /\ cur' = 0 /\ caller' = "added" /\ after' = "idle"

\* The end of block_added_generic, and what its caller does next.
EndBlock ==
  /\ pc = "txs" /\ index > Len(Block(cur).txs)
  /\ \E assignment \in IF changed
                       THEN SwarmOutcomes(Block(cur).hash, [n \in Registered(state) |-> state.infos[n].swarm_id])
                       ELSE {[n \in Registered(state) |-> state.infos[n].swarm_id]} :
       LET s == UpdateQuorums(UpdateSwarms(state, cur, assignment), Block(cur), cur)
       IN  state' = s /\ FinishBlock(s)
  /\ index' = 0 /\ changed' = FALSE
  /\ UNCHANGED <<chain, target, crashes>>

\* block_added_generic returns at once before version 9.
SkipBlock ==
  /\ pc = "block" /\ HardForkVersion(cur) < 9
  /\ FinishBlock(state)
  /\ UNCHANGED <<chain, state, target, index, changed, crashes>>
------------------------------------------------------------------------------
(***************************************************************************)
(* init(): use the stored list if it is at the chain's height; scan on     *)
(* from it if it is behind; forget it if it is ahead or missing.           *)
(***************************************************************************)
EnterInit(return) ==
  LET usable == db # None /\ db.height <= Height /\ CurrentVersion >= 9
      s      == IF usable THEN db ELSE Cleared
  IN  /\ state' = s
      /\ db' = IF usable THEN db ELSE None
      /\ IF CurrentVersion >= 9 /\ s.height < Height
         THEN pc' = "block" /\ cur' = s.height /\ caller' = "init" /\ after' = return
         ELSE pc' = return /\ cur' = 0 /\ caller' = "added" /\ after' = "idle"

\* checkpoints::is_alternative_block_allowed
is_alternative_block_allowed(block_height) ==
  block_height # 0 /\ (CHECKPOINT <= Height => CHECKPOINT < block_height)

\* switch_to_alternative_blockchain and rollback_blockchain_switching pop the
\* blocks from height h up and call the detached hook.
PopBlocks ==
  /\ pc = "idle"
  /\ \E h \in 1..(Height - 1) :
       is_alternative_block_allowed(h) /\ chain' = SubSeq(chain, 1, h) /\ target' = h
  /\ pc' = "detach"
  /\ UNCHANGED <<state, db, cur, caller, after, index, changed, crashes>>

LastEvent == state.events[Len(state.events)]
HasEventToUndo == Len(state.events) > 0 /\ LastEvent.height >= target

\* rollback_applied
CanUndo(s, e) ==
  CASE e.type = "change" -> TRUE
    [] e.type = "prevent" -> FALSE
    [] e.type \in {"new", "unlock"} -> s.infos[e.key] # None
    [] e.type = "blacklist" -> e.adding => e.entries \subseteq s.blacklist

\* Mutant of Undone: blacklisting is not taken back.
UndoneKeepsBlacklist(s, e) ==
  CASE e.type = "change" ->
         [s EXCEPT !.infos = [n \in Nodes |-> IF e.saved[n] # None THEN e.saved[n] ELSE @[n]]]
    [] e.type = "new" -> [s EXCEPT !.infos[e.key] = None]
    [] e.type = "unlock" ->
         [s EXCEPT !.infos[e.key].requested_unlock_height = KEY_IMAGE_AWAITING_UNLOCK_HEIGHT]
    [] e.type = "blacklist" -> s

Undone(s, e) ==
  CASE e.type = "change" ->
         [s EXCEPT !.infos = [n \in Nodes |-> IF e.saved[n] # None THEN e.saved[n] ELSE @[n]]]
    [] e.type = "new" -> [s EXCEPT !.infos[e.key] = None]
    [] e.type = "unlock" ->
         [s EXCEPT !.infos[e.key].requested_unlock_height = KEY_IMAGE_AWAITING_UNLOCK_HEIGHT]
    [] e.type = "blacklist" ->
         [s EXCEPT !.blacklist = IF e.adding THEN @ \ e.entries ELSE @ \cup e.entries]

\* Mutant of UndoEvent: the event stays on the list.
UndoEventForever ==
  /\ pc = "detach" /\ HasEventToUndo
  /\ CanUndo(state, LastEvent)
  /\ state' = Undone(state, LastEvent)
  /\ UNCHANGED <<chain, db, pc, cur, caller, after, target, index, changed, crashes>>

\* One round of the loop of blockchain_detached.
UndoEvent ==
  /\ pc = "detach" /\ HasEventToUndo
  /\ CanUndo(state, LastEvent)
  /\ state' = [Undone(state, LastEvent) EXCEPT !.events = SubSeq(@, 1, Len(@) - 1)]
  /\ UNCHANGED <<chain, db, pc, cur, caller, after, target, index, changed, crashes>>

\* An event that cannot be undone: rebuild the list, then leave the loop.
GiveUpUndo ==
  /\ pc = "detach" /\ HasEventToUndo
  /\ ~CanUndo(state, LastEvent)
  /\ EnterInit("detached")
  /\ UNCHANGED <<chain, target, index, changed, crashes>>

\* Mutant of FinishDetach: the height of the list is left alone.
FinishDetachKeepsHeight ==
  /\ pc = "detached" \/ (pc = "detach" /\ ~HasEventToUndo)
  /\ LET s == [state EXCEPT !.quorums = [g \in {k \in DOMAIN @ : k < target} |-> @[g]]]
     IN  state' = s /\ db' = Stored(s)
  /\ pc' = "idle" /\ target' = 0
  /\ UNCHANGED <<chain, cur, caller, after, index, changed, crashes>>

\* The end of blockchain_detached.
FinishDetach ==
  /\ pc = "detached" \/ (pc = "detach" /\ ~HasEventToUndo)
  /\ LET s == [state EXCEPT !.height = target,
                            !.quorums = [g \in {k \in DOMAIN @ : k < target} |-> @[g]]]
     IN  state' = s /\ db' = Stored(s)
  /\ pc' = "idle" /\ target' = 0
  /\ UNCHANGED <<chain, cur, caller, after, index, changed, crashes>>

\* The daemon is killed; the database survives.
Crash ==
  /\ pc # "down" /\ crashes < MaxCrashes
  /\ pc' = "down" /\ state' = Cleared /\ crashes' = crashes + 1
  /\ cur' = 0 /\ caller' = "added" /\ after' = "idle"
  /\ target' = 0 /\ index' = 0 /\ changed' = FALSE
  /\ UNCHANGED <<chain, db>>

\* Blockchain::init runs the init hooks.
Restart ==
  /\ pc = "down"
  /\ EnterInit("idle")
  /\ UNCHANGED <<chain, target, index, changed, crashes>>

\* The steps of a daemon that is running or being started.
Step == BeginBlock \/ ProcessTx \/ EndBlock \/ SkipBlock \/ UndoEvent \/ GiveUpUndo
          \/ FinishDetach \/ Restart

Next == AddBlock \/ PopBlocks \/ Step \/ Crash

Spec == Init /\ [][Next]_vars

\* The thread that runs a hook or init is not starved.
FairSpec == Spec /\ WF_vars(Step)
------------------------------------------------------------------------------
(***************************************************************************)
(* Types.                                                                  *)
(***************************************************************************)
Infos == [Nodes -> Info \cup {None}]
BlacklistEntry == [key_image : KeyImages, unlock_height : Nat]

Event == [type : {"change"}, height : Nat, saved : Infos]
           \cup [type : {"new", "unlock"}, height : Nat, key : Nodes]
           \cup [type : {"prevent"}, height : Nat]
           \cup [type : {"blacklist"}, height : Nat, entries : SUBSET BlacklistEntry, adding : BOOLEAN]

IsQuorums(q) ==
  /\ q = [h \in DOMAIN q |-> q[h]] /\ DOMAIN q \subseteq Nat
  /\ \A h \in DOMAIN q : q[h] \in [quorum_nodes : Seq(Nodes), nodes_to_test : Seq(Nodes)]

IsState(s) ==
  /\ s = [infos |-> s.infos, blacklist |-> s.blacklist, quorums |-> s.quorums,
          events |-> s.events, height |-> s.height]
  /\ s.infos \in Infos
  /\ s.blacklist \subseteq BlacklistEntry
  /\ IsQuorums(s.quorums)
  /\ s.events \in Seq(Event)
  /\ s.height \in Nat

\* Any transaction of a block; a block.
AnyTx == Txs \cup [type : {"deregister"}, height : Nat, index : Nat]
            \cup [type : {"key_image_unlock"}, node : Nodes, key_image : KeyImages]
AnyBlock == [hash : Hashes, winner : Nodes \cup {None}, txs : Seq(AnyTx)]

\* The type of every variable, and which program points go with which block.
TypeOK ==
  /\ chain \in Seq(AnyBlock)
  /\ Height > 0 /\ Height <= MaxHeight
  /\ IsState(state)
  /\ db = None \/ IsState(db)
  /\ pc \in {"idle", "block", "txs", "detach", "detached", "down"}
  /\ caller \in {"added", "init"} /\ after \in {"idle", "detached"}
  /\ cur \in Nat /\ (pc \in {"block", "txs"} => cur < Height)
  /\ target \in Nat /\ index \in Nat /\ changed \in BOOLEAN /\ crashes \in Nat
  /\ pc = "txs" => index > 0
------------------------------------------------------------------------------
(***************************************************************************)
(* Properties.                                                             *)
(***************************************************************************)
InfosOf(infos) == {infos[n] : n \in Nodes} \ {None}
SavedInfos(s) ==
  UNION {InfosOf(s.events[i].saved) : i \in {j \in DOMAIN s.events : s.events[j].type = "change"}}

\* The accounts of every node balance after any sequence of registrations,
\* contributions, reorganisations and restarts: in the list, in the infos saved
\* for a rollback and in the database.  It is what keeps the unsigned
\* differences of process_contribution_tx from wrapping.
StakeAccounting ==
  /\ \A info \in InfosOf(state.infos) \cup SavedInfos(state) : StakeBalanced(info)
  /\ db # None => \A info \in InfosOf(db.infos) \cup SavedInfos(db) : StakeBalanced(info)

\* The assertion at the top of block_added_generic: the list is at the height
\* of the block it is given.
ListAtBlockHeight == pc = "block" /\ HardForkVersion(cur) >= 9 => state.height = cur

\* No two funded nodes have waited equally long, so select_winner does not
\* depend on the iteration order of an unordered_map and all daemons expect
\* the same winner.
UniqueWinner == \A n, k \in Funded(state) :
  n # k => WaitsLonger(state.infos[n], state.infos[k]) \/ WaitsLonger(state.infos[k], state.infos[n])

\* A key image is locked by at most one node, and not while it is blacklisted.
\* is_key_image_locked and the blacklist check of check_tx_inputs rely on it.
KeyImageHeldOnce ==
  /\ \A n, k \in Registered(state) :
       n # k => KeyImagesOf(state.infos[n]) \cap KeyImagesOf(state.infos[k]) = {}
  /\ \A e \in state.blacklist : e.key_image \notin LockedKeyImages(state)

\* The quorum that a deregister transaction in a block was voted by is there when
\* the block is processed, and one can be voted for every height of its lifetime:
\* "Not being able to find a quorum is fatal!" (process_deregistration_tx).
QuorumsAvailable ==
  /\ pc = "txs" /\ index <= Len(Block(cur).txs) /\ Block(cur).txs[index].type = "deregister"
       => Block(cur).txs[index].height \in DOMAIN state.quorums
  /\ pc = "idle" => \A h \in HF9_HEIGHT..(Height - 1) :
       Height - h < DEREGISTER_LIFETIME_BY_HEIGHT => h \in DOMAIN state.quorums

\* That quorum tests as many nodes as when the votes were counted, also when a
\* restart or a reorganisation has computed it again: process_deregistration_tx
\* never finds that the index "has become invalid".
DeregistersNameNodes ==
  pc = "txs" /\ index <= Len(Block(cur).txs) /\ Block(cur).txs[index].type = "deregister"
    => DeregisterTarget(state, Block(cur).txs[index]) # None

\* While blocks are taken back every recorded change is found in place: the
\* "Could not find ..." branches of blockchain_detached are never taken, and
\* only the prevent_rollback fence makes it rebuild the list.
RollbackApplies ==
  pc = "detach" /\ HasEventToUndo /\ ~CanUndo(state, LastEvent) => LastEvent.type = "prevent"

InBlock == pc \in {"block", "txs"} /\ pc' # "down"

\* A funded node that was waiting for its reward before a block is overtaken by
\* nobody during that block: whoever is ahead of it afterwards was ahead of it
\* before.  So it is paid after at most as many blocks as there are nodes ahead.
AheadOf(s, n) == {k \in Funded(s) : WaitsLonger(s.infos[k], s.infos[n])}
NoOvertaking ==
  [][InBlock =>
       \A n \in Funded(state) \cap Funded(state') :
         /\ state.infos[n].last_reward_block_height < cur
         /\ state'.infos[n].last_reward_block_height < cur
         => AheadOf(state', n) \subseteq AheadOf(state, n)]_vars

HeldKeyImages(s) == LockedKeyImages(s) \cup {e.key_image : e \in s.blacklist}

\* A staked key image becomes spendable again only in a block that comes later
\* than the lock period (or half of it) after a deregistration (or an unlock
\* request) that is in the chain: node expiry and blacklist expiry free nothing
\* else.
StakeHeldUntilReleased ==
  [][InBlock =>
       \A k \in HeldKeyImages(state) \ HeldKeyImages(state') :
         \E g \in HF9_HEIGHT..(cur - 1) : \E i \in DOMAIN Block(g).txs :
           LET tx == Block(g).txs[i]
           IN  \/ /\ tx.type = "key_image_unlock" /\ g + (LOCK_BLOCKS \div 2) < cur
                  /\ state.infos[tx.node] # None /\ k \in KeyImagesOf(state.infos[tx.node])
               \/ /\ tx.type = "deregister" /\ g + LOCK_BLOCKS <= cur
                  /\ \E e \in state.blacklist : e.key_image = k /\ e.unlock_height = g + LOCK_BLOCKS]_vars

\* A hook or a restart comes to an end: the rollback loop and the scan loop of
\* init terminate.
ListSettles == pc # "idle" ~> pc = "idle"
==============================================================================
