--------------------------- MODULE ChainProperties ---------------------------
(***************************************************************************)
(* What a node's main chain, hard fork object, pool and block template owe  *)
(* each other, and the fork choice that its top block follows.              *)
(***************************************************************************)
EXTENDS Blockchain

\* The branch of a block, whether or not it is on the main chain.
Branch(b) ==
  FoldLeft(LAMBDA c, i : IF c[1] = Genesis THEN c ELSE <<Block[c[1]].parent>> \o c,
           <<b>>, [i \in 1..Block[b].height |-> i])

Work(b) == Weight(Branch(b))

Prefix(chain, n) == SubSeq(chain, 1, n)

\* A block that every node must accept after its branch: of the scheduled version, with a
\* valid proof and reward, and with transactions that are new and spend what is there.
ValidAfter(hf, chain, b) ==
  /\ Block[b].major = get_ideal_version(hf, Len(chain))
  /\ get_block_vote(b) >= Block[b].major
  /\ Block[b].pow_ok /\ Block[b].reward_ok
  /\ \A t \in Range(Block[b].txs) : t \notin TxsOf(chain) /\ check_tx_inputs(chain, t).ok

ValidBranch(hf, b) ==
  LET chain == Branch(b)
  IN \A n \in 2..Len(chain) : ValidAfter(hf, Prefix(chain, n - 1), chain[n])

\* The main chain is a valid branch under the running release, after every extension,
\* switch, failed switch, checkpoint and restart (handle_block_to_main_chain,
\* switch_to_alternative_blockchain, rollback_blockchain_switching).
ChainValid ==
  node.chain = Branch(Last(node.chain)) /\ ValidBranch(node.hf, Last(node.chain))

\* The hard fork object that add, on_block_popped and reorganize_from_chain_height maintain
\* is the one that init would rebuild from the database, and its version is the scheduled
\* one for the next block.
HardForkIsRecount ==
  /\ node.hf = init(Releases[release], node.chain, node.rows)
  /\ current_version(node.hf) = get_ideal_version(node.hf, Len(node.chain))

\* The pool's order, key images and weight are those of its rows, after any mixture of
\* add_tx, take_tx, prune, remove_stuck_transactions and the transactions that failed
\* blocks give back; no transaction is both in the pool and in the chain.
PoolIndexed ==
  LET p == node.pool
  IN /\ p.sorted = DOMAIN p.meta
     /\ \A i \in Images : p.spent[i] = {t \in DOMAIN p.meta : i \in Tx[t].images}
     /\ p.weight = MapThenSumSet(LAMBDA t : Tx[t].weight, DOMAIN p.meta)
     /\ DOMAIN p.meta \cap TxsOf(node.chain) = {}

\* A restart at any moment can load the pool's rows: tx_memory_pool::init does not meet two
\* transactions that no block brought and that spend the same key image.
PoolLoads == InitPool(node.pool).loaded

\* No cached answer of check_tx_inputs outlives the chain it was computed on.
InputCacheFresh ==
  \A t \in DOMAIN node.pool.cache : node.pool.cache[t] = check_tx_inputs(node.chain, t)

\* A cached block template that create_block_template would serve again is the start of a
\* block that the node itself would accept now.
TemplateConnects ==
  node.btc # None /\ ~node.pool.changed =>
    /\ node.btc.prev_id = Last(node.chain)
    /\ node.btc.major = get_ideal_version(node.hf, Len(node.chain))
    /\ \A t \in Range(node.btc.txs) :
         have_tx(node, t) /\ check_tx_inputs(node.chain, t).ok
    /\ \A t, u \in Range(node.btc.txs) : t # u => Tx[t].images \cap Tx[u].images = {}

\* A block is remembered as invalid, and so refused until the next restart, only if it is
\* not valid on its own branch, contradicts a checkpoint, or needs a transaction that the
\* pool dropped, for its age or its weight, while the block waited as an alternative.
InvalidBlocksAreInvalid ==
  \A b \in node.invalid :
    \/ ~ValidBranch(node.hf, b)
    \/ \E h \in DOMAIN node.points \cap 0..Block[b].height : ~check_block(node.points, h, BlockAt(Branch(b), h))
    \/ \E c \in Range(Branch(b)) : Range(Block[c].txs) \cap node.pool.dropped # {}

\* A transaction that leaves the main chain with its block is in the pool afterwards, so that
\* it can be mined again (pop_block_from_blockchain returns it); only a restart that pops
\* blocks of a wrong version drops it.
PoppedTxsReturn ==
  [][release' = release =>
       TxsOf(node.chain) \subseteq TxsOf(node'.chain) \cup DOMAIN node'.pool.meta]_vars

FC == INSTANCE ForkChoice
        WITH Blocks <- BlockIds, Start <- Last(Synced), Published <- Checkpoints, tip <- Last(node.chain), points <- node.points

\* The top of the main chain follows the abstract fork choice: seen from outside, a switch
\* that succeeds is one step to more work and a switch that fails is no step at all.
ImplementsForkChoice == FC!Spec
==============================================================================
