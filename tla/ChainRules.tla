------------------------------ MODULE ChainRules ------------------------------
(***************************************************************************)
(* What the Blockchain object asks of a transaction on a given main chain   *)
(* (blockchain.cpp), and the checkpoints.  A chain is the sequence of its   *)
(* block ids from the genesis block on.  A transaction's inputs are its key *)
(* images and the transactions and blocks whose outputs its rings use.      *)
(***************************************************************************)
EXTENDS HardFork

CONSTANTS
  None,           \* no block
  TxIds, Tx,      \* transactions that are not coinbase, and what is in them
  COINBASE_UNLOCK,               \* CRYPTONOTE_MINED_MONEY_UNLOCK_WINDOW less the allowed delta
  DEREGISTER_LIFETIME_BY_HEIGHT

ASSUME ChainRulesAssumption ==
  /\ None \notin BlockIds
  /\ TxIds \subseteq Nat
  /\ \A t \in TxIds : /\ Tx[t].type \in {"standard", "deregister"}
                      /\ Tx[t].needs \subseteq TxIds /\ Tx[t].coinbases \subseteq BlockIds
                      /\ Tx[t].type = "deregister" => Tx[t].images = {} /\ Tx[t].fee = 0
  /\ \A b \in BlockIds, s, t \in TxIds :
       s # t /\ {s, t} \subseteq Range(Block[b].txs) => Tx[s].images \cap Tx[t].images = {}

Images == UNION {Tx[t].images : t \in TxIds}

OnChain(chain, b) == b \in Range(chain)

TxsOf(chain) == UNION {Range(Block[b].txs) : b \in Range(chain)}

HolderOf(chain, t) == CHOOSE b \in Range(chain) : t \in Range(Block[b].txs)

have_tx_keyimges_as_spent(chain, t) ==
  Tx[t].images \cap UNION {Tx[u].images : u \in TxsOf(chain)} # {}

\* The outputs of every ring exist and may be spent.
RingsFound(chain, t) ==
  /\ Tx[t].needs \subseteq TxsOf(chain)
  /\ \A b \in Tx[t].coinbases :
       OnChain(chain, b) /\ Len(chain) - 1 >= Block[b].height + COINBASE_UNLOCK

\* The votes come from the quorum of their block, are recent, and no other deregistration
\* of the node has been mined since.
DeregisterHolds(chain, t) ==
  LET voted == Tx[t].votes_on
  IN /\ OnChain(chain, voted)
     /\ Len(chain) - Block[voted].height < DEREGISTER_LIFETIME_BY_HEIGHT
     /\ \A u \in TxsOf(chain) :
          ~ /\ Tx[u].type = "deregister" /\ Tx[u].node = Tx[t].node
            /\ Block[HolderOf(chain, u)].height \in
                 Block[voted].height..(Block[voted].height + DEREGISTER_LIFETIME_BY_HEIGHT - 1)

\* check_tx_inputs and, on success, the highest block an input depends on.
check_tx_inputs(chain, t) ==
  LET ok == IF Tx[t].type = "standard"
            THEN ~have_tx_keyimges_as_spent(chain, t) /\ RingsFound(chain, t)
            ELSE DeregisterHolds(chain, t)
      sources == Tx[t].coinbases \cup {HolderOf(chain, u) : u \in Tx[t].needs}
      height == IF ok THEN Max({0} \cup {Block[b].height : b \in sources}) ELSE 0
  IN [ok |-> ok, height |-> height, id |-> IF ok THEN BlockAt(chain, height) ELSE None]

EarliestHeight(hf, version) ==
  Min({hf.heights[n].height : n \in {m \in DOMAIN hf.heights : hf.heights[m].version >= version}})

\* The range proofs and signatures that a version allows.
check_tx_outputs(hf, chain, t) ==
  LET v == current_version(hf)
      proof == Tx[t].proof
  IN CASE proof = "borromean" -> v < 10 \/ (Len(chain) = EarliestHeight(hf, 10) /\ v <= 11)
       [] proof = "bulletproof" -> v \in 10..11
       [] proof = "bulletproof2" -> v = 11
       [] proof = "clsag" -> v >= 11
       [] proof = "none" -> v <= 11

is_in_checkpoint_zone(points, height) == points # <<>> /\ height <= Max(DOMAIN points)

check_block(points, height, b) == height \in DOMAIN points => points[height] = b

is_alternative_block_allowed(points, blockchain_height, height) ==
  /\ height # 0
  /\ LET passed == {h \in DOMAIN points : h <= blockchain_height}
     IN passed # {} => Max(passed) < height
==============================================================================
