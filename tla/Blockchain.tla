------------------------------ MODULE Blockchain ------------------------------
(***************************************************************************)
(* The Blockchain object (cryptonote_core/blockchain.cpp) of one node with  *)
(* its pool and its hard fork object: blocks extend the main chain, wait as *)
(* alternatives, or cause a switch that is undone when it fails.            *)
(*                                                                          *)
(* A handler holds the pool lock and the blockchain lock, and its writes    *)
(* are one LMDB batch, from start to end: it is one step, and a crash in    *)
(* it is a restart from the state before it.                                *)
(***************************************************************************)
EXTENDS TxPool

CONSTANTS
  Genesis,
  Synced,        \* the blocks the node has when it starts
  Releases,      \* the hard fork schedules of successive releases of the daemon
  WalletTxs,     \* the transactions that are also sent on their own, outside blocks
  Checkpoints,   \* the checkpoints that may be published, by height
  MaxTime,
  MaxEvents      \* bound on the calls that change the node

ASSUME BlockchainAssumption ==
  /\ Genesis \in BlockIds /\ Block[Genesis].height = 0 /\ Block[Genesis].major = Releases[1][1].version
  /\ \A b \in BlockIds \ {Genesis} : Block[b].height = Block[Block[b].parent].height + 1
  /\ Synced[1] = Genesis /\ WalletTxs \subseteq TxIds
  /\ \A r \in DOMAIN Releases : IsSchedule(Releases[r])

VARIABLES
  node,      \* chain, rows (hf_versions), hf, alt, invalid, pool, btc (template), points, now
  release,   \* the release that runs
  events     \* calls so far

vars == <<node, release, events>>

Weight(blocks) == FoldLeft(LAMBDA w, b : w + Block[b].difficulty, 0, blocks)

\* Transactions that go to the pool one after the other.
RECURSIVE AddTxs(_, _, _, _)
AddTxs(s, txs, kept, version) ==
  IF txs = <<>> THEN s ELSE AddTxs(add_tx(s, Head(txs), kept, version), Tail(txs), kept, version)

\* What was found out about the old chain is forgotten.
ChainChanged(s) == [s EXCEPT !.pool = on_blockchain_changed(@), !.btc = None]

\* Mutant of pop_block_from_blockchain: its transactions come back as if a wallet sent them.
MutantPopBlock(s) ==
  LET chain == Front(s.chain)
      popped == [s EXCEPT !.chain = chain, !.hf = on_block_popped(@, chain, s.rows)]
  IN ChainChanged(AddTxs(popped, Reverse(Block[Last(s.chain)].txs), FALSE, get_ideal_version(s.hf, Len(chain))))

\* The main chain and the pool once the top block has gone.
pop_block_from_blockchain(s) ==
  LET chain == Front(s.chain)
      version == get_ideal_version(s.hf, Len(chain))
      popped == [s EXCEPT !.chain = chain, !.hf = on_block_popped(@, chain, s.rows)]
  IN ChainChanged(AddTxs(popped, Reverse(Block[Last(s.chain)].txs), TRUE, version))

RECURSIVE PopTo(_, _)
PopTo(s, height) ==
  IF Len(s.chain) <= height THEN s ELSE PopTo(pop_block_from_blockchain(s), height)

return_tx_to_pool(s, txs) == AddTxs(s, txs, TRUE, current_version(s.hf))

\* Mutant of TakeStep: the inputs are not checked.
MutantTakeStep(acc, t) ==
  IF acc.result # "ok" \/ ~have_tx(acc.s, t) THEN [acc EXCEPT !.result = "missing"]
  ELSE [s |-> take_tx(acc.s, t), taken |-> Append(acc.taken, t), result |-> "ok"]

\* Take a block's transactions from the pool one by one and check their inputs.
TakeStep(acc, t) ==
  IF acc.result # "ok" THEN acc
  ELSE IF t \in TxsOf(acc.s.chain) \/ ~have_tx(acc.s, t) THEN [acc EXCEPT !.result = "missing"]
  ELSE [s |-> take_tx(acc.s, t), taken |-> Append(acc.taken, t),
        result |-> IF check_tx_inputs(acc.s.chain, t).ok THEN "ok" ELSE "wrong_inputs"]

RECURSIVE TakeTxs(_, _)
TakeTxs(acc, txs) == IF txs = <<>> THEN acc ELSE TakeTxs(TakeStep(acc, Head(txs)), Tail(txs))

\* db.add_block with the hard fork object's own bookkeeping.
AddBlock(s, b) ==
  LET added == add(s.hf, s.rows, b, Len(s.chain))
  IN ChainChanged([s EXCEPT !.chain = Append(@, b), !.hf = added.hf, !.rows = added.rows])

add_block_as_invalid(s, blocks) == [s EXCEPT !.invalid = @ \cup blocks]

\* The end of handle_block_to_main_chain, when `took` has the block's transactions.
Settle(took, b) ==
  IF took.result = "ok" /\ Block[b].reward_ok THEN [ok |-> TRUE, s |-> AddBlock(took.s, b)]
  ELSE [ok |-> FALSE,
        s |-> add_block_as_invalid(return_tx_to_pool(took.s, took.taken),
                                   IF took.result = "wrong_inputs" THEN {b} ELSE {})]

\* handle_block_to_main_chain; `pow` is the outcome of the proof of work.
handle_block_to_main_chain(s, b, pow) ==
  LET refused == \/ Block[b].parent # Last(s.chain)
                 \/ ~check(s.hf, b)
                 \/ ~pow
                 \/ /\ is_in_checkpoint_zone(s.points, Len(s.chain))
                    /\ ~check_block(s.points, Len(s.chain), b)
  IN IF refused THEN [ok |-> FALSE, s |-> s]
     ELSE Settle(TakeTxs([s |-> s, taken |-> <<>>, result |-> "ok"], Block[b].txs), b)

\* Blocks connected one after the other up to the first that fails.
RECURSIVE ConnectAll(_, _, _)
ConnectRest(r, blocks, pow) ==
  IF r.ok THEN ConnectAll(r.s, Tail(blocks), pow)
  ELSE [ok |-> FALSE, s |-> r.s, failed |-> Range(blocks)]

ConnectAll(s, blocks, pow) ==
  IF blocks = <<>> THEN [ok |-> TRUE, s |-> s, failed |-> {}]
  ELSE ConnectRest(handle_block_to_main_chain(s, Head(blocks), pow[Head(blocks)]), blocks, pow)

\* Mutant of Reorganized: the hard fork object is left as the pops left it.
MutantReorganized(s, height) == s

Reorganized(s, height) ==
  LET r == reorganize(s.hf, s.chain, s.rows, height)
  IN [s EXCEPT !.hf = r.hf, !.rows = r.rows]

Restored(again, height) == IF again.ok THEN Reorganized(again.s, height) ELSE again.s

rollback_blockchain_switching(s, original, height, pow) ==
  IF height > Len(s.chain) THEN s
  ELSE Restored(ConnectAll(Reorganized(PopTo(s, height), height), original, pow), height)

\* The alternative blocks that lead to b, the one on the main chain's block first.
AltChain(s, b) ==
  FoldLeft(LAMBDA c, i : IF Block[c[1]].parent \in s.alt THEN <<Block[c[1]].parent>> \o c ELSE c,
           <<b>>, [i \in 1..Block[b].height |-> i])

BranchWeight(s, alts) ==
  Weight(SubSeq(s.chain, 1, Block[alts[1]].height)) + Weight(alts)

\* What handle_alternative_block asks of a block before it becomes an alternative.
AlternativeAllowed(s, b) ==
  LET front == AltChain(s, b)[1]
  IN /\ is_alternative_block_allowed(s.points, Len(s.chain), Block[b].height)
     /\ check_for_height(s.hf, b, Block[b].height)
     /\ OnChain(s.chain, Block[front].parent)
     /\ front # b => Len(s.chain) > Block[front].height
     /\ check_block(s.points, Block[b].height, b)
     /\ Block[b].pow_ok

\* Blocks of the old chain, which is the lighter one, become alternatives.
KeepOldChain(s, blocks) ==
  FoldLeft(LAMBDA q, b : IF AlternativeAllowed(q, b) THEN [q EXCEPT !.alt = @ \cup {b}] ELSE q,
           s, blocks)

\* A switch that failed leaves the blocks that could not be connected as invalid ones.
Disown(s, failed) == add_block_as_invalid([s EXCEPT !.alt = @ \ failed], failed)

\* Mutant of EndSwitch: the whole alternative chain is invalid when one of its blocks fails.
MutantEndSwitch(new, old, alts, discard, pow) ==
  LET split == Block[alts[1]].height
      kept == IF discard THEN new.s ELSE KeepOldChain(new.s, old)
  IN IF new.ok THEN Reorganized([kept EXCEPT !.alt = @ \ Range(alts)], split)
     ELSE Disown(rollback_blockchain_switching(new.s, old, split, pow), Range(alts))

\* The rest of a switch, when `new` is what became of the alternative blocks.
EndSwitch(new, old, alts, discard, pow) ==
  LET split == Block[alts[1]].height
      kept == IF discard THEN new.s ELSE KeepOldChain(new.s, old)
  IN IF new.ok THEN Reorganized([kept EXCEPT !.alt = @ \ Range(alts)], split)
     ELSE Disown(rollback_blockchain_switching(new.s, old, split, pow), new.failed)

switch_to_alternative_blockchain(s, alts, discard, pow) ==
  LET split == Block[alts[1]].height
  IN EndSwitch(ConnectAll(PopTo(s, split), alts, pow), SubSeq(s.chain, split + 1, Len(s.chain)),
               alts, discard, pow)

\* Mutant of handle_alternative_block: a branch of the same weight wins.
MutantAlternative(s, b, pow) ==
  LET alts == AltChain(s, b)
      stored == [s EXCEPT !.alt = @ \cup {b}]
  IN IF ~AlternativeAllowed(s, b) THEN s
     ELSE IF Weight(s.chain) <= BranchWeight(s, alts)
     THEN switch_to_alternative_blockchain(stored, alts, FALSE, pow)
     ELSE stored

handle_alternative_block(s, b, pow) ==
  LET stored == [s EXCEPT !.alt = @ \cup {b}]
      alts == AltChain(s, b)
      checkpoint == Block[b].height \in DOMAIN s.points
  IN CASE ~AlternativeAllowed(s, b) -> s
       [] OTHER -> IF checkpoint \/ Weight(s.chain) < BranchWeight(s, alts)
                   THEN switch_to_alternative_blockchain(stored, alts, checkpoint, pow)
                   ELSE stored

have_block(s, b) == OnChain(s.chain, b) \/ b \in s.alt \/ b \in s.invalid

add_new_block(s, b, pow) ==
  IF have_block(s, b) THEN s
  ELSE IF Block[b].parent # Last(s.chain) THEN handle_alternative_block(s, b, pow)
  ELSE handle_block_to_main_chain(s, b, Block[b].pow_ok).s

add_new_tx(s, t, kept) ==
  IF have_tx(s, t) \/ t \in TxsOf(s.chain) THEN s
  ELSE add_tx(s, t, kept, current_version(s.hf))

\* The transactions of a block that comes in.
RECURSIVE AddNewTxs(_, _)
AddNewTxs(s, txs) == IF txs = <<>> THEN s ELSE AddNewTxs(add_new_tx(s, Head(txs), TRUE), Tail(txs))

\* One round of the loop of check_against_checkpoints, enforced: back to two blocks before
\* a checkpoint that fails.
CheckAgainst(s, h) ==
  IF h >= Len(s.chain) \/ check_block(s.points, h, BlockAt(s.chain, h)) \/ h < 2 THEN s
  ELSE rollback_blockchain_switching(s, <<>>, h - 2, <<>>)

RECURSIVE CheckHeights(_, _)
CheckHeights(s, heights) ==
  IF heights = <<>> THEN s ELSE CheckHeights(CheckAgainst(s, Head(heights)), Tail(heights))

check_against_checkpoints(s) == CheckHeights(s, SetToSortSeq(DOMAIN s.points, <))

NewTemplate(filled) ==
  [filled.s EXCEPT !.btc = [prev_id |-> Last(filled.s.chain), major |-> current_version(filled.s.hf),
                            txs |-> filled.txs],
                   !.pool.changed = FALSE]

create_block_template(s) ==
  IF s.btc # None /\ ~s.pool.changed THEN s ELSE NewTemplate(fill_block_template(s))

\* Start-up: the top blocks that the release's schedule does not allow go, and with them
\* their transactions; the pool is read back and validated.
StartUp(s, heights) ==
  LET hf == init(heights, s.chain, s.rows)
      good == {h \in 1..Len(s.chain) :
                 Block[s.chain[h]].major = get_ideal_version(hf, h - 1)}
      chain == SubSeq(s.chain, 1, Max(good))
      r == IF chain = s.chain THEN [hf |-> hf, rows |-> s.rows]
           ELSE reorganize(hf, chain, s.rows, Len(chain))
      up == [s EXCEPT !.chain = chain, !.hf = r.hf, !.rows = r.rows, !.alt = {}, !.invalid = {},
                      !.btc = None, !.pool = InitPool(s.pool)]
  IN IF up.pool.loaded THEN check_against_checkpoints(validate(up, current_version(up.hf))) ELSE up

\* Proofs of work from version 10 on depend on the height, which handle_block_to_main_chain
\* never initialises; it counts when a switch has cleared the precomputed ones.
Unsure == {b \in BlockIds : Block[b].major >= 10}

PowOutcomes ==
  {[b \in BlockIds |-> IF b \in Unsure THEN f[b] ELSE Block[b].pow_ok] : f \in [Unsure -> BOOLEAN]}

-----------------------------------------------------------------------------

Init ==
  /\ release = 1 /\ events = 0
  /\ node = FoldLeft(AddBlock,
                     [chain |-> <<>>, rows |-> <<>>, hf |-> init(Releases[1], <<>>, <<>>), alt |-> {},
                      invalid |-> {}, pool |-> EmptyPool, btc |-> None, points |-> <<>>, now |-> 0],
                     Synced)

\* The node's next state, within the bound; a call that changes nothing is no step.
Becomes(next) ==
  /\ events < MaxEvents /\ next # node
  /\ node' = next
  /\ events' = events + 1

\* A transaction from a peer or a wallet.
ReceiveTx ==
  /\ \E t \in WalletTxs : Becomes(add_new_tx(node, t, FALSE))
  /\ UNCHANGED release

\* A block with its transactions from a peer.
ReceiveBlock ==
  /\ \E b \in BlockIds \ {Genesis}, pow \in PowOutcomes :
       Becomes(add_new_block(AddNewTxs(node, Block[b].txs), b, pow))
  /\ UNCHANGED release

GetBlockTemplate ==
  /\ Becomes(create_block_template(node))
  /\ UNCHANGED release

RemoveStuckTransactions ==
  /\ Becomes(remove_stuck_transactions(node))
  /\ UNCHANGED release

\* Checkpoints that have been published are loaded and enforced.
UpdateCheckpoints ==
  /\ \E h \in DOMAIN Checkpoints \ DOMAIN node.points :
       Becomes(check_against_checkpoints([node EXCEPT !.points = (h :> Checkpoints[h]) @@ @]))
  /\ UNCHANGED release

\* The daemon stops, in order or not, and this or the next release starts.
Restart ==
  /\ release' \in {release, release + 1} \cap DOMAIN Releases
  /\ Becomes(StartUp(node, Releases[release']))

Tick ==
  /\ node.now < MaxTime
  /\ Becomes([node EXCEPT !.now = @ + 1])
  /\ UNCHANGED release

Next ==
  \/ ReceiveTx
  \/ ReceiveBlock
  \/ GetBlockTemplate
  \/ RemoveStuckTransactions
  \/ UpdateCheckpoints
  \/ Restart
  \/ Tick

Spec == Init /\ [][Next]_vars
==============================================================================
