-------------------------------- MODULE TxPool --------------------------------
(***************************************************************************)
(* The memory pool (cryptonote_core/tx_pool.cpp).  Every operation runs     *)
(* under the pool lock and then the blockchain lock, so it is one operator  *)
(* from a node's state to its next state.  A state s has, besides the       *)
(* chain and the hard fork object, s.now and s.pool:                        *)
(*   meta       the rows of the pool's database table;                      *)
(*   sorted     m_txs_by_fee_and_receive_time;                              *)
(*   spent      m_spent_key_images;                                         *)
(*   timed_out  m_timed_out_transactions;                                   *)
(*   weight     m_txpool_weight;                                            *)
(*   cache      m_input_cache;                                              *)
(*   changed    m_cookie is not the one of the cached block template;       *)
(*   loaded     init succeeded;                                             *)
(*   dropped    the transactions that prune and remove_stuck_transactions   *)
(*              have ever taken out (a history, not in the code).           *)
(* Only meta survives a restart.                                            *)
(***************************************************************************)
EXTENDS ChainRules

CONSTANTS
  m_txpool_max_weight,
  MIN_BLOCK_WEIGHT, COINBASE_RESERVED,  \* the two terms of the transaction weight limit
  MIN_FEE,                              \* per unit of weight
  TX_LIVETIME, ALT_BLOCK_LIVETIME, NON_STANDARD_LIFETIME,
  MAX_TOTAL_WEIGHT,                     \* of the transactions of a block
  BaseReward(_)                         \* of the miner, for a block of that weight

ASSUME TxPoolAssumption == TX_LIVETIME < ALT_BLOCK_LIVETIME

EmptyPool == [meta |-> <<>>, sorted |-> {}, spent |-> [i \in Images |-> {}], timed_out |-> {},
              weight |-> 0, cache |-> <<>>, changed |-> TRUE, loaded |-> TRUE, dropped |-> {}]

IsStandard(t) == Tx[t].type = "standard"

get_transaction_weight_limit(version) ==
  (IF version >= 10 THEN MIN_BLOCK_WEIGHT \div 2 ELSE MIN_BLOCK_WEIGHT) - COINBASE_RESERVED

\* txCompare: non-standard ones first, then the fee per byte, the age and the hash.
txCompare(meta, t, u) ==
  LET rate(a, b) == Tx[a].fee * Tx[b].weight
  IN IF IsStandard(t) # IsStandard(u) THEN ~IsStandard(t)
     ELSE IF rate(t, u) # rate(u, t) THEN rate(t, u) > rate(u, t)
     ELSE IF meta[t].receive_time # meta[u].receive_time
          THEN meta[t].receive_time < meta[u].receive_time
          ELSE t < u

InOrder(p) == SetToSortSeq(p.sorted, LAMBDA t, u : txCompare(p.meta, t, u))

have_tx(s, t) == t \in DOMAIN s.pool.meta

\* Mutant of HasSpentImage: the key images of the pool are not looked up.
MutantHasSpentImage(p, t) == FALSE

HasSpentImage(p, t) == \E i \in Tx[t].images : p.spent[i] # {}

have_duplicated_non_standard_tx(p, t) ==
  ~IsStandard(t) /\ \E u \in DOMAIN p.meta :
     ~IsStandard(u) /\ Tx[u].votes_on = Tx[t].votes_on /\ Tx[u].node = Tx[t].node

mark_double_spend(p, t) ==
  LET rivals == UNION {p.spent[i] : i \in Tx[t].images}
  IN [p EXCEPT !.meta = [u \in DOMAIN @ |-> IF u \in rivals THEN [@[u] EXCEPT !.double_spend_seen = TRUE]
                                             ELSE @[u]],
               !.changed = @ \/ \E u \in rivals : ~p.meta[u].double_spend_seen]

CanInsertKeyImages(p, t, kept) ==
  \A i \in Tx[t].images : (kept \/ p.spent[i] = {}) /\ t \notin p.spent[i]

insert_key_images(p, t) ==
  [p EXCEPT !.spent = [i \in Images |-> IF i \in Tx[t].images THEN @[i] \cup {t} ELSE @[i]],
            !.changed = TRUE]

\* Mutant of remove_transaction_keyimages: the key images stay.
MutantRemoveKeyImages(p, t) == [p EXCEPT !.changed = TRUE]

remove_transaction_keyimages(p, t) ==
  [p EXCEPT !.spent = [i \in Images |-> IF i \in Tx[t].images THEN @[i] \ {t} ELSE @[i]],
            !.changed = TRUE]

\* A transaction leaves the table, the weight, the key images and the order.
Removed(p, t) ==
  [remove_transaction_keyimages(p, t) EXCEPT
     !.meta = Restrict(@, DOMAIN @ \ {t}), !.weight = @ - Tx[t].weight, !.sorted = @ \ {t}]

Dropped(p, t) == [Removed(p, t) EXCEPT !.dropped = @ \cup {t}]

\* The cached answer of check_tx_inputs, and the pool with the answer in the cache.
PoolInputs(s, t) ==
  IF t \in DOMAIN s.pool.cache THEN s.pool.cache[t] ELSE check_tx_inputs(s.chain, t)

Cached(s, t) == [s EXCEPT !.pool.cache = (t :> PoolInputs(s, t)) @@ @]

\* Mutant of on_blockchain_changed: the cached answers stay.
MutantOnBlockchainChanged(p) == p

on_blockchain_changed(p) == [p EXCEPT !.cache = <<>>]

\* The second loop of prune goes from the back over the transactions that no block brought
\* and never removes the first one.  Erasing the last element leaves the iterator at end();
\* what is read there is the id of no transaction and ends the loop.
PruneStep(p, acc, t) ==
  IF acc.stopped \/ acc.pool.weight <= m_txpool_max_weight \/ acc.pool.meta[t].kept_by_block THEN acc
  ELSE [pool |-> Dropped(acc.pool, t), stopped |-> t = Last(InOrder(p))]

PruneStandard(p) ==
  FoldLeft(LAMBDA acc, t : PruneStep(p, acc, t), [pool |-> p, stopped |-> FALSE],
           Reverse(Tail(InOrder(p)))).pool

PruneNonStandard(p, now) ==
  LET old == {t \in p.sorted : /\ ~IsStandard(t) /\ ~p.meta[t].kept_by_block
                               /\ p.meta[t].receive_time + NON_STANDARD_LIFETIME < now}
  IN FoldSet(LAMBDA t, q : Dropped(q, t), p, old)

prune(s) == [s EXCEPT !.pool = PruneStandard(PruneNonStandard(@, s.now))]

\* The row of a transaction and its place in the pool's indices.
Inserted(s, t, meta) ==
  LET row == [s.pool EXCEPT !.meta = (t :> meta) @@ @]
  IN IF ~CanInsertKeyImages(row, t, meta.kept_by_block) THEN [s EXCEPT !.pool = row]
     ELSE prune([s EXCEPT !.pool = [insert_key_images(row, t) EXCEPT
                                      !.sorted = @ \cup {t}, !.weight = @ + Tx[t].weight]])

NewMeta(s, kept, used, seen) ==
  [kept_by_block |-> kept, receive_time |-> s.now, max_used |-> used.id, max_used_height |-> used.height,
   last_failed |-> None, double_spend_seen |-> seen]

HasRival(p, t) == HasSpentImage(p, t) \/ have_duplicated_non_standard_tx(p, t)

\* add_tx from the check of the inputs on, which answered `used`.  A transaction a block
\* brought is kept even when its inputs are not valid now.
Admit(s, t, kept, used) ==
  LET looked == IF kept THEN s ELSE Cached(s, t)
  IN IF used.ok THEN Inserted(looked, t, NewMeta(s, kept, used, FALSE))
     ELSE IF ~kept \/ have_tx(s, t) THEN looked
     ELSE Inserted(s, t, NewMeta(s, kept, used, HasRival(s.pool, t)))

add_tx(s, t, kept, version) ==
  LET p == s.pool
  IN CASE \/ ~kept /\ t \in p.timed_out
          \/ ~kept /\ IsStandard(t) /\ Tx[t].fee < MIN_FEE * Tx[t].weight
          \/ (~kept \/ version >= 10) /\ Tx[t].weight > get_transaction_weight_limit(version) -> s
       [] OTHER ->
            IF ~kept /\ HasRival(p, t) THEN [s EXCEPT !.pool = mark_double_spend(p, t)]
            ELSE IF ~check_tx_outputs(s.hf, s.chain, t) THEN s
            ELSE Admit(s, t, kept, IF kept THEN check_tx_inputs(s.chain, t) ELSE PoolInputs(s, t))

\* take_tx of a transaction that is in the pool.
take_tx(s, t) == [s EXCEPT !.pool = Removed(@, t)]

remove_stuck_transactions(s) ==
  LET p == s.pool
      age(t) == s.now - p.meta[t].receive_time
      stuck == {t \in DOMAIN p.meta :
                  age(t) > (IF p.meta[t].kept_by_block THEN ALT_BLOCK_LIVETIME ELSE TX_LIVETIME)}
  IN [s EXCEPT !.pool = [FoldSet(LAMBDA t, q : Dropped(q, t), p, stuck) EXCEPT !.timed_out = @ \cup stuck]]

\* The block at which a transaction last failed is still on the chain.
FailedHere(s, m) == m.last_failed # None /\ OnChain(s.chain, m.last_failed)

\* The end of is_transaction_ready_to_go, when the inputs were found to be `used`: whether
\* the transaction may go into a block, and the state with that noted in its row.
Noted(s, t, used) ==
  LET m == s.pool.meta[t]
      spent == used.ok /\ have_tx_keyimges_as_spent(s.chain, t)
      noted == IF ~used.ok THEN [m EXCEPT !.max_used_height = 0, !.last_failed = Last(s.chain)]
               ELSE [m EXCEPT !.max_used_height = used.height, !.max_used = used.id,
                              !.double_spend_seen = @ \/ spent]
  IN [ready |-> used.ok /\ ~spent, s |-> [Cached(s, t) EXCEPT !.pool.meta[t] = noted]]

is_transaction_ready_to_go(s, t) ==
  LET m == s.pool.meta[t]
  IN IF FailedHere(s, m) \/ (m.max_used # None /\ m.max_used_height >= Len(s.chain))
     THEN [ready |-> FALSE, s |-> s]
     ELSE Noted(s, t, PoolInputs(s, t))

Total(acc, t) == acc.weight + Tx[t].weight

Coinbase(acc, t) == BaseReward(Total(acc, t)) + acc.fee + Tx[t].fee

Take(acc, t, s) ==
  [s |-> s, txs |-> Append(acc.txs, t), weight |-> Total(acc, t), fee |-> acc.fee + Tx[t].fee,
   best |-> Coinbase(acc, t), images |-> acc.images \cup Tx[t].images]

\* Mutant of TakeIfReady: the key images of the template are not compared.
MutantTakeIfReady(acc, t, found) ==
  IF ~found.ready THEN [acc EXCEPT !.s = found.s] ELSE Take(acc, t, found.s)

TakeIfReady(acc, t, found) ==
  IF ~found.ready \/ Tx[t].images \cap acc.images # {} THEN [acc EXCEPT !.s = found.s]
  ELSE Take(acc, t, found.s)

\* One round of the loop of fill_block_template.
Consider(acc, t) ==
  IF Total(acc, t) > MAX_TOTAL_WEIGHT \/ Coinbase(acc, t) < acc.best THEN acc
  ELSE TakeIfReady(acc, t, is_transaction_ready_to_go(acc.s, t))

RECURSIVE ConsiderAll(_, _)
ConsiderAll(acc, txs) == IF txs = <<>> THEN acc ELSE ConsiderAll(Consider(acc, Head(txs)), Tail(txs))

\* fill_block_template: the best transactions that fit, are ready and do not conflict.
fill_block_template(s) ==
  ConsiderAll([s |-> s, txs |-> <<>>, weight |-> 0, fee |-> 0, best |-> BaseReward(0), images |-> {}],
              InOrder(s.pool))

\* init: the indices from the table, first the rows no block brought, then the others.
Load(p, t) ==
  IF ~p.loaded \/ ~CanInsertKeyImages(p, t, p.meta[t].kept_by_block) THEN [p EXCEPT !.loaded = FALSE]
  ELSE [insert_key_images(p, t) EXCEPT !.sorted = @ \cup {t}, !.weight = @ + Tx[t].weight]

InitPool(old) ==
  LET meta == old.meta
      kept == {t \in DOMAIN meta : meta[t].kept_by_block}
      first == FoldSet(LAMBDA t, p : Load(p, t), [EmptyPool EXCEPT !.meta = meta, !.dropped = old.dropped],
                       DOMAIN meta \ kept)
  IN FoldSet(LAMBDA t, p : Load(p, t), first, kept)

\* validate: what has become too heavy or is in the chain leaves.
validate(s, version) ==
  LET bad == {t \in DOMAIN s.pool.meta :
                Tx[t].weight > get_transaction_weight_limit(version) \/ t \in TxsOf(s.chain)}
  IN [s EXCEPT !.pool = FoldSet(LAMBDA t, q : Removed(q, t), s.pool, bad)]
==============================================================================
