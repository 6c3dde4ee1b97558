---------------------------- MODULE MCBlockchain ----------------------------
(***************************************************************************)
(* Instances of the blockchain, its pool and its hard forks for TLC.       *)
(***************************************************************************)
EXTENDS ChainProperties

Fork(version, height) == [version |-> version, height |-> height, threshold |-> 0]

Pays(images, coinbases, needs, fee, weight) ==
  [type |-> "standard", images |-> images, coinbases |-> coinbases, needs |-> needs, fee |-> fee, weight |-> weight,
   proof |-> "borromean", votes_on |-> None, node |-> 0]

Deregisters(block, n) ==
  [type |-> "deregister", images |-> {}, coinbases |-> {}, needs |-> {}, fee |-> 0, weight |-> 1, proof |-> "none",
   votes_on |-> block, node |-> n]

Blk(parent, height, major, difficulty, txs) ==
  [parent |-> parent, height |-> height, major |-> major, minor |-> 9, difficulty |-> difficulty,
   txs |-> txs, pow_ok |-> TRUE, reward_ok |-> TRUE]

\* Two branches from height 3 on, above the fork to version 8.  Transactions 1 and 2 spend
\* the same key image on the two branches, and so does 5, which no block has; 3 spends an
\* output of 1 and 4 deregisters a node.
TreeTx ==
  <<Pays({"i"}, {"X1"}, {}, 2, 1), Pays({"i"}, {"X1"}, {}, 3, 1), Pays({"j"}, {}, {1}, 4, 2), Deregisters("X2", 1),
    Pays({"i"}, {"X1"}, {}, 1, 1)>>

TreeBlock ==
  [b \in {"G", "X1", "X2", "A3", "A4", "B3", "B4", "C4"} |->
     CASE b = "G" -> Blk("G", 0, 7, 1, <<>>)
       [] b = "X1" -> Blk("G", 1, 7, 1, <<>>)
       [] b = "X2" -> Blk("X1", 2, 8, 1, <<>>)
       [] b = "A3" -> Blk("X2", 3, 8, 1, <<1>>)
       [] b = "A4" -> Blk("A3", 4, 8, 2, <<4, 3>>)
       [] b = "B3" -> Blk("X2", 3, 8, 1, <<2, 4>>)
       [] b = "B4" -> [Blk("B3", 4, 8, 1, <<>>) EXCEPT !.reward_ok = FALSE]
       [] b = "C4" -> Blk("B3", 4, 9, 3, <<3>>)]

TreeReleases == <<<<Fork(7, 0), Fork(8, 2)>>, <<Fork(7, 0), Fork(8, 2), Fork(9, 4)>>>>

TreeSynced == <<"G", "X1", "X2">>

\* Two branches that part at the first block of version 8, without transactions.
BoundaryBlock ==
  [b \in {"G", "X1", "A2", "B2", "B3"} |->
     CASE b = "G" -> Blk("G", 0, 7, 1, <<>>)
       [] b = "X1" -> Blk("G", 1, 7, 1, <<>>)
       [] b = "A2" -> Blk("X1", 2, 8, 1, <<>>)
       [] b = "B2" -> Blk("X1", 2, 8, 1, <<>>)
       [] b = "B3" -> Blk("B2", 3, 8, 1, <<>>)]

BoundaryReleases == <<<<Fork(7, 0), Fork(8, 2)>>>>

BoundarySynced == <<"G", "X1">>

NoTx == <<>>

NoCheckpoints == <<>>

TreeCheckpoints == 3 :> "B3"

FlatReward(w) == 10
==============================================================================
