------------------------- MODULE MCDeregisterVoting -------------------------
(***************************************************************************)
(* Two voters, "a" and "b", who also mine, and the nodes they test: "x",    *)
(* which is silent, and themselves.                                         *)
(***************************************************************************)
EXTENDS DeregisterVoting

OldBlock == [miner |-> "G", txs |-> {}, kicked |-> {}]

FourBlocks == <<OldBlock, OldBlock, OldBlock, OldBlock>>

\* Who is tested with the first block after the trunk depends on who mined it.
SplitQuorum(miner, h) ==
  [quorum_nodes |-> <<"a", "b">>,
   nodes_to_test |-> CASE h = 2 -> <<"x">>
                       [] h = 4 /\ miner = "a" -> <<"y">>
                       [] h = 4 /\ miner = "b" -> <<"x">>
                       [] OTHER -> <<>>]

\* Two branches of at most two blocks, and a node that mines what was voted on.
TwoThenOne(h) == CASE h \in {4, 5} -> {"a", "b"}
                   [] h = 6 -> {"b"}
                   [] h = 7 -> {"a"}

MajorThree == [n \in Nodes |-> 3]
==============================================================================
