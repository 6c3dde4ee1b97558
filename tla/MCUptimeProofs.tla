--------------------------- MODULE MCUptimeProofs ---------------------------
(***************************************************************************)
(* Four nodes with the released times; one announces itself, three listen   *)
(* and relay.                                                               *)
(***************************************************************************)
EXTENDS UptimeProofs

OneBlock == <<[miner |-> "G", txs |-> {}, kicked |-> {}]>>

NoQuorum(miner, h) == [quorum_nodes |-> <<>>, nodes_to_test |-> <<>>]

NobodyMines(h) == {}

MajorThree == [n \in Nodes |-> 3]
==============================================================================
