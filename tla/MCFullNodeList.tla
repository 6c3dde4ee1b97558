---------------------------- MODULE MCFullNodeList ----------------------------
(***************************************************************************)
(* Instances of the full node list for TLC.                                *)
(***************************************************************************)
EXTENDS FullNodeReplay, TLC

CONSTANTS n1, n2, n3, a1, a2, t1, t2, t3, t4

\* A transaction that pays `outs` to a contributor's own address.
Pays(id, node, address, outs) ==
  [type |-> "standard", id |-> id, node |-> node, registration |-> None,
   contribution |-> [address |-> address, outs |-> outs, unlock_time |-> 50, proofs |-> TRUE]]

\* The same with a registration of the node in its extra.
Registers(id, node, addresses, portions, outs) ==
  [Pays(id, node, addresses[1], outs) EXCEPT
     !.registration = [addresses |-> addresses, portions |-> portions, authentic |-> TRUE]]

\* A solo node that can register twice, and a node of two contributors.
TwoNodeTxs == {Registers(t1, n1, <<a1>>, <<12>>, <<4>>), Registers(t4, n1, <<a1>>, <<12>>, <<4>>),
               Registers(t2, n2, <<a1, a2>>, <<6, 6>>, <<3>>), Pays(t3, n2, a2, <<2>>)}

\* Two solo nodes and a node of two contributors.
MixedNodeTxs == {Registers(t1, n1, <<a1>>, <<12>>, <<4>>), Registers(t4, n3, <<a1>>, <<12>>, <<4>>),
                 Registers(t2, n2, <<a1, a2>>, <<6, 6>>, <<3>>), Pays(t3, n2, a2, <<2>>)}

Version11(h) == IF h < HF9_HEIGHT THEN 7 ELSE 11
Version10(h) == IF h < HF9_HEIGHT THEN 7 ELSE 10
Version9(h) == IF h < HF9_HEIGHT THEN 7 ELSE 9

\* Versions 9, 10 and 11 in turn.
RisingVersion(h) == IF h < HF9_HEIGHT THEN 7 ELSE IF h = HF9_HEIGHT THEN 9
                    ELSE IF h < HF9_HEIGHT + 2 THEN 10 ELSE 11

\* Permutations and swarm assignments that depend on nothing but the set.
SortedShuffle(hash, S) ==
  CHOOSE p \in [1..Cardinality(S) -> S] : \A i, j \in DOMAIN p : p[i] = p[j] => i = j

\* Two nodes form a swarm, a node alone waits in the queue.
OneSwarm(hash, swarms) ==
  {[n \in DOMAIN swarms |-> IF Cardinality(DOMAIN swarms) > 1 THEN 1 ELSE swarms[n]]}
==============================================================================
