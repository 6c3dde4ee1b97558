----------------------------- MODULE MCBlockSync -----------------------------
(***************************************************************************)
(* Instances of BlockSync for TLC.  Blocks are numbers: block h of the     *)
(* valid chain is h, block h of the branch that fails verification is      *)
(* h + 10, and it leaves the valid chain after block 0.                    *)
(***************************************************************************)
EXTENDS BlockSync

CONSTANTS Good, Other

BlockHeight(b) == b % 10

BlockParent(b) == IF b = 11 THEN 0 ELSE IF b = 0 THEN 99 ELSE b - 1

InvalidBlocks == {11, 12}

OneBadPeer(p) == IF p = Other THEN <<0, 11, 12>> ELSE <<0, 1, 2>>

TwoGoodPeers(p) == IF p = Other THEN <<0, 1, 2>> ELSE <<0, 1, 2, 3, 4>>

=============================================================================
