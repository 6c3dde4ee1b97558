----------------------------- MODULE FullNodeInfo -----------------------------
(***************************************************************************)
(* One entry of the full node list (full_node_list.h, full_node_info): how *)
(* a registration transaction creates it, how a contribution transaction   *)
(* adds to it, and what of it survives being written to the database.      *)
(*                                                                         *)
(* A standard transaction is a record:                                     *)
(*   node          the full node key in the tx extra, or None              *)
(*   registration  None, or the addresses and portions of a registration   *)
(*                 and whether it is authentic: its signature, its expiry  *)
(*                 time and the operator's share of the rewards are good   *)
(*   contribution  None, or the contributor's address, the amounts of the  *)
(*                 outputs that pay it, the height they are time-locked to *)
(*                 and whether the tx extra has their key image proofs     *)
(* Output i of transaction t has the key image <<t.id, i>>.                *)
(***************************************************************************)
EXTENDS FullNodeRules

CONSTANTS
  Nodes,          \* full node public keys
  Addresses,      \* contributors' wallet addresses
  TxIds,          \* hashes of standard transactions
  None,           \* a null key, or the absence of an optional value
  SwarmIds,       \* the swarm ids that occur
  LOCK_BLOCKS,    \* staking_num_lock_blocks
  UINT32_MAX      \* the transaction index given to the winner of a block

ASSUME InfoAssumption ==
  /\ LOCK_BLOCKS \in Nat /\ UINT32_MAX \in Nat
  /\ None \notin Nodes
  /\ SwarmIds \subseteq Nat /\ 0 \in SwarmIds

KEY_IMAGE_AWAITING_UNLOCK_HEIGHT == 0
QUEUE_SWARM_ID == 0

\* A staking transaction pays its contributor with at most this many outputs.
MAX_STAKING_OUTPUTS == 4

\* get_min_full_node_info_version_for_hf
MinInfoVersion(hf_version) ==
  IF hf_version <= 9 THEN 0 ELSE IF hf_version = 10 THEN 1 ELSE 2

is_fully_funded(info) == info.total_contributed >= STAKING_REQUIREMENT

\* Sums over the contributors of an info.
AmountOf(cs)   == Sum4([i \in DOMAIN cs |-> cs[i].amount])
ReservedOf(cs) == Sum4([i \in DOMAIN cs |-> cs[i].reserved])
total_num_locked_contributions(info) ==
  Sum4([i \in DOMAIN info.contributors |-> Len(info.contributors[i].locked_contributions)])

KeyImagesOf(info) ==
  UNION {{info.contributors[i].locked_contributions[j].key_image :
            j \in DOMAIN info.contributors[i].locked_contributions} :
         i \in DOMAIN info.contributors}

\* select_winner's order: i has waited longer for a reward than j.
WaitsLonger(i, j) ==
  \/ i.last_reward_block_height < j.last_reward_block_height
  \/ /\ i.last_reward_block_height = j.last_reward_block_height
     /\ i.last_reward_transaction_index < j.last_reward_transaction_index
------------------------------------------------------------------------------
(***************************************************************************)
(* get_contribution: from version 11 an output counts when its key image   *)
(* proof is in the extra, before that when it is time-locked long enough.  *)
(***************************************************************************)
HasContribution(hf_version, tx) ==
  /\ tx.contribution # None
  /\ hf_version >= 11 => tx.contribution.proofs

get_contribution(hf_version, tx, block_height) ==
  LET c == tx.contribution
  IN  [address |-> c.address,
       transferred |->
         IF hf_version >= 11 \/ c.unlock_time >= block_height + LOCK_BLOCKS
         THEN Sum4(c.outs) ELSE 0,
       locked_contributions |->
         IF hf_version >= 11
         THEN [i \in DOMAIN c.outs |-> [key_image |-> <<tx.id, i>>, amount |-> c.outs[i]]]
         ELSE <<>>]

is_registration_tx(hf_version, tx, block_height) ==
  LET r == tx.registration
      c == get_contribution(hf_version, tx, block_height)
      is_new == \A i \in DOMAIN r.addresses : r.addresses[i] # c.address
  IN  /\ r # None /\ tx.node # None
      /\ Len(r.portions) = Len(r.addresses) /\ Len(r.portions) > 0
      /\ check_full_node_portions(hf_version, r.portions)
      /\ r.authentic
      /\ HasContribution(hf_version, tx)
      /\ c.transferred >= get_min_node_contribution(hf_version, STAKING_REQUIREMENT, 0, 0)
      /\ Len(r.addresses) + (IF is_new THEN 1 ELSE 0) <= MAX_NUMBER_OF_CONTRIBUTORS
      /\ \A i, j \in DOMAIN r.addresses : r.addresses[i] = r.addresses[j] => i = j

\* The info is_registration_tx fills in: every reserved spot, nothing paid yet.
RegisteredInfo(hf_version, tx, block_height, index) ==
  LET r  == tx.registration
      cs == [i \in DOMAIN r.addresses |->
               [version |-> MinInfoVersion(hf_version), amount |-> 0,
                reserved |-> portions_to_amount(r.portions[i], STAKING_REQUIREMENT),
                address |-> r.addresses[i], locked_contributions |-> <<>>]]
  IN  [version |-> MinInfoVersion(hf_version),
       registration_height |-> block_height,
       requested_unlock_height |-> KEY_IMAGE_AWAITING_UNLOCK_HEIGHT,
       last_reward_block_height |-> block_height,
       last_reward_transaction_index |-> index,
       contributors |-> cs,
       total_contributed |-> 0,
       total_reserved |-> ReservedOf(cs),
       swarm_id |-> QUEUE_SWARM_ID]
------------------------------------------------------------------------------
(***************************************************************************)
(* process_contribution_tx, for the info of a registered node.             *)
(***************************************************************************)
IsContributor(info, address) ==
  \E i \in DOMAIN info.contributors : info.contributors[i].address = address

AcceptsContribution(hf_version, info, parsed) ==
  /\ ~is_fully_funded(info)
  /\ ~IsContributor(info, parsed.address) =>
       /\ Len(info.contributors) < MAX_NUMBER_OF_CONTRIBUTORS
       /\ parsed.transferred >=
            get_min_node_contribution(hf_version, STAKING_REQUIREMENT, info.total_reserved,
                                      total_num_locked_contributions(info))

\* The contributors with a spot for `address`: its own, or a new one at the end.
WithSpot(hf_version, cs, address) ==
  IF \E i \in DOMAIN cs : cs[i].address = address THEN cs
  ELSE Append(cs, [version |-> MinInfoVersion(hf_version), amount |-> 0, reserved |-> 0,
                   address |-> address, locked_contributions |-> <<>>])

\* Key images are locked until the node has MAX_LOCKED_CONTRIBUTIONS of them.
LockedAfter(hf_version, contributor, info, parsed) ==
  LET room == MAX_LOCKED_CONTRIBUTIONS - total_num_locked_contributions(info)
      new  == parsed.locked_contributions
  IN  IF hf_version < 11 THEN contributor.locked_contributions
      ELSE contributor.locked_contributions
             \o SubSeq(new, 1, IF Len(new) <= room THEN Len(new) ELSE room)

\* can_increase_reserved_by, max_amount and their differences are words in the
\* code; they never wrap (StakeAccounting), so they are plain differences here.
ContributedInfo(hf_version, info, parsed, block_height, index) ==
  LET cs         == WithSpot(hf_version, info.contributors, parsed.address)
      k          == CHOOSE i \in DOMAIN cs : cs[i].address = parsed.address
      c          == cs[k]
      max_amount == c.reserved + (STAKING_REQUIREMENT - info.total_reserved)
      spare      == max_amount - c.amount
      paid       == IF spare < parsed.transferred THEN spare ELSE parsed.transferred
      amount     == c.amount + paid
      reserved   == IF amount > c.reserved THEN amount ELSE c.reserved
  IN  [info EXCEPT
         !.contributors = [cs EXCEPT ![k] =
            [c EXCEPT !.amount = amount, !.reserved = reserved,
                      !.locked_contributions = LockedAfter(hf_version, c, info, parsed)]],
         !.total_contributed = @ + paid,
         !.total_reserved = @ + (reserved - c.reserved),
         !.last_reward_block_height = block_height,
         !.last_reward_transaction_index = index]
------------------------------------------------------------------------------
(***************************************************************************)
(* The serialised form of an info, read back: fields newer than its        *)
(* version are not written and come back as their defaults.                *)
(***************************************************************************)
SerializedInfo(info) ==
  [info EXCEPT
     !.swarm_id = IF info.version >= 1 THEN @ ELSE QUEUE_SWARM_ID,
     !.contributors = [i \in DOMAIN info.contributors |->
        [info.contributors[i] EXCEPT
           !.locked_contributions = IF info.contributors[i].version >= 2 THEN @ ELSE <<>>]]]
------------------------------------------------------------------------------
KeyImages == TxIds \X (1..MAX_STAKING_OUTPUTS)

Contribution == [key_image : KeyImages, amount : Nat]

Contributor == [version : 0..2, amount : Nat, reserved : Nat, address : Addresses,
                locked_contributions : Seq(Contribution)]

Info == [version : 0..2,
         registration_height : Nat,
         requested_unlock_height : Nat,
         last_reward_block_height : Nat,
         last_reward_transaction_index : Nat,
         contributors : Seq(Contributor),
         total_contributed : Nat,
         total_reserved : Nat,
         swarm_id : SwarmIds]

ASSUME NoneAssumption == None \notin Info

(***************************************************************************)
(* The accounts of one node: the totals are the sums over its contributors,*)
(* nobody pays more than what is reserved for them, no more than the       *)
(* staking requirement is reserved, and there is a bounded number of       *)
(* contributors and of locked key images.                                  *)
(***************************************************************************)
StakeBalanced(info) ==
  /\ Len(info.contributors) <= MAX_NUMBER_OF_CONTRIBUTORS
  /\ \A i \in DOMAIN info.contributors :
       info.contributors[i].amount <= info.contributors[i].reserved
  /\ info.total_contributed = AmountOf(info.contributors)
  /\ info.total_reserved = ReservedOf(info.contributors)
  /\ info.total_reserved <= STAKING_REQUIREMENT
  /\ total_num_locked_contributions(info) <= MAX_LOCKED_CONTRIBUTIONS
==============================================================================
