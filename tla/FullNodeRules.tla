---------------------------- MODULE FullNodeRules ----------------------------
(***************************************************************************)
(* The arithmetic of staking: src/cryptonote_core/full_node_rules.cpp and  *)
(* the payout split of full_node_list.cpp.  Amounts and portions are       *)
(* unsigned words, so sums and differences wrap modulo UINT64; the 128 bit *)
(* products of mul128/div128_64 do not.                                    *)
(***************************************************************************)
EXTENDS Integers, Sequences

CONSTANTS
  UINT64,             \* number of values of an unsigned word (2^64)
  STAKING_PORTIONS,   \* the portions that make a whole stake (2^64 - 4)
  STAKING_REQUIREMENT \* get_staking_requirement of the network

ASSUME RulesAssumption ==
  /\ UINT64 \in Nat /\ STAKING_PORTIONS \in Nat /\ STAKING_REQUIREMENT \in Nat
  /\ 0 < STAKING_PORTIONS /\ STAKING_PORTIONS < UINT64 - 1
  /\ 4 <= STAKING_REQUIREMENT /\ STAKING_REQUIREMENT < UINT64

MAX_NUMBER_OF_CONTRIBUTORS == 4
MAX_KEY_IMAGES_PER_CONTRIBUTOR == 1
MAX_LOCKED_CONTRIBUTIONS ==
  MAX_NUMBER_OF_CONTRIBUTORS * MAX_KEY_IMAGES_PER_CONTRIBUTOR
UINT64_MAX == UINT64 - 1

Add64(a, b) == (a + b) % UINT64
Sub64(a, b) == (a - b) % UINT64

\* The sum of a sequence of at most four numbers (every sequence the rules add
\* up has at most MAX_NUMBER_OF_CONTRIBUTORS elements).
ElementOr0(s, i) == IF i \in DOMAIN s THEN s[i] ELSE 0
Sum4(s) == ElementOr0(s, 1) + ElementOr0(s, 2) + ElementOr0(s, 3) + ElementOr0(s, 4)
------------------------------------------------------------------------------
portions_to_amount(portions, staking_requirement) ==
  ((staking_requirement * portions) \div STAKING_PORTIONS) % UINT64

get_min_node_contribution_pre_v11(staking_requirement, total_reserved) ==
  LET needed  == Sub64(staking_requirement, total_reserved)
      quarter == staking_requirement \div MAX_NUMBER_OF_CONTRIBUTORS
  IN  IF needed < quarter THEN needed ELSE quarter

get_min_node_contribution(version, staking_requirement, total_reserved, num_contributions) ==
  IF version < 11
  THEN get_min_node_contribution_pre_v11(staking_requirement, total_reserved)
  ELSE IF MAX_LOCKED_CONTRIBUTIONS <= num_contributions
       THEN UINT64_MAX
       ELSE Sub64(staking_requirement, total_reserved)
              \div (MAX_LOCKED_CONTRIBUTIONS - num_contributions)

\* `reserved` before portion i: the wrapped sum of the portions ahead of it.
ReservedBefore(portions, i) == Sum4(SubSeq(portions, 1, i - 1)) % UINT64

check_full_node_portions(hf_version, portions) ==
  /\ Len(portions) <= MAX_NUMBER_OF_CONTRIBUTORS
  /\ \A i \in DOMAIN portions :
       portions[i] >= get_min_node_contribution(hf_version, STAKING_PORTIONS,
                                                ReservedBefore(portions, i), i - 1)
  /\ ReservedBefore(portions, Len(portions) + 1) <= STAKING_PORTIONS

\* The product amount * STAKING_PORTIONS is a 128 bit pair <<hi, lo>>;
\* staking_requirement - 1 is added with its carry, then divided.
get_portions_to_make_amount(staking_requirement, amount) ==
  LET product == amount * STAKING_PORTIONS
      lo      == product % UINT64
      hi      == product \div UINT64
      carry   == IF lo > UINT64_MAX - (staking_requirement - 1) THEN 1 ELSE 0
      sum     == (hi + carry) * UINT64 + Add64(lo, staking_requirement - 1)
  IN  (sum \div staking_requirement) % UINT64

get_min_node_contribution_in_portions(version, staking_requirement, total_reserved, num_contributions) ==
  LET amount == get_min_node_contribution(version, staking_requirement,
                                          total_reserved, num_contributions)
  IN  IF amount = UINT64_MAX THEN UINT64_MAX
      ELSE get_portions_to_make_amount(staking_requirement, amount)

\* The portions of the block reward of each contributor of the winner, in the
\* order of `amounts`; the operator is the first contributor.
get_winner_portions(amounts, portions_for_operator) ==
  LET remaining_portions == Sub64(STAKING_PORTIONS, portions_for_operator)
      share(i) == ((amounts[i] * remaining_portions) \div STAKING_REQUIREMENT) % UINT64
  IN  [i \in DOMAIN amounts |->
         IF i = 1 THEN Add64(share(i), portions_for_operator) ELSE share(i)]
==============================================================================
