--------------------------- MODULE RegistrationArgs ---------------------------
(***************************************************************************)
(* convert_registration_args: the daemon and the wallet turn the portions  *)
(* an operator gives for each contributor into the portions of a           *)
(* registration.  A contributor who is short of the minimum by no more     *)
(* than dust takes the difference from what others have in excess.         *)
(*                                                                         *)
(* The addresses and the operator's cut are not modelled: they are parsed  *)
(* and passed on.  Contributors are numbered from 1.                       *)
(***************************************************************************)
EXTENDS FullNodeRules

CONSTANTS
  hf_version,
  Args,          \* the sequences of portions that are given
  FUDGE_FACTOR

VARIABLES
  args,            \* the portions as given
  portions,        \* addr_to_portions
  excess,          \* excess_portions
  i,               \* the contributor being looked at
  needed,          \* portions it still lacks
  sub_index,       \* the contributor that may have some
  stolen,          \* portions_to_steal
  portions_left, total_reserved,
  result,          \* result.portions
  status

vars == <<args, portions, excess, i, needed, sub_index, stolen, portions_left,
          total_reserved, result, status>>

ASSUME ArgsAssumption ==
  /\ hf_version \in Nat /\ FUDGE_FACTOR \in Nat
  /\ \A ps \in Args : /\ ps \in Seq(0..UINT64_MAX)
                      /\ Len(ps) \in 1..MAX_NUMBER_OF_CONTRIBUTORS

DUST == (STAKING_PORTIONS \div STAKING_REQUIREMENT) * FUDGE_FACTOR

AmountBefore(ps, k) ==
  Sum4([j \in 1..(k - 1) |-> portions_to_amount(ps[j], STAKING_REQUIREMENT)]) % UINT64

\* min_contribution_portions: the minimum of contributor k, as the arguments stand.
MinContributionPortions(ps, k) ==
  get_min_node_contribution_in_portions(hf_version, STAKING_REQUIREMENT, AmountBefore(ps, k), k - 1)

\* Mutant of ExcessPortions: everything is in excess.
ExcessIsAll(ps) == ps

\* What each contributor has beyond its minimum.
ExcessPortions(ps) ==
  [k \in DOMAIN ps |-> IF ps[k] > MinContributionPortions(ps, k)
                       THEN ps[k] - MinContributionPortions(ps, k) ELSE 0]

\* Mutant of min_portions: as if every contributor were the first.
MinPortionsOfFirst ==
  get_min_node_contribution_in_portions(hf_version, STAKING_REQUIREMENT, total_reserved, 0)

min_portions ==
  get_min_node_contribution_in_portions(hf_version, STAKING_REQUIREMENT, total_reserved, i - 1)

Short == portions[i] < min_portions
------------------------------------------------------------------------------
Init ==
  /\ args \in Args
  /\ portions = args /\ excess = ExcessPortions(args)
  /\ i = 1 /\ needed = 0 /\ sub_index = 0 /\ stolen = 0
  /\ portions_left = STAKING_PORTIONS /\ total_reserved = 0
  /\ result = <<>> /\ status = "contributor"

\* A contributor who lacks more than dust is passed over.
SkipContributor ==
  /\ status = "contributor" /\ i <= Len(portions)
  /\ Short /\ min_portions - portions[i] > DUST
  /\ i' = i + 1
  /\ UNCHANGED <<args, portions, excess, needed, sub_index, stolen, portions_left,
                 total_reserved, result, status>>

BeginStealing ==
  /\ status = "contributor" /\ i <= Len(portions)
  /\ Short /\ min_portions - portions[i] <= DUST
  /\ needed' = min_portions - portions[i] /\ sub_index' = 1 /\ status' = "stealing"
  /\ UNCHANGED <<args, portions, excess, i, stolen, portions_left, total_reserved, result>>

HasDonor == sub_index <= Len(portions) /\ needed > 0

\* result.portions[sub_index] -= n: out of the vector's range the behaviour is
\* undefined.  An empty vector has no storage and the program stops; otherwise
\* it stops or writes elsewhere.
TakeFromResult(n) ==
  IF sub_index \in DOMAIN result
  THEN result' = [result EXCEPT ![sub_index] = Sub64(@, n)] /\ status' = status
  ELSE result' = result /\ status' \in (IF result = <<>> THEN {"crashed"} ELSE {status, "crashed"})

Steal ==
  /\ status = "stealing" /\ HasDonor
  /\ sub_index # i /\ excess[sub_index] > 0
  /\ LET n == IF needed < excess[sub_index] THEN needed ELSE excess[sub_index]
     IN  /\ stolen' = n
         /\ portions' = [portions EXCEPT ![i] = Add64(@, n)]
         /\ excess' = [excess EXCEPT ![sub_index] = @ - n]
         /\ needed' = needed - n
         /\ TakeFromResult(n)
  /\ sub_index' = sub_index + 1
  /\ UNCHANGED <<args, i, portions_left, total_reserved>>

\* Mutant of NextDonor: the loop does not advance past the contributor itself.
NextDonorStays ==
  /\ status = "stealing" /\ HasDonor
  /\ sub_index = i \/ excess[sub_index] = 0
  /\ UNCHANGED vars

NextDonor ==
  /\ status = "stealing" /\ HasDonor
  /\ sub_index = i \/ excess[sub_index] = 0
  /\ sub_index' = sub_index + 1
  /\ UNCHANGED <<args, portions, excess, i, needed, stolen, portions_left, total_reserved,
                 result, status>>

\* What nobody had to give is added, unless all the places are taken.
EndStealing ==
  /\ status = "stealing" /\ ~HasDonor
  /\ portions' = IF needed > 0 /\ Len(portions) < MAX_LOCKED_CONTRIBUTIONS
                 THEN [portions EXCEPT ![i] = Add64(@, needed)] ELSE portions
  /\ status' = "settling"
  /\ UNCHANGED <<args, excess, i, needed, sub_index, stolen, portions_left, total_reserved, result>>

Settles == i <= Len(portions) /\ (status = "settling" \/ (status = "contributor" /\ ~Short))

\* Mutant of Refused: without the comparison with what is left.
RefusedShort == Short \/ min_portions = UINT64_MAX

Refused == Short \/ Sub64(portions[i], stolen) > portions_left \/ min_portions = UINT64_MAX

Refuse ==
  /\ Settles /\ Refused
  /\ status' = "error"
  /\ UNCHANGED <<args, portions, excess, i, needed, sub_index, stolen, portions_left,
                 total_reserved, result>>

Accept ==
  /\ Settles /\ ~Refused
  /\ portions_left' = Add64(Sub64(portions_left, portions[i]), stolen)
  /\ total_reserved' = Add64(total_reserved, portions_to_amount(portions[i], STAKING_REQUIREMENT))
  /\ result' = Append(result, portions[i])
  /\ i' = i + 1 /\ needed' = 0 /\ sub_index' = 0 /\ stolen' = 0 /\ status' = "contributor"
  /\ UNCHANGED <<args, portions, excess>>

Succeed ==
  /\ status = "contributor" /\ i > Len(portions)
  /\ status' = "success"
  /\ UNCHANGED <<args, portions, excess, i, needed, sub_index, stolen, portions_left,
                 total_reserved, result>>

Next == SkipContributor \/ BeginStealing \/ Steal \/ NextDonor \/ EndStealing
          \/ Refuse \/ Accept \/ Succeed

Spec == Init /\ [][Next]_vars
FairSpec == Spec /\ WF_vars(Next)   \* the conversion is one call
------------------------------------------------------------------------------
\* The type of every variable.  The differences of the conversion do not wrap:
\* in particular no more than the whole stake is ever left to give out.
TypeOK ==
  LET Word == 0..UINT64_MAX IN
  /\ args \in Args /\ portions \in Seq(Word) /\ excess \in Seq(Word) /\ result \in Seq(Word)
  /\ i \in 1..(Len(args) + 1) /\ sub_index \in 0..(Len(args) + 1)
  /\ needed \in 0..DUST /\ stolen \in 0..DUST
  /\ portions_left \in 0..STAKING_PORTIONS /\ total_reserved \in Word
  /\ status \in {"contributor", "stealing", "settling", "success", "error", "crashed"}

\* Nobody is made short by what others take: as long as no contributor was passed
\* over, a contributor that met its minimum when the excess was worked out still
\* has it, and one that did not still has what it was given.
DonorKeepsMinimum ==
  Len(result) = i - 1 =>
    \A k \in DOMAIN result :
      result[k] >= args[k] \/ result[k] >= MinContributionPortions(args, k)

\* The loop over the contributors and the loop over the donors come to an end.
ConversionEnds == <>(status \in {"success", "error", "crashed"})

\* How far a contributor falls short of the minimum that check_full_node_portions asks.
ShortOfRules(k) ==
  get_min_node_contribution(hf_version, STAKING_PORTIONS, ReservedBefore(result, k), k - 1) - result[k]

\* The conversion takes minimums in coins and check_full_node_portions, on the chain, in
\* portions.  Portions that are taken over as they were given are refused by the chain for
\* rounding alone: nobody is short by as much as the portions of one atomic unit.
ShortByRoundingOnly ==
  status = "success" /\ result = args =>
    \A k \in DOMAIN result : ShortOfRules(k) < STAKING_PORTIONS \div STAKING_REQUIREMENT
==============================================================================
