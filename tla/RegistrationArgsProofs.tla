----------------------- MODULE RegistrationArgsProofs -----------------------
(***************************************************************************)
(* The counters of convert_registration_args stay in their ranges (what is *)
(* left to give never wraps below zero, what is taken never exceeds the    *)
(* dust), and what it takes from one contributor for another never costs   *)
(* the donor its minimum: for any staking requirement, fudge factor and    *)
(* word size, and whatever portions the operator gives.                    *)
(***************************************************************************)
EXTENDS RegistrationArgs, TLAPS

(* A uint64_t. *)
Word == 0..UINT64_MAX

(* Words are the numbers up to the largest. *)
LEMMA WordIs == UINT64_MAX \in Nat /\ \A x : x \in Word <=> x \in Nat /\ x <= UINT64_MAX
BY RulesAssumption DEF Word, UINT64_MAX

(* Sums and differences that stay within a word do not wrap. *)
LEMMA PlainWords ==
  ASSUME NEW a \in Word, NEW b \in Word
  PROVE  /\ Add64(a, b) \in Word /\ Sub64(a, b) \in Word
         /\ a + b <= UINT64_MAX => Add64(a, b) = a + b
         /\ b <= a => Sub64(a, b) = a - b
         /\ \A c \in Word : b <= a + c /\ c <= b => Add64(Sub64(a, b), c) = a - (b - c)
PROOF
<1>1. UINT64 \in Nat \ {0}
  BY RulesAssumption
<1>2. \A x \in Int : x % UINT64 \in Word
  BY <1>1 DEF Word, UINT64_MAX
<1>3. \A x \in Word : x % UINT64 = x
  BY <1>1 DEF Word, UINT64_MAX
<1>4. \A x \in Word : (x + UINT64) % UINT64 = x /\ (x - UINT64) % UINT64 = x
  BY <1>1 DEF Word, UINT64_MAX
<1>5. a \in Int /\ b \in Int /\ a + b \in Int /\ a - b \in Int
  BY <1>1 DEF Word, UINT64_MAX
<1>6. ASSUME NEW c \in Word, b <= a + c, c <= b PROVE Add64(Sub64(a, b), c) = a - (b - c)
  <2>1. a - (b - c) \in Word
    BY <1>1, <1>6 DEF Word, UINT64_MAX
  <2>2. CASE b <= a
    <3>1. Sub64(a, b) = a - b
      BY <1>1, <1>3, <2>2 DEF Sub64, Word, UINT64_MAX
    <3> QED
      BY <1>1, <1>3, <2>1, <3>1 DEF Add64, Word, UINT64_MAX
  <2>3. CASE a < b
    <3>1. a - b + UINT64 \in Word
      BY <1>1, <2>3 DEF Word, UINT64_MAX
    <3>2. a - b = (a - b + UINT64) - UINT64
      BY <1>1, <1>5
    <3>3. Sub64(a, b) = a - b + UINT64
      BY <1>4, <3>1, <3>2 DEF Sub64
    <3>4. (a - b + UINT64) + c = (a - (b - c)) + UINT64
      BY <1>1, <1>6 DEF Word, UINT64_MAX
    <3> QED
      BY <1>4, <2>1, <3>3, <3>4 DEF Add64
  <2> QED
    BY <1>5, <2>2, <2>3
<1>7. a + b <= UINT64_MAX => a + b \in Word
  BY <1>1 DEF Word, UINT64_MAX
<1>8. b <= a => a - b \in Word
  BY <1>1 DEF Word, UINT64_MAX
<1> QED
  BY <1>2, <1>3, <1>5, <1>6, <1>7, <1>8 DEF Add64, Sub64

(* A minimum in portions is a word, whatever has been reserved before. *)
LEMMA MinimumIsWord ==
  ASSUME NEW total \in Word, NEW n \in Nat
  PROVE  get_min_node_contribution_in_portions(hf_version, STAKING_REQUIREMENT, total, n) \in Word
PROOF
<1>1. /\ UINT64 \in Nat \ {0} /\ STAKING_REQUIREMENT \in Nat \ {0} /\ STAKING_PORTIONS \in Nat \ {0}
      /\ STAKING_REQUIREMENT \in Word /\ hf_version \in Nat
  BY RulesAssumption, ArgsAssumption DEF Word, UINT64_MAX
<1>2. \A x \in Int : x % UINT64 \in Word
  BY <1>1 DEF Word, UINT64_MAX
<1>3. \A x \in Nat : \A d \in Nat \ {0} : x \div d \in Nat
  OBVIOUS
<1>4. UINT64_MAX \in Word /\ Word \subseteq Nat
  BY <1>1 DEF Word, UINT64_MAX
<1>5. Sub64(STAKING_REQUIREMENT, total) \in Nat
  BY <1>1, <1>4, PlainWords
<1> DEFINE amount == get_min_node_contribution(hf_version, STAKING_REQUIREMENT, total, n)
<1>6. amount \in Nat
  <2>1. get_min_node_contribution_pre_v11(STAKING_REQUIREMENT, total) \in Nat
    BY <1>1, <1>3, <1>5 DEF get_min_node_contribution_pre_v11, MAX_NUMBER_OF_CONTRIBUTORS
  <2>2. ASSUME ~(MAX_LOCKED_CONTRIBUTIONS <= n)
        PROVE  Sub64(STAKING_REQUIREMENT, total) \div (MAX_LOCKED_CONTRIBUTIONS - n) \in Nat
    <3>1. MAX_LOCKED_CONTRIBUTIONS - n \in Nat \ {0}
      BY <2>2 DEF MAX_LOCKED_CONTRIBUTIONS, MAX_NUMBER_OF_CONTRIBUTORS, MAX_KEY_IMAGES_PER_CONTRIBUTOR
    <3> QED
      BY <1>3, <1>5, <3>1
  <2> QED
    BY <1>4, <2>1, <2>2 DEF get_min_node_contribution
<1> HIDE DEF amount
<1>7. get_portions_to_make_amount(STAKING_REQUIREMENT, amount) \in Word
  <2> DEFINE product == amount * STAKING_PORTIONS
             lo == product % UINT64
             hi == product \div UINT64
             carry == IF lo > UINT64_MAX - (STAKING_REQUIREMENT - 1) THEN 1 ELSE 0
             sum == (hi + carry) * UINT64 + Add64(lo, STAKING_REQUIREMENT - 1)
  <2>1. product \in Nat
    BY <1>1, <1>6
  <2>2. lo \in Word /\ hi \in Nat
    BY <1>1, <1>2, <1>3, <2>1
  <2>3. carry \in Nat
    OBVIOUS
  <2>4. Add64(lo, STAKING_REQUIREMENT - 1) \in Nat
    <3>1. STAKING_REQUIREMENT - 1 \in Word
      BY <1>1 DEF Word, UINT64_MAX
    <3> QED
      BY <1>4, <2>2, <3>1, PlainWords
  <2>5. sum \in Nat
    <3> HIDE DEF hi, carry, lo
    <3>1. hi + carry \in Nat
      BY <2>2, <2>3
    <3>2. (hi + carry) * UINT64 \in Nat
      BY <1>1, <3>1
    <3> QED
      BY <2>4, <3>2
  <2>6. get_portions_to_make_amount(STAKING_REQUIREMENT, amount) = (sum \div STAKING_REQUIREMENT) % UINT64
    BY DEF get_portions_to_make_amount
  <2> HIDE DEF sum
  <2>7. sum \div STAKING_REQUIREMENT \in Nat
    BY <1>1, <1>3, <2>5
  <2> QED
    BY <1>2, <2>6, <2>7
<1> QED
  BY <1>4, <1>7 DEF get_min_node_contribution_in_portions, amount

(* So is what a portion is worth. *)
LEMMA AmountIsWord ==
  ASSUME NEW p \in Word
  PROVE  portions_to_amount(p, STAKING_REQUIREMENT) \in Word
PROOF
<1>1. /\ UINT64 \in Nat \ {0} /\ STAKING_REQUIREMENT \in Nat /\ STAKING_PORTIONS \in Nat \ {0}
  BY RulesAssumption
<1>2. p \in Nat
  BY WordIs
<1>3. STAKING_REQUIREMENT * p \in Nat
  BY <1>1, <1>2
<1>4. (STAKING_REQUIREMENT * p) \div STAKING_PORTIONS \in Nat
  BY <1>1, <1>3
<1>5. \A x \in Nat : x % UINT64 \in Word
  BY <1>1 DEF Word, UINT64_MAX
<1> QED
  BY <1>4, <1>5 DEF portions_to_amount

(* What the arguments are, and the minimums and excesses computed from them. *)
LEMMA ArgsAreWords ==
  ASSUME NEW ps \in Args
  PROVE  /\ ps \in Seq(Word) /\ Len(ps) \in Nat
         /\ \A k \in DOMAIN ps : MinContributionPortions(ps, k) \in Word
         /\ ExcessPortions(ps) \in Seq(Word) /\ Len(ExcessPortions(ps)) = Len(ps)
         /\ \A k \in DOMAIN ps : ExcessPortions(ps)[k] \in 0..ps[k]
PROOF
<1>1. ps \in Seq(Word) /\ Len(ps) \in Nat /\ DOMAIN ps = 1..Len(ps)
  BY ArgsAssumption DEF Word
<1>2. \A p \in Word : portions_to_amount(p, STAKING_REQUIREMENT) \in Word
  BY AmountIsWord
<1>3. ASSUME NEW k \in DOMAIN ps PROVE MinContributionPortions(ps, k) \in Word
  <2> DEFINE before == [j \in 1..(k - 1) |-> portions_to_amount(ps[j], STAKING_REQUIREMENT)]
  <2>1. k \in Nat /\ k - 1 \in Nat /\ \A j \in 1..(k - 1) : ps[j] \in Word
    BY <1>1
  <2>2. \A j \in DOMAIN before : before[j] \in Nat
    BY <1>2, <2>1 DEF Word
  <2>3. \A j \in Nat : ElementOr0(before, j) \in Nat
    BY <2>2 DEF ElementOr0
  <2> HIDE DEF before
  <2>4. Sum4(before) \in Nat
    BY <2>3 DEF Sum4
  <2>5. AmountBefore(ps, k) \in Word
    BY <2>4, RulesAssumption DEF AmountBefore, before, Word, UINT64_MAX
  <2> QED
    BY <2>1, <2>5, MinimumIsWord DEF MinContributionPortions
<1>4. ASSUME NEW k \in DOMAIN ps
      PROVE  ExcessPortions(ps)[k] \in 0..ps[k] /\ ExcessPortions(ps)[k] \in Word
  <2>1. ps[k] \in Word
    BY <1>1
  <2>2. ExcessPortions(ps)[k] = IF ps[k] > MinContributionPortions(ps, k)
                                THEN ps[k] - MinContributionPortions(ps, k) ELSE 0
    BY DEF ExcessPortions
  <2> QED
    BY <1>3, <2>1, <2>2, RulesAssumption DEF Word, UINT64_MAX
<1>5. DOMAIN ExcessPortions(ps) = 1..Len(ps) /\ ExcessPortions(ps) = [k \in DOMAIN ps |-> ExcessPortions(ps)[k]]
  BY <1>1 DEF ExcessPortions
<1>6. ExcessPortions(ps) \in Seq(Word) /\ Len(ExcessPortions(ps)) = Len(ps)
  BY <1>1, <1>4, <1>5
<1> QED
  BY <1>1, <1>3, <1>4, <1>6
------------------------------------------------------------------------------
(* The variables are words; the contributor being served and its donors are *)
(* contributors; and there is never more in the result than was looked at.  *)
ArgsTypes ==
  /\ args \in Args
  /\ portions \in Seq(Word) /\ Len(portions) = Len(args)
  /\ excess \in Seq(Word) /\ Len(excess) = Len(args)
  /\ result \in Seq(Word) /\ Len(result) <= i - 1
  /\ i \in 1..(Len(args) + 1) /\ sub_index \in 0..(Len(args) + 1)
  /\ needed \in 0..DUST /\ stolen \in 0..DUST
  /\ portions_left \in 0..STAKING_PORTIONS /\ total_reserved \in Word
  /\ status \in {"contributor", "stealing", "settling", "success", "error", "crashed"}

(* A contributor that is being served has its minimum once it gets what it  *)
(* needs, so nothing given to it wraps; what it took last is part of what   *)
(* it has; between contributors nothing is being taken.                     *)
Serving ==
  /\ status = "contributor" => stolen = 0
  /\ status \in {"stealing", "settling"} => i <= Len(args) /\ stolen <= portions[i]
  /\ status = "stealing" => sub_index > 0 /\ portions[i] + needed = min_portions

(* Nobody has less than was given for them, or more in excess than at the   *)
(* start; and as long as nobody was passed over, a contributor has lost no  *)
(* more than its excess went down.                                          *)
Accounts ==
  /\ \A k \in DOMAIN args : portions[k] >= args[k]
  /\ \A k \in DOMAIN args : excess[k] <= ExcessPortions(args)[k]
  /\ Len(result) = i - 1 =>
       \A k \in DOMAIN result : result[k] + ExcessPortions(args)[k] >= args[k] + excess[k]

(* The inductive invariant of the conversion. *)
ArgsInv == ArgsTypes /\ Serving /\ Accounts

(* What the steps below use of the types. *)
LEMMA ArgsFacts ==
  ASSUME ArgsInv
  PROVE  /\ UINT64_MAX \in Nat /\ STAKING_PORTIONS \in Word /\ Word \subseteq Nat /\ DUST \in Nat
         /\ Len(args) \in Nat /\ i \in Nat /\ Len(result) \in Nat
         /\ DOMAIN args = 1..Len(args) /\ DOMAIN portions = 1..Len(args) /\ DOMAIN excess = 1..Len(args)
         /\ DOMAIN result = 1..Len(result)
         /\ \A k \in 1..Len(args) : args[k] \in Word /\ portions[k] \in Word /\ excess[k] \in Word
         /\ \A k \in 1..Len(args) : ExcessPortions(args)[k] \in 0..args[k]
         /\ \A k \in DOMAIN result : result[k] \in Word
         /\ min_portions \in Word
PROOF
<1>1. UINT64_MAX \in Nat /\ STAKING_PORTIONS \in Word /\ Word \subseteq Nat
  BY RulesAssumption DEF Word, UINT64_MAX
<1>2. DUST \in Nat
  <2>1. STAKING_PORTIONS \div STAKING_REQUIREMENT \in Nat
    BY RulesAssumption
  <2> QED
    BY <2>1, ArgsAssumption DEF DUST
<1>3. args \in Seq(Word) /\ Len(args) \in Nat /\ \A k \in DOMAIN args : ExcessPortions(args)[k] \in 0..args[k]
  BY ArgsAreWords DEF ArgsInv, ArgsTypes
<1>4. i \in Nat /\ i - 1 \in Nat /\ total_reserved \in Word
  BY <1>3 DEF ArgsInv, ArgsTypes
<1>5. min_portions \in Word
  BY <1>4, MinimumIsWord DEF min_portions
<1>6. /\ DOMAIN args = 1..Len(args) /\ DOMAIN portions = 1..Len(args) /\ DOMAIN excess = 1..Len(args)
      /\ \A k \in 1..Len(args) : args[k] \in Word /\ portions[k] \in Word /\ excess[k] \in Word
  BY <1>3 DEF ArgsInv, ArgsTypes
<1>7. Len(result) \in Nat /\ DOMAIN result = 1..Len(result) /\ \A k \in DOMAIN result : result[k] \in Word
  BY DEF ArgsInv, ArgsTypes
<1> QED
  BY <1>1, <1>2, <1>3, <1>4, <1>5, <1>6, <1>7, Zenon

(* It holds when the loop over the contributors begins. *)
LEMMA ArgsInvInit == Init => ArgsInv
PROOF
<1> SUFFICES ASSUME Init PROVE ArgsInv
  OBVIOUS
<1>1. /\ args \in Args /\ portions = args /\ excess = ExcessPortions(args)
      /\ i = 1 /\ needed = 0 /\ sub_index = 0 /\ stolen = 0
      /\ portions_left = STAKING_PORTIONS /\ total_reserved = 0
      /\ result = <<>> /\ status = "contributor"
  BY DEF Init
<1>2. /\ args \in Seq(Word) /\ Len(args) \in Nat
      /\ ExcessPortions(args) \in Seq(Word) /\ Len(ExcessPortions(args)) = Len(args)
  BY <1>1, ArgsAreWords
<1>3. 0 \in Word /\ STAKING_PORTIONS \in Nat /\ Word \subseteq Nat
  BY RulesAssumption DEF Word, UINT64_MAX
<1>4. DUST \in Nat
  <2>1. STAKING_PORTIONS \div STAKING_REQUIREMENT \in Nat
    BY RulesAssumption
  <2> QED
    BY <2>1, ArgsAssumption DEF DUST
<1>5. ArgsTypes
  BY <1>1, <1>2, <1>3, <1>4 DEF ArgsTypes
<1>6. Serving
  BY <1>1 DEF Serving
<1>7. Accounts
  <2>1. ASSUME NEW k \in DOMAIN args PROVE args[k] >= args[k]
    <3>1. args[k] \in Word
      BY <1>2
    <3>2. args[k] \in Nat
      BY <3>1, WordIs
    <3> QED
      BY <3>2
  <2>2. ASSUME NEW k \in DOMAIN args PROVE ExcessPortions(args)[k] <= ExcessPortions(args)[k]
    <3>1. ExcessPortions(args)[k] \in 0..args[k]
      BY <1>1, ArgsAreWords
    <3> QED
      BY <3>1
  <2> QED
    BY <1>1, <2>1, <2>2 DEF Accounts
<1> QED
  BY <1>5, <1>6, <1>7 DEF ArgsInv

(* One donor gives: the loop body over sub_index. *)
LEMMA StealKeeps == ASSUME ArgsInv, Steal PROVE ArgsInv'
PROOF
<1> DEFINE n == IF needed < excess[sub_index] THEN needed ELSE excess[sub_index]
<1>1. /\ status = "stealing" /\ sub_index <= Len(portions) /\ needed > 0
      /\ sub_index # i /\ excess[sub_index] > 0
      /\ stolen' = n /\ portions' = [portions EXCEPT ![i] = Add64(@, n)]
      /\ excess' = [excess EXCEPT ![sub_index] = @ - n]
      /\ needed' = needed - n /\ TakeFromResult(n)
      /\ sub_index' = sub_index + 1
      /\ UNCHANGED <<args, i, portions_left, total_reserved>>
  BY DEF Steal, HasDonor
<1>2. /\ i \in 1..Len(args) /\ sub_index \in 1..Len(args) /\ needed \in 0..DUST
      /\ portions[i] + needed = min_portions /\ Len(portions) = Len(args) /\ Len(excess) = Len(args)
      /\ portions \in Seq(Word) /\ excess \in Seq(Word)
  BY <1>1, ArgsFacts DEF ArgsInv, ArgsTypes, Serving
<1>a. /\ portions[i] \in Nat /\ portions[i] <= UINT64_MAX
      /\ excess[sub_index] \in Nat /\ excess[sub_index] <= UINT64_MAX
      /\ min_portions \in Nat /\ min_portions <= UINT64_MAX
      /\ DUST \in Nat /\ Len(args) \in Nat /\ UINT64_MAX \in Nat
  BY <1>2, ArgsFacts, WordIs
<1>3. /\ n \in 1..needed /\ n <= excess[sub_index] /\ n \in Nat /\ n \in Word
  <2>1. needed \in Nat
    BY <1>2, <1>a
  <2>2. n \in Nat /\ n <= needed /\ n <= excess[sub_index] /\ n > 0
    BY <1>1, <1>a, <2>1
  <2> HIDE DEF n
  <2>3. n \in 1..needed /\ n <= UINT64_MAX
    BY <1>a, <2>1, <2>2
  <2> QED
    BY <2>2, <2>3, WordIs
<1> HIDE DEF n
<1>4. Add64(portions[i], n) = portions[i] + n /\ portions[i] + n \in Word
  <2>1. portions[i] + n <= UINT64_MAX
    BY <1>2, <1>3, <1>a
  <2> QED
    BY <1>3, <1>a, <2>1, PlainWords, WordIs
<1>5. /\ portions' \in Seq(Word) /\ Len(portions') = Len(args)
      /\ portions'[i] = portions[i] + n
      /\ \A k \in 1..Len(args) : k # i => portions'[k] = portions[k]
  BY <1>1, <1>2, <1>4, ArgsFacts
<1>6. /\ excess' \in Seq(Word) /\ Len(excess') = Len(args)
      /\ excess'[sub_index] = excess[sub_index] - n
      /\ \A k \in 1..Len(args) : k # sub_index => excess'[k] = excess[k]
  <2>1. excess[sub_index] - n \in Word
    BY <1>3, <1>a, WordIs
  <2> QED
    BY <1>1, <1>2, <2>1, ArgsFacts
<1>7. /\ result' \in Seq(Word) /\ Len(result') = Len(result)
      /\ status' \in {"stealing", "crashed"}
      /\ sub_index \in DOMAIN result => result' = [result EXCEPT ![sub_index] = Sub64(@, n)]
      /\ sub_index \notin DOMAIN result => result' = result
  <2>1. result \in Seq(Word)
    BY DEF ArgsInv, ArgsTypes
  <2>2. CASE sub_index \in DOMAIN result
    <3>1. result' = [result EXCEPT ![sub_index] = Sub64(@, n)] /\ status' = "stealing"
      BY <1>1, <2>2 DEF TakeFromResult
    <3>2. Sub64(result[sub_index], n) \in Word
      BY <1>3, <2>2, ArgsFacts, PlainWords
    <3> QED
      BY <2>1, <2>2, <3>1, <3>2
  <2>3. CASE sub_index \notin DOMAIN result
    BY <1>1, <2>1, <2>3 DEF TakeFromResult
  <2> QED
    BY <2>2, <2>3
<1>8. ArgsTypes'
  <2>1. needed' \in 0..DUST /\ stolen' \in 0..DUST /\ sub_index' \in 0..(Len(args) + 1)
    BY <1>1, <1>2, <1>3, <1>a
  <2> QED
    BY <1>1, <1>5, <1>6, <1>7, <2>1 DEF ArgsInv, ArgsTypes
<1>9. Serving'
  <2>1. min_portions' = min_portions
    BY <1>1 DEF min_portions
  <2>2. n <= portions'[i] /\ portions'[i] + needed' = min_portions
    BY <1>1, <1>2, <1>3, <1>5, <1>a
  <2> QED
    BY <1>1, <1>2, <1>7, <2>1, <2>2 DEF Serving
<1>10. Accounts'
  <2>1. ASSUME NEW k \in DOMAIN args PROVE portions'[k] >= args[k]
    <3>1. portions[k] >= args[k] /\ k \in 1..Len(args)
      BY ArgsFacts DEF ArgsInv, Accounts
    <3>2. args[k] \in Nat
      BY <3>1, ArgsFacts, WordIs
    <3> QED
      BY <1>3, <1>5, <1>a, <3>1, <3>2
  <2>2. ASSUME Len(result') = i - 1, NEW k \in DOMAIN result'
        PROVE  result'[k] + ExcessPortions(args)[k] >= args[k] + excess'[k]
    <3>1. k \in DOMAIN result /\ k \in 1..Len(args)
      <4>1. DOMAIN result' = 1..Len(result) /\ DOMAIN result = 1..Len(result) /\ Len(result) \in Nat
        BY <1>7, ArgsFacts
      <4> QED
        BY <1>2, <1>7, <1>a, <2>2, <4>1
    <3>2. result[k] + ExcessPortions(args)[k] >= args[k] + excess[k]
      BY <1>7, <2>2, <3>1 DEF ArgsInv, Accounts
    <3>3. /\ result[k] \in Nat /\ ExcessPortions(args)[k] \in Nat /\ ExcessPortions(args)[k] <= args[k]
          /\ args[k] \in Nat /\ excess[k] \in Nat /\ result[k] \in Word
      BY <3>1, ArgsFacts
    <3>4. CASE k = sub_index
      <4>1. n <= result[k]
        BY <1>3, <3>2, <3>3, <3>4
      <4>2. result'[k] = result[k] - n
        BY <1>3, <1>7, <3>1, <3>3, <3>4, <4>1, PlainWords DEF ArgsInv, ArgsTypes
      <4>3. excess'[k] = excess[k] - n /\ n \in Nat
        BY <1>3, <1>6, <3>4
      <4> QED
        BY <3>2, <3>3, <4>2, <4>3
    <3>5. CASE k # sub_index
      <4>1. result'[k] = result[k]
        BY <1>7, <3>1, <3>5 DEF ArgsInv, ArgsTypes
      <4> QED
        BY <1>6, <3>1, <3>2, <3>5, <4>1
    <3> QED
      BY <3>4, <3>5
  <2>3. ASSUME NEW k \in DOMAIN args PROVE excess'[k] <= ExcessPortions(args)[k]
    <3>1. excess[k] <= ExcessPortions(args)[k] /\ k \in 1..Len(args)
      BY ArgsFacts DEF ArgsInv, Accounts
    <3>2. excess[k] \in Nat /\ ExcessPortions(args)[k] \in Nat
      BY <3>1, ArgsFacts, WordIs
    <3> QED
      BY <1>3, <1>6, <1>a, <3>1, <3>2
  <2> QED
    BY <1>1, <2>1, <2>2, <2>3 DEF Accounts
<1> QED
  BY <1>8, <1>9, <1>10 DEF ArgsInv

(* Every other step of the conversion. *)
LEMMA SkipKeeps == ASSUME ArgsInv, SkipContributor PROVE ArgsInv'
PROOF
<1>1. /\ status = "contributor" /\ i <= Len(portions) /\ i' = i + 1
      /\ UNCHANGED <<args, portions, excess, needed, sub_index, stolen, portions_left,
                     total_reserved, result, status>>
  BY DEF SkipContributor
<1>2. i \in Nat /\ Len(args) \in Nat /\ Len(result) \in Nat
  BY ArgsFacts
<1>3. ArgsTypes'
  BY <1>1, <1>2 DEF ArgsInv, ArgsTypes
<1>4. Serving'
  BY <1>1 DEF ArgsInv, Serving
<1>5. Len(result) # i' - 1
  BY <1>1, <1>2 DEF ArgsInv, ArgsTypes
<1>6. Accounts'
  BY <1>1, <1>5 DEF ArgsInv, Accounts
<1> QED
  BY <1>3, <1>4, <1>6 DEF ArgsInv

LEMMA BeginKeeps == ASSUME ArgsInv, BeginStealing PROVE ArgsInv'
PROOF
<1>1. /\ status = "contributor" /\ i <= Len(portions) /\ Short /\ min_portions - portions[i] <= DUST
      /\ needed' = min_portions - portions[i] /\ sub_index' = 1 /\ status' = "stealing"
      /\ UNCHANGED <<args, portions, excess, i, stolen, portions_left, total_reserved, result>>
  BY DEF BeginStealing
<1>2. /\ i \in 1..Len(args) /\ Len(args) \in Nat /\ DUST \in Nat /\ stolen = 0
  BY <1>1, ArgsFacts DEF ArgsInv, ArgsTypes, Serving
<1>3. portions[i] \in Nat /\ min_portions \in Nat /\ portions[i] < min_portions
  BY <1>1, <1>2, ArgsFacts, WordIs DEF Short
<1>4. min_portions' = min_portions
  BY <1>1 DEF min_portions
<1>5. needed' \in 0..DUST /\ portions[i] + needed' = min_portions /\ sub_index' \in 0..(Len(args) + 1)
  BY <1>1, <1>2, <1>3
<1>6. ArgsTypes'
  BY <1>1, <1>5 DEF ArgsInv, ArgsTypes
<1>7. Serving'
  BY <1>1, <1>2, <1>3, <1>4, <1>5 DEF Serving
<1>8. Accounts'
  BY <1>1 DEF ArgsInv, Accounts
<1> QED
  BY <1>6, <1>7, <1>8 DEF ArgsInv

LEMMA NextDonorKeeps == ASSUME ArgsInv, NextDonor PROVE ArgsInv'
PROOF
<1>1. /\ status = "stealing" /\ sub_index <= Len(portions) /\ sub_index' = sub_index + 1
      /\ UNCHANGED <<args, portions, excess, i, needed, stolen, portions_left, total_reserved,
                     result, status>>
  BY DEF NextDonor, HasDonor
<1>2. Len(args) \in Nat /\ sub_index' \in 0..(Len(args) + 1) /\ sub_index' > 0
  BY <1>1, ArgsFacts DEF ArgsInv, ArgsTypes
<1>3. min_portions' = min_portions
  BY <1>1 DEF min_portions
<1>4. ArgsTypes'
  BY <1>1, <1>2 DEF ArgsInv, ArgsTypes
<1>5. Serving'
  BY <1>1, <1>2, <1>3 DEF ArgsInv, Serving
<1>6. Accounts'
  BY <1>1 DEF ArgsInv, Accounts
<1> QED
  BY <1>4, <1>5, <1>6 DEF ArgsInv

LEMMA EndKeeps == ASSUME ArgsInv, EndStealing PROVE ArgsInv'
PROOF
<1>1. /\ status = "stealing" /\ status' = "settling"
      /\ portions' = (IF needed > 0 /\ Len(portions) < MAX_LOCKED_CONTRIBUTIONS
                      THEN [portions EXCEPT ![i] = Add64(@, needed)] ELSE portions)
      /\ UNCHANGED <<args, excess, i, needed, sub_index, stolen, portions_left, total_reserved, result>>
  BY DEF EndStealing
<1>2. /\ i \in 1..Len(args) /\ Len(args) \in Nat /\ DUST \in Nat /\ needed \in Nat /\ stolen \in Nat
      /\ stolen <= portions[i] /\ portions[i] + needed = min_portions
  BY <1>1, ArgsFacts DEF ArgsInv, ArgsTypes, Serving
<1>3. /\ portions[i] \in Nat /\ portions[i] <= UINT64_MAX /\ min_portions \in Nat /\ min_portions <= UINT64_MAX
      /\ UINT64_MAX \in Nat
  BY <1>2, ArgsFacts, WordIs
<1>4. portions[i] + needed \in Word /\ Add64(portions[i], needed) = portions[i] + needed
  <2>1. portions[i] \in Word /\ needed \in Word /\ portions[i] + needed <= UINT64_MAX
    BY <1>2, <1>3, WordIs
  <2> QED
    BY <1>2, <1>3, <2>1, PlainWords, WordIs
<1>5. /\ portions' \in Seq(Word) /\ Len(portions') = Len(args)
      /\ \A k \in 1..Len(args) : k # i => portions'[k] = portions[k]
      /\ portions'[i] \in Nat /\ portions'[i] >= portions[i]
  <2>1. portions \in Seq(Word) /\ Len(portions) = Len(args)
    BY DEF ArgsInv, ArgsTypes
  <2>2. CASE portions' = portions
    BY <1>3, <2>1, <2>2
  <2>3. CASE portions' = [portions EXCEPT ![i] = Add64(@, needed)]
    <3>1. portions' \in Seq(Word) /\ Len(portions') = Len(args) /\ portions'[i] = portions[i] + needed
      BY <1>2, <1>4, <2>1, <2>3
    <3>2. \A k \in 1..Len(args) : k # i => portions'[k] = portions[k]
      BY <2>1, <2>3
    <3> QED
      BY <1>2, <1>3, <3>1, <3>2
  <2> QED
    BY <1>1, <2>2, <2>3
<1>6. ArgsTypes'
  BY <1>1, <1>5 DEF ArgsInv, ArgsTypes
<1>7. Serving'
  BY <1>1, <1>2, <1>3, <1>5 DEF Serving
<1>8. ASSUME NEW k \in DOMAIN args PROVE portions'[k] >= args[k]
  <2>1. portions[k] >= args[k] /\ k \in 1..Len(args)
    BY ArgsFacts DEF ArgsInv, Accounts
  <2>2. args[k] \in Nat
    BY <2>1, ArgsFacts, WordIs
  <2> QED
    BY <1>3, <1>5, <2>1, <2>2
<1>9. Accounts'
  BY <1>1, <1>8 DEF ArgsInv, Accounts
<1> QED
  BY <1>6, <1>7, <1>9 DEF ArgsInv

(* A contributor gets its place: what is left goes down by what it has,     *)
(* less what it took last from one that was counted already.                *)
LEMMA AcceptKeeps == ASSUME ArgsInv, Accept PROVE ArgsInv'
PROOF
<1>1. /\ i <= Len(portions) /\ status \in {"settling", "contributor"}
      /\ ~(Sub64(portions[i], stolen) > portions_left)
      /\ portions_left' = Add64(Sub64(portions_left, portions[i]), stolen)
      /\ total_reserved' = Add64(total_reserved, portions_to_amount(portions[i], STAKING_REQUIREMENT))
      /\ result' = Append(result, portions[i])
      /\ i' = i + 1 /\ needed' = 0 /\ sub_index' = 0 /\ stolen' = 0 /\ status' = "contributor"
      /\ UNCHANGED <<args, portions, excess>>
  BY DEF Accept, Settles, Refused
<1>2. /\ i \in 1..Len(args) /\ i \in Nat /\ Len(args) \in Nat /\ DUST \in Nat /\ UINT64_MAX \in Nat
      /\ portions[i] \in Word /\ portions[i] \in Nat /\ portions[i] <= UINT64_MAX
      /\ STAKING_PORTIONS \in Nat /\ STAKING_PORTIONS <= UINT64_MAX
  BY <1>1, ArgsFacts, WordIs DEF ArgsInv, ArgsTypes
<1>3. stolen \in Nat /\ stolen <= portions[i]
  BY <1>1, <1>2 DEF ArgsInv, ArgsTypes, Serving
<1>4. portions_left \in Nat /\ portions_left <= STAKING_PORTIONS
  BY <1>2 DEF ArgsInv, ArgsTypes
<1>5. stolen \in Word /\ portions_left \in Word
  BY <1>2, <1>3, <1>4, WordIs
<1>6. Sub64(portions[i], stolen) = portions[i] - stolen
  BY <1>2, <1>3, <1>5, PlainWords
<1>7. portions_left' \in 0..STAKING_PORTIONS
  <2>1. portions[i] - stolen <= portions_left
    BY <1>1, <1>2, <1>3, <1>4, <1>6
  <2>2. portions[i] <= portions_left + stolen
    BY <1>2, <1>3, <1>4, <2>1
  <2>3. portions_left' = portions_left - (portions[i] - stolen)
    BY <1>1, <1>2, <1>3, <1>5, <2>2, PlainWords
  <2> QED
    BY <1>2, <1>3, <1>4, <2>1, <2>3
<1>8. total_reserved' \in Word
  <2>1. portions_to_amount(portions[i], STAKING_REQUIREMENT) \in Word
    BY <1>2, AmountIsWord
  <2> QED
    BY <1>1, <2>1, PlainWords DEF ArgsInv, ArgsTypes
<1>9. /\ result \in Seq(Word) /\ Len(result) \in Nat /\ Len(result) <= i - 1
      /\ result' \in Seq(Word) /\ Len(result') = Len(result) + 1 /\ result'[Len(result) + 1] = portions[i]
      /\ \A k \in 1..Len(result) : result'[k] = result[k]
  BY <1>1, <1>2 DEF ArgsInv, ArgsTypes
<1>10. ArgsTypes'
  <2>1. i' \in 1..(Len(args) + 1) /\ Len(result') <= i' - 1 /\ sub_index' \in 0..(Len(args) + 1)
        /\ needed' \in 0..DUST /\ stolen' \in 0..DUST
    BY <1>1, <1>2, <1>9
  <2> QED
    BY <1>1, <1>7, <1>8, <1>9, <2>1 DEF ArgsInv, ArgsTypes
<1>11. Serving'
  BY <1>1 DEF Serving
<1>12. ASSUME Len(result') = i' - 1, NEW k \in DOMAIN result'
       PROVE  result'[k] + ExcessPortions(args)[k] >= args[k] + excess[k]
  <2>1. Len(result) = i - 1 /\ k \in 1..i
    BY <1>1, <1>2, <1>9, <1>12
  <2>2. CASE k = i
    <3>1. portions[i] >= args[i]
      BY <1>2, ArgsFacts DEF ArgsInv, Accounts
    <3>2. excess[i] <= ExcessPortions(args)[i]
      BY <1>2 DEF ArgsInv, Accounts
    <3>3. args[i] \in Nat /\ excess[i] \in Nat /\ ExcessPortions(args)[i] \in Nat
      BY <1>2, ArgsFacts, WordIs
    <3> QED
      BY <1>2, <1>9, <2>1, <2>2, <3>1, <3>2, <3>3
  <2>3. CASE k # i
    <3>1. k \in DOMAIN result /\ result'[k] = result[k]
      BY <1>2, <1>9, <2>1, <2>3
    <3> QED
      BY <2>1, <3>1 DEF ArgsInv, Accounts
  <2> QED
    BY <2>2, <2>3
<1>13. Accounts'
  BY <1>1, <1>12 DEF ArgsInv, Accounts
<1> QED
  BY <1>10, <1>11, <1>13 DEF ArgsInv

(* The conversion ends, with or without an error. *)
LEMMA EndingsKeep == ASSUME ArgsInv, Refuse \/ Succeed \/ UNCHANGED vars PROVE ArgsInv'
PROOF
<1>1. /\ UNCHANGED <<args, portions, excess, i, needed, sub_index, stolen, portions_left,
                     total_reserved, result>>
      /\ status' \in {status, "error", "success"}
  BY DEF Refuse, Succeed, vars
<1>2. min_portions' = min_portions
  BY <1>1 DEF min_portions
<1>3. ArgsTypes' /\ Accounts'
  BY <1>1 DEF ArgsInv, ArgsTypes, Accounts
<1>4. Serving'
  BY <1>1, <1>2 DEF ArgsInv, Serving
<1> QED
  BY <1>3, <1>4 DEF ArgsInv
------------------------------------------------------------------------------
(* It holds throughout. *)
LEMMA ArgsInvariant == Spec => []ArgsInv
PROOF
<1>1. ArgsInv /\ [Next]_vars => ArgsInv'
  BY SkipKeeps, BeginKeeps, StealKeeps, NextDonorKeeps, EndKeeps, AcceptKeeps, EndingsKeep DEF Next
<1> QED
  BY <1>1, ArgsInvInit, PTL DEF Spec

(* The counters of convert_registration_args stay in their ranges: what is  *)
(* left to give out stays within the whole stake, and never wraps below     *)
(* zero, although portions taken from somebody are counted back; what is    *)
(* taken for one contributor stays within the dust.                         *)
THEOREM ConversionTypes == Spec => []TypeOK
PROOF
<1>1. ArgsInv => TypeOK
  BY DEF ArgsInv, ArgsTypes, TypeOK, Word
<1> QED
  BY <1>1, ArgsInvariant, PTL

(* Nobody is made short by what convert_registration_args takes for others. *)
THEOREM DonorsKeepMinimum == Spec => []DonorKeepsMinimum
PROOF
<1>1. ArgsInv => DonorKeepsMinimum
  <2> SUFFICES ASSUME ArgsInv, Len(result) = i - 1, NEW k \in DOMAIN result
               PROVE  result[k] >= args[k] \/ result[k] >= MinContributionPortions(args, k)
    BY DEF DonorKeepsMinimum
  <2>1. result[k] + ExcessPortions(args)[k] >= args[k] + excess[k] /\ result[k] \in Nat
    BY ArgsFacts, WordIs DEF ArgsInv, Accounts
  <2>2. k \in 1..Len(args)
    <3>1. i \in 1..(Len(args) + 1)
      BY DEF ArgsInv, ArgsTypes
    <3> QED
      BY <3>1, ArgsFacts
  <2>3. args[k] \in Nat /\ excess[k] \in Nat /\ MinContributionPortions(args, k) \in Nat
    <3>1. MinContributionPortions(args, k) \in Word
      BY <2>2, ArgsFacts, ArgsAreWords DEF ArgsInv, ArgsTypes
    <3> QED
      BY <2>2, <3>1, ArgsFacts, WordIs
  <2>4. ExcessPortions(args)[k] = IF args[k] > MinContributionPortions(args, k)
                                  THEN args[k] - MinContributionPortions(args, k) ELSE 0
    BY <2>2, ArgsFacts DEF ExcessPortions
  <2> QED
    BY <2>1, <2>3, <2>4
<1> QED
  BY <1>1, ArgsInvariant, PTL
=============================================================================
