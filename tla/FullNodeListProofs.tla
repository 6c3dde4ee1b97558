-------------------------- MODULE FullNodeListProofs --------------------------
(***************************************************************************)
(* The accounts of a full node balance for every staking requirement, word *)
(* size and transaction: registration starts them balanced, a contribution *)
(* and a round trip through the database keep them balanced.               *)
(*                                                                         *)
(* So TypeOK and StakeAccounting are invariants of the full node list, for *)
(* every set of nodes and transactions, chain length and number of         *)
(* crashes.  The inductive invariant says that every info the daemon may   *)
(* ever use again is of its type and balanced: those in the list, those    *)
(* saved in rollback events and those in the database.                     *)
(***************************************************************************)
EXTENDS FullNodeList, SequenceTheorems, TLAPS

USE DEF MAX_NUMBER_OF_CONTRIBUTORS, MAX_KEY_IMAGES_PER_CONTRIBUTOR, MAX_LOCKED_CONTRIBUTIONS

\* What contributor j of cs adds to the three sums, 0 if there is none.
Amount(cs, j)   == IF j \in DOMAIN cs THEN cs[j].amount ELSE 0
Reserved(cs, j) == IF j \in DOMAIN cs THEN cs[j].reserved ELSE 0
Locked(cs, j)   == IF j \in DOMAIN cs THEN Len(cs[j].locked_contributions) ELSE 0

\* A function on 1..n is a sequence.
LEMMA FunctionIsSeq ==
  ASSUME NEW S, NEW n \in Nat, NEW f \in [1..n -> S]
  PROVE  f \in Seq(S) /\ Len(f) = n /\ DOMAIN f = 1..n
  OBVIOUS

\* An element of the contributors of a full_node_info is a contributor.
LEMMA ContributorAt ==
  ASSUME NEW cs \in Seq(Contributor), NEW i \in DOMAIN cs
  PROVE  /\ cs[i] \in Contributor
         /\ cs[i].amount \in Nat /\ cs[i].reserved \in Nat /\ cs[i].version \in 0..2
         /\ cs[i].locked_contributions \in Seq(Contribution)
         /\ Len(cs[i].locked_contributions) \in Nat
  <1>1. cs[i] \in Contributor BY LenProperties, ElementOfSeq
  <1>2. cs[i].locked_contributions \in Seq(Contribution) BY <1>1 DEF Contributor
  <1>3. Len(cs[i].locked_contributions) \in Nat BY <1>2, LenProperties
  <1> QED BY <1>1, <1>2, <1>3 DEF Contributor

\* The sums of an info, slot by slot.
LEMMA SumsBySlot ==
  ASSUME NEW cs \in Seq(Contributor)
  PROVE  /\ AmountOf(cs) = Amount(cs, 1) + Amount(cs, 2) + Amount(cs, 3) + Amount(cs, 4)
         /\ ReservedOf(cs) = Reserved(cs, 1) + Reserved(cs, 2) + Reserved(cs, 3) + Reserved(cs, 4)
         /\ \A info : info.contributors = cs =>
              total_num_locked_contributions(info) =
                Locked(cs, 1) + Locked(cs, 2) + Locked(cs, 3) + Locked(cs, 4)
  BY DEF AmountOf, ReservedOf, total_num_locked_contributions, Sum4, ElementOr0,
         Amount, Reserved, Locked

\* The summands of the totals of a full_node_info are numbers.
LEMMA SlotTypes ==
  ASSUME NEW cs \in Seq(Contributor), NEW j
  PROVE  Amount(cs, j) \in Nat /\ Reserved(cs, j) \in Nat /\ Locked(cs, j) \in Nat
  BY ContributorAt DEF Amount, Reserved, Locked

\* What load() reads back balances if what store() wrote did: dropping the
\* locked contributions of an old contributor changes no amount.
THEOREM SerializedBalanced ==
  ASSUME NEW info \in Info, StakeBalanced(info)
  PROVE  SerializedInfo(info) \in Info /\ StakeBalanced(SerializedInfo(info))
  <1> DEFINE cs == info.contributors
             s  == SerializedInfo(info)
             ds == [i \in DOMAIN cs |->
                      [cs[i] EXCEPT !.locked_contributions = IF cs[i].version >= 2 THEN @ ELSE <<>>]]
  <1>1. cs \in Seq(Contributor) BY DEF Info
  <1>2. \A i \in DOMAIN cs : /\ ds[i] \in Contributor
                             /\ ds[i].amount = cs[i].amount /\ ds[i].reserved = cs[i].reserved
                             /\ Len(ds[i].locked_contributions) <= Len(cs[i].locked_contributions)
    <2> SUFFICES ASSUME NEW i \in DOMAIN cs
                 PROVE  /\ ds[i] \in Contributor
                        /\ ds[i].amount = cs[i].amount /\ ds[i].reserved = cs[i].reserved
                        /\ Len(ds[i].locked_contributions) <= Len(cs[i].locked_contributions)
      OBVIOUS
    <2>1. cs[i] \in Contributor /\ Len(cs[i].locked_contributions) \in Nat BY <1>1, ContributorAt
    <2> DEFINE lc == IF cs[i].version >= 2 THEN cs[i].locked_contributions ELSE <<>>
    <2>2. <<>> \in Seq(Contribution) /\ Len(<<>>) = 0 BY EmptySeq
    <2>3. cs[i].locked_contributions \in Seq(Contribution) BY <1>1, ContributorAt
    <2>4. lc \in Seq(Contribution) /\ Len(lc) <= Len(cs[i].locked_contributions)
      BY <2>1, <2>2, <2>3
    <2>5. ds[i] = [cs[i] EXCEPT !.locked_contributions = lc] OBVIOUS
    <2> HIDE DEF lc, ds
    <2> QED BY <2>1, <2>4, <2>5 DEF Contributor
  <1>3. ds \in Seq(Contributor) /\ Len(ds) = Len(cs) /\ DOMAIN ds = DOMAIN cs
    <2>1. Len(cs) \in Nat /\ DOMAIN cs = 1..Len(cs) BY <1>1, LenProperties
    <2>2. ds \in [1..Len(cs) -> Contributor] BY <1>2, <2>1
    <2> QED BY <2>1, <2>2, FunctionIsSeq
  <1>4. /\ s.contributors = ds
        /\ s.total_contributed = info.total_contributed /\ s.total_reserved = info.total_reserved
        /\ s \in Info
    BY <1>3, InfoAssumption DEF SerializedInfo, Info, QUEUE_SWARM_ID
  <1>5. \A j \in 1..4 : /\ Amount(ds, j) = Amount(cs, j) /\ Reserved(ds, j) = Reserved(cs, j)
                        /\ Locked(ds, j) <= Locked(cs, j)
    BY <1>1, <1>2, <1>3 DEF Amount, Reserved, Locked
  <1>6. AmountOf(ds) = AmountOf(cs) /\ ReservedOf(ds) = ReservedOf(cs)
    BY <1>1, <1>3, <1>5, SumsBySlot
  <1>7. total_num_locked_contributions(s) <= 4
    <2>1. total_num_locked_contributions(s) = Locked(ds, 1) + Locked(ds, 2) + Locked(ds, 3) + Locked(ds, 4)
      BY <1>3, <1>4, SumsBySlot
    <2>2. total_num_locked_contributions(info) = Locked(cs, 1) + Locked(cs, 2) + Locked(cs, 3) + Locked(cs, 4)
      BY <1>1, SumsBySlot
    <2>3. \A j \in 1..4 : Locked(ds, j) \in Nat /\ Locked(cs, j) \in Nat
      BY <1>1, <1>3, SlotTypes
    <2>4. total_num_locked_contributions(info) <= 4 BY DEF StakeBalanced
    <2> HIDE DEF s, ds, cs
    <2> QED BY <2>1, <2>2, <2>3, <2>4, <1>5
  <1> QED BY <1>2, <1>3, <1>4, <1>6, <1>7 DEF StakeBalanced
------------------------------------------------------------------------------
\* Euclidean division, as mul128 and div128_64 use it.
LEMMA DivMod ==
  ASSUME NEW a \in Nat, NEW b \in Nat, b > 0
  PROVE  /\ a \div b \in Nat /\ b * (a \div b) <= a
         /\ a % b \in Nat /\ a % b <= a /\ a % b < b
  OBVIOUS

\* The amounts that parts of a stake are turned into add up to no more than the
\* stake: portions_to_amount rounds down.
LEMMA PortionsFit ==
  ASSUME NEW p1 \in Nat, NEW p2 \in Nat, NEW p3 \in Nat, NEW p4 \in Nat,
         p1 + p2 + p3 + p4 <= STAKING_PORTIONS
  PROVE  portions_to_amount(p1, STAKING_REQUIREMENT) + portions_to_amount(p2, STAKING_REQUIREMENT)
           + portions_to_amount(p3, STAKING_REQUIREMENT) + portions_to_amount(p4, STAKING_REQUIREMENT)
           <= STAKING_REQUIREMENT
  <1> DEFINE S == STAKING_REQUIREMENT
             P == STAKING_PORTIONS
             q(p) == (S * p) \div P
  <1>1. S \in Nat /\ P \in Nat /\ P > 0 /\ UINT64 \in Nat /\ UINT64 > 0
    BY RulesAssumption
  <1>2. ASSUME NEW p \in Nat
        PROVE  q(p) \in Nat /\ P * q(p) <= S * p
               /\ portions_to_amount(p, S) \in Nat /\ portions_to_amount(p, S) <= q(p)
    <2>1. S * p \in Nat BY <1>1
    <2>2. q(p) \in Nat /\ P * q(p) <= S * p BY <1>1, <2>1, DivMod
    <2>3. q(p) % UINT64 \in Nat /\ q(p) % UINT64 <= q(p) BY <1>1, <2>2, DivMod
    <2> QED BY <2>2, <2>3 DEF portions_to_amount
  <1>3. P * (q(p1) + q(p2) + q(p3) + q(p4)) <= S * (p1 + p2 + p3 + p4)
    <2>1. /\ q(p1) \in Nat /\ P * q(p1) <= S * p1 /\ q(p2) \in Nat /\ P * q(p2) <= S * p2
          /\ q(p3) \in Nat /\ P * q(p3) <= S * p3 /\ q(p4) \in Nat /\ P * q(p4) <= S * p4
      BY <1>2
    <2> HIDE DEF S, P, q
    <2> QED BY <1>1, <2>1
  <1>4. S * (p1 + p2 + p3 + p4) <= S * P
    <2> DEFINE t == p1 + p2 + p3 + p4
    <2>1. t \in Nat /\ t <= P OBVIOUS
    <2> HIDE DEF S, P, q, t
    <2>2. S * t <= S * P BY <1>1, <2>1
    <2> QED BY <2>2 DEF t
  <1>5. q(p1) + q(p2) + q(p3) + q(p4) <= S
    <2>1. q(p1) \in Nat /\ q(p2) \in Nat /\ q(p3) \in Nat /\ q(p4) \in Nat BY <1>2
    <2> HIDE DEF S, P, q
    <2> DEFINE t == q(p1) + q(p2) + q(p3) + q(p4)
    <2>2. t \in Nat /\ P * t <= S * P BY <1>1, <1>3, <1>4, <2>1
    <2> HIDE DEF t
    <2>3. t <= S BY <1>1, <2>2
    <2> QED BY <2>3 DEF t
  <1>6. /\ portions_to_amount(p1, S) \in Nat /\ portions_to_amount(p1, S) <= q(p1) /\ q(p1) \in Nat
        /\ portions_to_amount(p2, S) \in Nat /\ portions_to_amount(p2, S) <= q(p2) /\ q(p2) \in Nat
        /\ portions_to_amount(p3, S) \in Nat /\ portions_to_amount(p3, S) <= q(p3) /\ q(p3) \in Nat
        /\ portions_to_amount(p4, S) \in Nat /\ portions_to_amount(p4, S) <= q(p4) /\ q(p4) \in Nat
    BY <1>2
  <1> HIDE DEF q
  <1> QED BY <1>1, <1>5, <1>6

\* portions_to_amount returns a number.
LEMMA AmountOfPortions ==
  ASSUME NEW p \in Nat
  PROVE  portions_to_amount(p, STAKING_REQUIREMENT) \in Nat
  <1>1. /\ STAKING_REQUIREMENT * p \in Nat /\ STAKING_PORTIONS \in Nat /\ STAKING_PORTIONS > 0
        /\ UINT64 \in Nat /\ UINT64 > 0
    BY RulesAssumption
  <1>2. (STAKING_REQUIREMENT * p) \div STAKING_PORTIONS \in Nat BY <1>1, DivMod
  <1> QED BY <1>1, <1>2, DivMod DEF portions_to_amount

\* What check_full_node_portions accepts is at most a whole stake, unless the
\* sum wraps around.
LEMMA CheckedPortions ==
  ASSUME NEW v, NEW ps \in Seq(Nat), check_full_node_portions(v, ps), Sum4(ps) < UINT64
  PROVE  Sum4(ps) <= STAKING_PORTIONS
  <1>1. Len(ps) \in Nat BY LenProperties
  <1>2. SubSeq(ps, 1, Len(ps)) = ps BY SubSeqFull
  <1>3. Len(ps) + 1 - 1 = Len(ps) BY <1>1
  <1>4. ReservedBefore(ps, Len(ps) + 1) = Sum4(ps) % UINT64
    <2>1. ReservedBefore(ps, Len(ps) + 1) = Sum4(SubSeq(ps, 1, Len(ps) + 1 - 1)) % UINT64
      BY DEF ReservedBefore
    <2> QED BY <1>2, <1>3, <2>1
  <1>5. Sum4(ps) % UINT64 <= STAKING_PORTIONS BY <1>4 DEF check_full_node_portions
  <1>6. \A j : ElementOr0(ps, j) \in Nat
    BY LenProperties, ElementOfSeq DEF ElementOr0
  <1>7. Sum4(ps) \in Nat BY <1>6 DEF Sum4
  <1> DEFINE t == Sum4(ps)
  <1>8. t \in Nat /\ t < UINT64 /\ t % UINT64 <= STAKING_PORTIONS BY <1>5, <1>7
  <1> HIDE DEF t
  <1>9. t <= STAKING_PORTIONS BY <1>8, RulesAssumption
  <1> QED BY <1>9 DEF t

\* Spots reserved for such portions add up to at most the staking requirement.
LEMMA ReservationFits ==
  ASSUME NEW ps \in Seq(Nat), Sum4(ps) <= STAKING_PORTIONS,
         NEW cs \in Seq(Contributor), DOMAIN cs = DOMAIN ps,
         \A i \in DOMAIN cs : cs[i].reserved = portions_to_amount(ps[i], STAKING_REQUIREMENT)
  PROVE  ReservedOf(cs) \in Nat /\ ReservedOf(cs) <= STAKING_REQUIREMENT
  <1> DEFINE e(j) == ElementOr0(ps, j)
             a(j) == portions_to_amount(e(j), STAKING_REQUIREMENT)
             b1 == a(1)
             b2 == a(2)
             b3 == a(3)
             b4 == a(4)
             r1 == Reserved(cs, 1)
             r2 == Reserved(cs, 2)
             r3 == Reserved(cs, 3)
             r4 == Reserved(cs, 4)
  <1>1. \A j : e(j) \in Nat BY LenProperties, ElementOfSeq DEF ElementOr0
  <1>2. b1 + b2 + b3 + b4 <= STAKING_REQUIREMENT
    <2>1. e(1) + e(2) + e(3) + e(4) <= STAKING_PORTIONS BY DEF Sum4
    <2> HIDE DEF e
    <2> QED BY <1>1, <2>1, PortionsFit
  <1>3. \A j : Reserved(cs, j) \in Nat /\ Reserved(cs, j) <= a(j) /\ a(j) \in Nat
    <2> SUFFICES ASSUME NEW j PROVE Reserved(cs, j) \in Nat /\ Reserved(cs, j) <= a(j) /\ a(j) \in Nat
      OBVIOUS
    <2>1. a(j) \in Nat
      <3> HIDE DEF e
      <3> QED BY <1>1, AmountOfPortions
    <2>2. CASE j \in DOMAIN cs
      <3>1. e(j) = ps[j] BY <2>2 DEF ElementOr0
      <3>2. Reserved(cs, j) = a(j) BY <2>2, <3>1 DEF Reserved
      <3> HIDE DEF a
      <3> QED BY <2>1, <3>2
    <2>3. CASE j \notin DOMAIN cs
      <3>1. Reserved(cs, j) = 0 BY <2>3 DEF Reserved
      <3> HIDE DEF a
      <3> QED BY <2>1, <3>1
    <2> QED BY <2>2, <2>3
  <1>4. ReservedOf(cs) = r1 + r2 + r3 + r4 BY SumsBySlot
  <1>5. r1 \in Nat /\ r1 <= b1 /\ b1 \in Nat BY <1>3
  <1>6. r2 \in Nat /\ r2 <= b2 /\ b2 \in Nat BY <1>3
  <1>7. r3 \in Nat /\ r3 <= b3 /\ b3 \in Nat BY <1>3
  <1>8. r4 \in Nat /\ r4 <= b4 /\ b4 \in Nat BY <1>3
  <1> HIDE DEF r1, r2, r3, r4, b1, b2, b3, b4
  <1> QED BY <1>2, <1>4, <1>5, <1>6, <1>7, <1>8, RulesAssumption

\* A registration opens balanced accounts: is_registration_tx sets a spot aside
\* for every address, reserves no more than the staking requirement in total
\* (provided their sum does not wrap around) and takes no money yet.
THEOREM RegisteredBalanced ==
  ASSUME NEW v \in Nat, NEW tx, NEW h \in Nat, NEW which \in Nat,
         tx.registration \in [addresses : Seq(Addresses), portions : Seq(Nat), authentic : BOOLEAN],
         Len(tx.registration.portions) = Len(tx.registration.addresses),
         check_full_node_portions(v, tx.registration.portions),
         Sum4(tx.registration.portions) < UINT64
  PROVE  /\ RegisteredInfo(v, tx, h, which) \in Info
         /\ StakeBalanced(RegisteredInfo(v, tx, h, which))
  <1> DEFINE r    == tx.registration
             ps   == r.portions
             as   == r.addresses
             S    == STAKING_REQUIREMENT
             info == RegisteredInfo(v, tx, h, which)
             cs   == [i \in DOMAIN as |->
                        [version |-> MinInfoVersion(v), amount |-> 0,
                         reserved |-> portions_to_amount(ps[i], S),
                         address |-> as[i], locked_contributions |-> <<>>]]
  <1>1. /\ ps \in Seq(Nat) /\ as \in Seq(Addresses) /\ Len(ps) = Len(as)
        /\ Len(as) \in Nat /\ Len(as) <= 4
        /\ DOMAIN as = 1..Len(as) /\ DOMAIN ps = 1..Len(as)
    <2>1. ps \in Seq(Nat) /\ as \in Seq(Addresses) /\ Len(ps) = Len(as) OBVIOUS
    <2>2. Len(ps) <= 4 BY DEF check_full_node_portions
    <2> QED BY <2>1, <2>2, LenProperties
  <1>2. MinInfoVersion(v) \in 0..2 BY DEF MinInfoVersion
  <1>3. ASSUME NEW p \in Nat
        PROVE  portions_to_amount(p, S) \in Nat
    BY AmountOfPortions, SMTT(30)
  <1>4. ASSUME NEW i \in DOMAIN as
        PROVE  /\ cs[i] \in Contributor /\ cs[i].amount = 0 /\ cs[i].locked_contributions = <<>>
               /\ cs[i].reserved = portions_to_amount(ps[i], S)
    <2>1. as[i] \in Addresses /\ ps[i] \in Nat BY <1>1, ElementOfSeq
    <2>2. portions_to_amount(ps[i], S) \in Nat BY <1>3, <2>1
    <2>3. <<>> \in Seq(Contribution) BY EmptySeq
    <2> QED BY <1>2, <2>1, <2>2, <2>3 DEF Contributor
  <1>5. cs \in Seq(Contributor) /\ Len(cs) = Len(as) /\ DOMAIN cs = DOMAIN as
    <2>1. cs \in [1..Len(as) -> Contributor] BY <1>1, <1>4
    <2> QED BY <1>1, <2>1, FunctionIsSeq
  <1>6. /\ info.contributors = cs /\ info.total_contributed = 0 /\ info.total_reserved = ReservedOf(cs)
        /\ info = [version |-> MinInfoVersion(v), registration_height |-> h,
                   requested_unlock_height |-> 0, last_reward_block_height |-> h,
                   last_reward_transaction_index |-> which, contributors |-> cs,
                   total_contributed |-> 0, total_reserved |-> ReservedOf(cs), swarm_id |-> 0]
    BY DEF RegisteredInfo, KEY_IMAGE_AWAITING_UNLOCK_HEIGHT, QUEUE_SWARM_ID
  <1>8. \A j : Amount(cs, j) = 0 /\ Locked(cs, j) = 0
    <2>1. Len(<<>>) = 0 OBVIOUS
    <2> HIDE DEF cs
    <2> QED BY <1>4, <1>5, <2>1 DEF Amount, Locked
  <1>9. ReservedOf(cs) \in Nat /\ ReservedOf(cs) <= S
    <2>1. Sum4(ps) <= STAKING_PORTIONS BY <1>1, CheckedPortions
    <2> HIDE DEF cs
    <2> QED BY <1>1, <1>4, <1>5, <2>1, ReservationFits
  <1>10. AmountOf(cs) = 0 /\ total_num_locked_contributions(info) = 0
    <2> HIDE DEF cs
    <2> QED BY <1>5, <1>6, <1>8, SumsBySlot
  <1>11. info \in Info
    <2> HIDE DEF cs
    <2> QED BY <1>2, <1>5, <1>6, <1>9, InfoAssumption DEF Info
  <1>12. \A i \in DOMAIN cs : cs[i].amount <= cs[i].reserved
    <2> HIDE DEF cs
    <2> QED BY <1>4, <1>5, ContributorAt
  <1> HIDE DEF cs, info
  <1> QED BY <1>1, <1>5, <1>6, <1>9, <1>10, <1>11, <1>12 DEF StakeBalanced, info
------------------------------------------------------------------------------
\* What parse_contribution reads from a transaction.
ParsedContribution ==
  [address : Addresses, transferred : Nat, locked_contributions : Seq(Contribution)]

\* A spot for a new contributor leaves the sums as they are.
LEMMA SpotKeepsSums ==
  ASSUME NEW v \in Nat, NEW cs \in Seq(Contributor), NEW address \in Addresses,
         \A i \in DOMAIN cs : cs[i].amount <= cs[i].reserved
  PROVE  LET ds == WithSpot(v, cs, address)
         IN  /\ ds \in Seq(Contributor)
             /\ \A i \in DOMAIN ds : ds[i].amount <= ds[i].reserved
             /\ \E i \in DOMAIN ds : ds[i].address = address
             /\ Len(ds) = IF \E i \in DOMAIN cs : cs[i].address = address THEN Len(cs) ELSE Len(cs) + 1
             /\ \A j \in 1..4 : /\ Amount(ds, j) = Amount(cs, j)
                                 /\ Reserved(ds, j) = Reserved(cs, j)
                                 /\ Locked(ds, j) = Locked(cs, j)
  <1> DEFINE ds == WithSpot(v, cs, address)
             new == [version |-> MinInfoVersion(v), amount |-> 0, reserved |-> 0,
                     address |-> address, locked_contributions |-> <<>>]
  <1>1. CASE \E i \in DOMAIN cs : cs[i].address = address
    BY <1>1 DEF WithSpot
  <1>2. CASE ~ \E i \in DOMAIN cs : cs[i].address = address
    <2>1. ds = Append(cs, new) BY <1>2 DEF WithSpot
    <2>2. new \in Contributor
      <3>1. <<>> \in Seq(Contribution) BY EmptySeq
      <3> QED BY <3>1 DEF Contributor, MinInfoVersion
    <2>3. /\ ds \in Seq(Contributor) /\ Len(ds) = Len(cs) + 1
          /\ \A i \in 1..Len(cs) : ds[i] = cs[i]
          /\ ds[Len(cs) + 1] = new
      BY <2>1, <2>2, AppendProperties
    <2>4. /\ Len(cs) \in Nat /\ DOMAIN cs = 1..Len(cs) /\ DOMAIN ds = 1..(Len(cs) + 1)
      BY <2>3, LenProperties
    <2>5. /\ new.amount = 0 /\ new.reserved = 0 /\ new.address = address
          /\ Len(new.locked_contributions) = 0
      OBVIOUS
    <2> HIDE DEF ds, new
    <2>6. \A i \in DOMAIN ds : ds[i].amount <= ds[i].reserved
      BY <2>3, <2>4, <2>5
    <2>7. \A j \in 1..4 : /\ Amount(ds, j) = Amount(cs, j)
                          /\ Reserved(ds, j) = Reserved(cs, j)
                          /\ Locked(ds, j) = Locked(cs, j)
      BY <2>3, <2>4, <2>5 DEF Amount, Reserved, Locked
    <2>8. \E i \in DOMAIN ds : ds[i].address = address BY <2>3, <2>4, <2>5
    <2> QED BY <1>2, <2>3, <2>6, <2>7, <2>8 DEF ds
  <1> QED BY <1>1, <1>2

\* No more key images are added than there is room for.
LEMMA LockedAfterBound ==
  ASSUME NEW v \in Nat, NEW c \in Contributor, NEW info, NEW parsed \in ParsedContribution,
         total_num_locked_contributions(info) \in 0..4
  PROVE  /\ LockedAfter(v, c, info, parsed) \in Seq(Contribution)
         /\ Len(LockedAfter(v, c, info, parsed))
              <= Len(c.locked_contributions) + (4 - total_num_locked_contributions(info))
  <1> DEFINE room == 4 - total_num_locked_contributions(info)
             new  == parsed.locked_contributions
             n    == IF Len(new) <= room THEN Len(new) ELSE room
             old  == c.locked_contributions
  <1>1. old \in Seq(Contribution) /\ new \in Seq(Contribution)
    BY DEF Contributor, ParsedContribution
  <1>2. Len(new) \in Nat /\ Len(old) \in Nat /\ room \in Nat BY <1>1, LenProperties
  <1>3. n \in Nat /\ n <= Len(new) /\ n <= room BY <1>2
  <1>4. \A i \in 1..n : new[i] \in Contribution BY <1>1, <1>2, <1>3, ElementOfSeq
  <1>5. SubSeq(new, 1, n) \in Seq(Contribution) /\ Len(SubSeq(new, 1, n)) <= room
    <2> HIDE DEF n, new, room
    <2>1. SubSeq(new, 1, n) \in Seq(Contribution) /\ Len(SubSeq(new, 1, n)) = IF 1 <= n THEN n - 1 + 1 ELSE 0
      BY <1>3, <1>4, SubSeqProperties
    <2> QED BY <1>2, <1>3, <2>1
  <1>6. /\ old \o SubSeq(new, 1, n) \in Seq(Contribution)
        /\ Len(old \o SubSeq(new, 1, n)) = Len(old) + Len(SubSeq(new, 1, n))
    BY <1>1, <1>5, ConcatProperties
  <1>7. LockedAfter(v, c, info, parsed) = IF v < 11 THEN old ELSE old \o SubSeq(new, 1, n)
    BY DEF LockedAfter
  <1>8. Len(SubSeq(new, 1, n)) \in Nat BY <1>5, LenProperties
  <1> HIDE DEF old, new, n, room
  <1>9. /\ LockedAfter(v, c, info, parsed) \in Seq(Contribution)
        /\ Len(LockedAfter(v, c, info, parsed)) <= Len(old) + room
    BY <1>1, <1>2, <1>5, <1>6, <1>7, <1>8
  <1> QED BY <1>9 DEF old, room

\* process_contribution_tx keeps the accounts balanced: the amount is capped by
\* what the contributor has reserved and what nobody has, so the unsigned
\* differences max_amount - contributor.amount and staking_requirement -
\* total_reserved never wrap, and total_reserved stays within the requirement.
THEOREM ContributedBalanced ==
  ASSUME NEW v \in Nat, NEW info \in Info, NEW parsed \in ParsedContribution,
         NEW h \in Nat, NEW which \in Nat,
         StakeBalanced(info), AcceptsContribution(v, info, parsed)
  PROVE  /\ ContributedInfo(v, info, parsed, h, which) \in Info
         /\ StakeBalanced(ContributedInfo(v, info, parsed, h, which))
  <1> DEFINE S    == STAKING_REQUIREMENT
             cs0  == info.contributors
             cs   == WithSpot(v, cs0, parsed.address)
             k    == CHOOSE i \in DOMAIN cs : cs[i].address = parsed.address
             c    == cs[k]
             ca   == c.amount
             cr   == c.reserved
             tr   == info.total_reserved
             tc   == info.total_contributed
             tf   == parsed.transferred
             max_amount == cr + (S - tr)
             spare == max_amount - ca
             paid == IF spare < tf THEN spare ELSE tf
             amount == ca + paid
             reserved == IF amount > cr THEN amount ELSE cr
             grown == reserved - cr
             locked == LockedAfter(v, c, info, parsed)
             d    == [c EXCEPT !.amount = amount, !.reserved = reserved, !.locked_contributions = locked]
             ds   == [cs EXCEPT ![k] = d]
             new  == ContributedInfo(v, info, parsed, h, which)
  <1>1. /\ cs0 \in Seq(Contributor) /\ Len(cs0) <= 4 /\ S \in Nat
        /\ info.total_reserved \in Nat /\ info.total_reserved <= S /\ info.total_contributed \in Nat
        /\ \A i \in DOMAIN cs0 : cs0[i].amount <= cs0[i].reserved
        /\ parsed.address \in Addresses /\ parsed.transferred \in Nat
    BY RulesAssumption DEF Info, StakeBalanced, ParsedContribution
  <1>2. /\ cs \in Seq(Contributor)
        /\ \A i \in DOMAIN cs : cs[i].amount <= cs[i].reserved
        /\ \E i \in DOMAIN cs : cs[i].address = parsed.address
        /\ Len(cs) = IF \E i \in DOMAIN cs0 : cs0[i].address = parsed.address THEN Len(cs0) ELSE Len(cs0) + 1
        /\ \A j \in 1..4 : /\ Amount(cs, j) = Amount(cs0, j)
                            /\ Reserved(cs, j) = Reserved(cs0, j)
                            /\ Locked(cs, j) = Locked(cs0, j)
    BY <1>1, SpotKeepsSums, ZenonT(60)
  <1>3. Len(cs) \in Nat /\ Len(cs) <= 4 /\ DOMAIN cs = 1..Len(cs)
    <2>1. Len(cs0) \in Nat BY <1>1, LenProperties
    <2>2. ~(\E i \in DOMAIN cs0 : cs0[i].address = parsed.address) => Len(cs0) < 4
      BY DEF AcceptsContribution, IsContributor
    <2> HIDE DEF cs
    <2> QED BY <1>1, <1>2, <2>1, <2>2, LenProperties
  <1>4. k \in DOMAIN cs /\ k \in 1..4
    <2> HIDE DEF cs
    <2>1. k \in DOMAIN cs BY <1>2
    <2> HIDE DEF k
    <2> QED BY <1>3, <2>1
  <1>5. c \in Contributor /\ c.amount \in Nat /\ c.reserved \in Nat /\ c.amount <= c.reserved
        /\ Len(c.locked_contributions) \in Nat
    <2> HIDE DEF cs, k
    <2> QED BY <1>2, <1>4, ContributorAt
  <1>6. /\ paid \in Nat /\ amount \in Nat /\ reserved \in Nat /\ grown \in Nat
        /\ amount = ca + paid /\ amount <= reserved
        /\ cr <= reserved /\ tr + grown <= S /\ reserved = cr + grown
    <2>1. /\ S \in Nat /\ tr \in Nat /\ tr <= S /\ tf \in Nat
          /\ ca \in Nat /\ cr \in Nat /\ ca <= cr
      BY <1>1, <1>5
    <2> HIDE DEF S, tr, tf, ca, cr
    <2>2. spare \in Nat /\ spare = cr + (S - tr) - ca BY <2>1
    <2> HIDE DEF spare, max_amount
    <2>3. paid \in Nat /\ paid <= spare BY <2>1, <2>2
    <2> HIDE DEF paid
    <2> QED BY <2>1, <2>2, <2>3
  <1>7. /\ new.contributors = ds
        /\ new.total_contributed = tc + paid
        /\ new.total_reserved = tr + grown
        /\ new = [info EXCEPT !.contributors = ds, !.total_contributed = tc + paid,
                     !.total_reserved = tr + grown,
                     !.last_reward_block_height = h, !.last_reward_transaction_index = which]
    <2>1. new = [info EXCEPT !.contributors = ds, !.total_contributed = tc + paid,
                     !.total_reserved = tr + grown,
                     !.last_reward_block_height = h, !.last_reward_transaction_index = which]
      BY DEF ContributedInfo
    <2> HIDE DEF ds, paid, grown, tc, tr, new
    <2> QED BY <2>1 DEF Info
  <1>8. /\ AmountOf(cs0) = Amount(cs, 1) + Amount(cs, 2) + Amount(cs, 3) + Amount(cs, 4)
        /\ ReservedOf(cs0) = Reserved(cs, 1) + Reserved(cs, 2) + Reserved(cs, 3) + Reserved(cs, 4)
        /\ total_num_locked_contributions(info) = Locked(cs, 1) + Locked(cs, 2) + Locked(cs, 3) + Locked(cs, 4)
    <2>1. /\ AmountOf(cs0) = Amount(cs0, 1) + Amount(cs0, 2) + Amount(cs0, 3) + Amount(cs0, 4)
          /\ ReservedOf(cs0) = Reserved(cs0, 1) + Reserved(cs0, 2) + Reserved(cs0, 3) + Reserved(cs0, 4)
          /\ total_num_locked_contributions(info) = Locked(cs0, 1) + Locked(cs0, 2) + Locked(cs0, 3) + Locked(cs0, 4)
      BY <1>1, SumsBySlot
    <2> HIDE DEF cs, cs0
    <2> QED BY <1>2, <2>1
  <1> DEFINE total == total_num_locked_contributions(info)
             l1 == Locked(cs, 1)
             l2 == Locked(cs, 2)
             l3 == Locked(cs, 3)
             l4 == Locked(cs, 4)
             lk == Len(c.locked_contributions)
             ln == Len(locked)
  <1>9. /\ total \in 0..4 /\ total = l1 + l2 + l3 + l4
        /\ l1 \in Nat /\ l2 \in Nat /\ l3 \in Nat /\ l4 \in Nat
    <2>1. l1 \in Nat /\ l2 \in Nat /\ l3 \in Nat /\ l4 \in Nat BY <1>2, SlotTypes
    <2>2. total <= 4 /\ total = l1 + l2 + l3 + l4 BY <1>8 DEF StakeBalanced
    <2> HIDE DEF total, l1, l2, l3, l4
    <2> QED BY <2>1, <2>2
  <1>10. locked \in Seq(Contribution) /\ ln \in Nat /\ lk \in Nat /\ ln <= lk + (4 - total)
    <2> HIDE DEF c
    <2> QED BY <1>5, <1>9, LockedAfterBound, LenProperties
  <1>11. /\ d \in Contributor /\ d.amount = amount /\ d.reserved = reserved
         /\ d.locked_contributions = locked
    <2> HIDE DEF c, amount, reserved, locked
    <2> QED BY <1>5, <1>6, <1>10 DEF Contributor
  <1>12. /\ ds \in Seq(Contributor) /\ Len(ds) = Len(cs) /\ DOMAIN ds = DOMAIN cs
         /\ \A j \in DOMAIN cs : ds[j] = IF j = k THEN d ELSE cs[j]
    <2> HIDE DEF cs, k, d, c, ca, cr, amount, reserved, paid, locked
    <2> QED BY <1>2, <1>3, <1>4, <1>11, ExceptSeq, LenProperties
  <1>13. /\ Amount(cs, k) = ca /\ Reserved(cs, k) = cr /\ Locked(cs, k) = lk
         /\ Amount(ds, k) = amount /\ Reserved(ds, k) = reserved /\ Locked(ds, k) = ln
    <2> HIDE DEF cs, k, d, ds, amount, reserved, locked
    <2> QED BY <1>4, <1>11, <1>12 DEF Amount, Reserved, Locked
  <1>14. \A j \in 1..4 : j # k => /\ Amount(ds, j) = Amount(cs, j)
                                 /\ Reserved(ds, j) = Reserved(cs, j)
                                 /\ Locked(ds, j) = Locked(cs, j)
    <2> HIDE DEF cs, k, d, ds
    <2> QED BY <1>12 DEF Amount, Reserved, Locked
  <1>15. /\ AmountOf(ds) = Amount(ds, 1) + Amount(ds, 2) + Amount(ds, 3) + Amount(ds, 4)
         /\ ReservedOf(ds) = Reserved(ds, 1) + Reserved(ds, 2) + Reserved(ds, 3) + Reserved(ds, 4)
         /\ total_num_locked_contributions(new) = Locked(ds, 1) + Locked(ds, 2) + Locked(ds, 3) + Locked(ds, 4)
    <2> HIDE DEF ds, new
    <2> QED BY <1>7, <1>12, SumsBySlot
  <1>16. \A j \in 1..4 : Amount(cs, j) \in Nat /\ Reserved(cs, j) \in Nat /\ Locked(cs, j) \in Nat
    BY <1>2, SlotTypes
  <1>17. ca \in Nat /\ cr \in Nat BY <1>5
  <1> HIDE DEF cs, k, c, d, ds, new, locked, ca, cr, tr, tc, tf, spare, amount, reserved, paid, grown, lk, ln
  <1>18. k = 1 \/ k = 2 \/ k = 3 \/ k = 4 BY <1>4
  <1>19. AmountOf(ds) = AmountOf(cs0) + paid
    BY <1>6, <1>8, <1>13, <1>14, <1>15, <1>16, <1>17, <1>18
  <1>20. ReservedOf(ds) = ReservedOf(cs0) + grown
    BY <1>6, <1>8, <1>13, <1>14, <1>15, <1>16, <1>17, <1>18
  <1>21. total_num_locked_contributions(new) <= 4
    <2> DEFINE m1 == Locked(ds, 1)
               m2 == Locked(ds, 2)
               m3 == Locked(ds, 3)
               m4 == Locked(ds, 4)
    <2>1. \/ m1 = ln /\ l1 = lk /\ m2 = l2 /\ m3 = l3 /\ m4 = l4
          \/ m2 = ln /\ l2 = lk /\ m1 = l1 /\ m3 = l3 /\ m4 = l4
          \/ m3 = ln /\ l3 = lk /\ m1 = l1 /\ m2 = l2 /\ m4 = l4
          \/ m4 = ln /\ l4 = lk /\ m1 = l1 /\ m2 = l2 /\ m3 = l3
      BY <1>13, <1>14, <1>18
    <2>2. total_num_locked_contributions(new) = m1 + m2 + m3 + m4 BY <1>15
    <2> HIDE DEF m1, m2, m3, m4, l1, l2, l3, l4, total
    <2> QED BY <1>9, <1>10, <2>1, <2>2
  <1>22. new \in Info
    <2>1. tc \in Nat /\ tr \in Nat BY <1>1 DEF tc, tr
    <2>2. tc + paid \in Nat /\ tr + grown \in Nat BY <1>6, <2>1
    <2> QED BY <1>7, <1>12, <2>2 DEF Info
  <1>23. tc = AmountOf(cs0) /\ tr = ReservedOf(cs0) BY DEF StakeBalanced, tc, tr
  <1>24. \A i \in DOMAIN ds : ds[i].amount <= ds[i].reserved
    BY <1>2, <1>6, <1>11, <1>12
  <1> QED BY <1>3, <1>6, <1>7, <1>12, <1>19, <1>20, <1>21, <1>22, <1>23, <1>24 DEF StakeBalanced, new

HIDE DEF MAX_NUMBER_OF_CONTRIBUTORS, MAX_KEY_IMAGES_PER_CONTRIBUTOR, MAX_LOCKED_CONTRIBUTIONS
------------------------------------------------------------------------------
(***************************************************************************)
(* The list.                                                               *)
(***************************************************************************)
GoodInfo == {info \in Info : StakeBalanced(info)}
GoodInfos == [Nodes -> GoodInfo \cup {None}]

\* The rollback events, with balanced infos.
GoodEvent == [type : {"change"}, height : Nat, saved : GoodInfos]
               \cup [type : {"new", "unlock"}, height : Nat, key : Nodes]
               \cup [type : {"prevent"}, height : Nat]
               \cup [type : {"blacklist"}, height : Nat, entries : SUBSET BlacklistEntry, adding : BOOLEAN]

\* IsState with balanced infos.
GoodState(s) ==
  /\ s = [infos |-> s.infos, blacklist |-> s.blacklist, quorums |-> s.quorums,
          events |-> s.events, height |-> s.height]
  /\ s.infos \in GoodInfos
  /\ s.blacklist \subseteq BlacklistEntry
  /\ IsQuorums(s.quorums)
  /\ s.events \in Seq(GoodEvent)
  /\ s.height \in Nat

\* A good state is typed, and all of its infos balance.
LEMMA GoodStateBalanced ==
  ASSUME NEW s, GoodState(s)
  PROVE  IsState(s) /\ \A info \in InfosOf(s.infos) \cup SavedInfos(s) : StakeBalanced(info)
  <1>1. GoodInfos \subseteq Infos BY DEF GoodInfos, Infos, GoodInfo
  <1>2. GoodEvent \subseteq Event BY <1>1 DEF GoodEvent, Event
  <1>3. IsState(s)
    <2>1. s.events \in Seq(Event) BY <1>2, SeqMonotonic DEF GoodState
    <2> QED BY <1>1, <2>1 DEF GoodState, IsState
  <1>4. \A info \in InfosOf(s.infos) : StakeBalanced(info)
    BY DEF GoodState, GoodInfos, GoodInfo, InfosOf
  <1>5. ASSUME NEW i \in DOMAIN s.events, s.events[i].type = "change"
        PROVE  s.events[i].saved \in GoodInfos
    <2>1. s.events[i] \in GoodEvent BY LenProperties, ElementOfSeq DEF GoodState
    <2> QED BY <1>5, <2>1 DEF GoodEvent
  <1>6. \A info \in SavedInfos(s) : StakeBalanced(info)
    BY <1>5 DEF SavedInfos, InfosOf, GoodInfos, GoodInfo
  <1> QED BY <1>3, <1>4, <1>6

\* Setting fields of a state record.
LEMMA SetFields ==
  ASSUME NEW s, GoodState(s), NEW infos \in GoodInfos, NEW blacklist \in SUBSET BlacklistEntry,
         NEW events \in Seq(GoodEvent), NEW h \in Nat
  PROVE  /\ GoodState([s EXCEPT !.infos = infos])
         /\ GoodState([s EXCEPT !.blacklist = blacklist])
         /\ GoodState([s EXCEPT !.events = events])
         /\ GoodState([s EXCEPT !.height = h])
         /\ [s EXCEPT !.infos = infos].events = s.events
         /\ [s EXCEPT !.infos = infos].blacklist = s.blacklist
         /\ [s EXCEPT !.blacklist = blacklist].infos = s.infos
         /\ [s EXCEPT !.blacklist = blacklist].events = s.events
         /\ [s EXCEPT !.events = events].infos = s.infos
         /\ [s EXCEPT !.events = events].blacklist = s.blacklist
         /\ [s EXCEPT !.events = events].quorums = s.quorums
  BY DEF GoodState

\* Appending to rollback_events touches neither the infos nor the blacklist.
LEMMA PushEventGood ==
  ASSUME NEW s, GoodState(s), NEW e \in GoodEvent
  PROVE  /\ GoodState(PushEvent(s, e))
         /\ PushEvent(s, e).infos = s.infos /\ PushEvent(s, e).blacklist = s.blacklist
  <1>1. Append(s.events, e) \in Seq(GoodEvent) BY AppendProperties DEF GoodState
  <1> QED BY <1>1 DEF GoodState, PushEvent

\* Saving infos in a rollback_change and replacing them by good ones.
LEMMA ChangeNodesGood ==
  ASSUME NEW s, GoodState(s), NEW h \in Nat, NEW S \in SUBSET Nodes, NEW infos,
         \A n \in S : infos[n] \in GoodInfo \cup {None}
  PROVE  /\ GoodState(ChangeNodes(s, h, S, infos))
         /\ ChangeNodes(s, h, S, infos).blacklist = s.blacklist
  <1> DEFINE saved == [n \in Nodes |-> IF n \in S THEN s.infos[n] ELSE None]
             new   == [n \in Nodes |-> IF n \in S THEN infos[n] ELSE s.infos[n]]
             e     == rollback_change(h, saved)
  <1>1. saved \in GoodInfos /\ new \in GoodInfos BY DEF GoodState, GoodInfos
  <1>2. e \in GoodEvent
    <2> HIDE DEF saved
    <2> QED BY <1>1 DEF GoodEvent, rollback_change
  <1>3. GoodState(PushEvent(s, e)) /\ PushEvent(s, e).blacklist = s.blacklist BY <1>2, PushEventGood
  <1>4. ChangeNodes(s, h, S, infos) = IF S = {} THEN s ELSE [PushEvent(s, e) EXCEPT !.infos = new]
    BY DEF ChangeNodes
  <1> HIDE DEF e, new
  <1>5. /\ GoodState([PushEvent(s, e) EXCEPT !.infos = new])
        /\ [PushEvent(s, e) EXCEPT !.infos = new].blacklist = s.blacklist
    BY <1>1, <1>3 DEF GoodState
  <1> QED BY <1>4, <1>5
------------------------------------------------------------------------------
(***************************************************************************)
(* Each operation of block_added_generic keeps a good state good.          *)
(***************************************************************************)
\* The accounts do not depend on the other fields of an info.
LEMMA GoodInfoFields ==
  ASSUME NEW info \in GoodInfo, NEW h \in Nat, NEW i \in Nat, NEW id \in SwarmIds
  PROVE  /\ [info EXCEPT !.last_reward_block_height = h, !.last_reward_transaction_index = i] \in GoodInfo
         /\ [info EXCEPT !.requested_unlock_height = h] \in GoodInfo
         /\ [info EXCEPT !.swarm_id = id] \in GoodInfo
  BY DEF GoodInfo, Info, StakeBalanced, total_num_locked_contributions

\* get_contribution returns a typed contribution.
LEMMA ContributionParsed ==
  ASSUME NEW tx \in Txs, NEW v \in Nat, NEW h \in Nat, tx.contribution # None
  PROVE  get_contribution(v, tx, h) \in ParsedContribution
  <1> DEFINE c == tx.contribution
             parsed == get_contribution(v, tx, h)
             locked == [i \in DOMAIN c.outs |-> [key_image |-> <<tx.id, i>>, amount |-> c.outs[i]]]
  <1>1. /\ c \in [address : Addresses, outs : Seq(Nat), unlock_time : Nat, proofs : BOOLEAN]
        /\ tx.id \in TxIds /\ Len(c.outs) <= 4
    BY DataAssumption DEF Tx, MAX_STAKING_OUTPUTS
  <1>2. c.address \in Addresses /\ c.outs \in Seq(Nat) BY <1>1
  <1>3. Len(c.outs) \in Nat /\ DOMAIN c.outs = 1..Len(c.outs) BY <1>2, LenProperties
  <1>4. Sum4(c.outs) \in Nat
    <2>1. \A j : ElementOr0(c.outs, j) \in Nat BY <1>2, <1>3, ElementOfSeq DEF ElementOr0
    <2> QED BY <2>1 DEF Sum4
  <1>5. ASSUME NEW i \in 1..Len(c.outs)
        PROVE  [key_image |-> <<tx.id, i>>, amount |-> c.outs[i]] \in Contribution
    <2>1. c.outs[i] \in Nat BY <1>2, ElementOfSeq
    <2>2. i \in 1..4 BY <1>1, <1>3
    <2> QED BY <1>1, <2>1, <2>2 DEF Contribution, KeyImages, MAX_STAKING_OUTPUTS
  <1>6. locked \in Seq(Contribution)
    <2>1. locked \in [1..Len(c.outs) -> Contribution] BY <1>3, <1>5
    <2> QED BY <1>3, <2>1, FunctionIsSeq
  <1>7. <<>> \in Seq(Contribution) BY EmptySeq
  <1>8. parsed = [address |-> c.address,
                  transferred |-> IF v >= 11 \/ c.unlock_time >= h + LOCK_BLOCKS THEN Sum4(c.outs) ELSE 0,
                  locked_contributions |-> IF v >= 11 THEN locked ELSE <<>>]
    BY DEF get_contribution
  <1> HIDE DEF locked, parsed, c
  <1> QED BY <1>2, <1>4, <1>6, <1>7, <1>8 DEF ParsedContribution, parsed

\* The hard fork version of a height of the chain is a number.
LEMMA VersionType ==
  ASSUME NEW h \in 0..MaxHeight
  PROVE  HardForkVersion(h) \in Nat
  BY ListAssumption

\* process_registration_tx adds a balanced info.
LEMMA RegistrationGood ==
  ASSUME NEW s, GoodState(s), NEW tx \in Txs, NEW h \in 0..MaxHeight, NEW i \in Nat,
         IsNewRegistration(s, tx, h)
  PROVE  GoodState(process_registration_tx(s, tx, h, i))
  <1> DEFINE v   == HardForkVersion(h)
             new == RegisteredInfo(v, tx, h, i)
             old == s.infos[tx.node]
             set == IF old = None THEN new
                    ELSE [new EXCEPT
                            !.last_reward_block_height = old.last_reward_block_height,
                            !.last_reward_transaction_index = old.last_reward_transaction_index]
             e   == rollback_new(h, tx.node)
  <1>1. v \in Nat /\ h \in Nat BY VersionType
  <1>2. /\ tx.registration # None /\ tx.node # None
        /\ Len(tx.registration.portions) = Len(tx.registration.addresses)
        /\ check_full_node_portions(v, tx.registration.portions)
    BY DEF IsNewRegistration, is_registration_tx
  <1>3. /\ tx.node \in Nodes
        /\ tx.registration \in [addresses : Seq(Addresses), portions : Seq(Nat), authentic : BOOLEAN]
    BY <1>2, DataAssumption DEF Tx
  <1>4. Sum4(tx.registration.portions) < UINT64 BY <1>2, PortionsDoNotWrap
  <1>5. new \in GoodInfo
    BY <1>1, <1>2, <1>3, <1>4, RegisteredBalanced DEF GoodInfo
  <1>6. old \in GoodInfo \cup {None} BY <1>3 DEF GoodState, GoodInfos
  <1>7. set \in GoodInfo
    <2>1. old # None => old.last_reward_block_height \in Nat /\ old.last_reward_transaction_index \in Nat
      BY <1>6 DEF GoodInfo, Info
    <2>2. 0 \in SwarmIds BY InfoAssumption
    <2> HIDE DEF new, old
    <2> QED BY <1>5, <2>1, <2>2, GoodInfoFields
  <1>8. e \in GoodEvent BY <1>1, <1>3 DEF GoodEvent, rollback_new
  <1>9. process_registration_tx(s, tx, h, i) = [PushEvent(s, e) EXCEPT !.infos[tx.node] = set]
    BY DEF process_registration_tx
  <1> HIDE DEF set, e
  <1>10. GoodState(PushEvent(s, e)) BY <1>8, PushEventGood
  <1> DEFINE t == PushEvent(s, e)
  <1> DEFINE infos == [t.infos EXCEPT ![tx.node] = set]
  <1>11. infos \in GoodInfos BY <1>3, <1>7, <1>10 DEF GoodState, GoodInfos
  <1>12. GoodState(t) BY <1>10
  <1> HIDE DEF t
  <1>13. [t EXCEPT !.infos[tx.node] = set] = [t EXCEPT !.infos = infos] BY <1>12 DEF GoodState
  <1> HIDE DEF infos
  <1>14. GoodState([t EXCEPT !.infos = infos])
    <2>1. 0 \in Nat /\ t.events \in Seq(GoodEvent) /\ t.blacklist \in SUBSET BlacklistEntry
      BY <1>12 DEF GoodState
    <2> QED BY <1>11, <1>12, <2>1, SetFields
  <1> QED BY <1>9, <1>13, <1>14 DEF t

\* process_contribution_tx keeps the accounts balanced.
LEMMA ContributionGood ==
  ASSUME NEW s, GoodState(s), NEW tx \in Txs, NEW h \in 0..MaxHeight, NEW i \in Nat
  PROVE  GoodState(process_contribution_tx(s, tx, h, i))
  <1>1. CASE ~IsContribution(s, tx, h) BY <1>1 DEF process_contribution_tx
  <1>2. CASE IsContribution(s, tx, h)
    <2> DEFINE v   == HardForkVersion(h)
               parsed == get_contribution(v, tx, h)
               info == s.infos[tx.node]
               new == ContributedInfo(v, info, parsed, h, i)
               infos == [n \in {tx.node} |-> ContributedInfo(v, s.infos[n], parsed, h, i)]
    <2>1. v \in Nat /\ h \in Nat BY VersionType
    <2>2. tx.node # None /\ info # None /\ tx.contribution # None /\ AcceptsContribution(v, info, parsed)
      BY <1>2 DEF IsContribution, HasContribution
    <2>3. tx.node \in Nodes BY <2>2, DataAssumption DEF Tx
    <2>4. info \in GoodInfo BY <2>2, <2>3 DEF GoodState, GoodInfos
    <2>5. parsed \in ParsedContribution BY <2>1, <2>2, ContributionParsed
    <2>6. new \in GoodInfo
      <3> HIDE DEF info, parsed, v
      <3> QED BY <2>1, <2>2, <2>4, <2>5, ContributedBalanced DEF GoodInfo
    <2>7. process_contribution_tx(s, tx, h, i) = ChangeNodes(s, h, {tx.node}, infos)
      BY <1>2 DEF process_contribution_tx
    <2>8. \A n \in {tx.node} : infos[n] \in GoodInfo \cup {None} BY <2>6
    <2> HIDE DEF infos
    <2> QED BY <2>1, <2>3, <2>7, <2>8, ChangeNodesGood
  <1> QED BY <1>1, <1>2

\* The key images a full_node_info locks are key images.
LEMMA KeyImagesTyped ==
  ASSUME NEW info \in Info
  PROVE  KeyImagesOf(info) \subseteq KeyImages
  <1> SUFFICES ASSUME NEW i \in DOMAIN info.contributors,
                      NEW j \in DOMAIN info.contributors[i].locked_contributions
               PROVE  info.contributors[i].locked_contributions[j].key_image \in KeyImages
    BY DEF KeyImagesOf
  <1>1. info.contributors \in Seq(Contributor) BY DEF Info
  <1>2. info.contributors[i].locked_contributions \in Seq(Contribution) BY <1>1, ContributorAt
  <1>3. info.contributors[i].locked_contributions[j] \in Contribution
    BY <1>2, LenProperties, ElementOfSeq
  <1> QED BY <1>3 DEF Contribution

\* process_deregistration_tx saves and erases an info and blacklists key images.
LEMMA DeregistrationGood ==
  ASSUME NEW s, GoodState(s), NEW tx, NEW h \in Nat, IsDeregistration(s, tx),
         DeregisterTarget(s, tx) \in Nodes
  PROVE  GoodState(process_deregistration_tx(s, tx, h))
  <1> DEFINE n == DeregisterTarget(s, tx)
             entries == {[key_image |-> k, unlock_height |-> h + LOCK_BLOCKS] : k \in KeyImagesOf(s.infos[n])}
             removed == ChangeNodes(s, h, {n}, NoInfos)
             e == rollback_key_image_blacklist(h, entries, TRUE)
  <1>1. s.infos[n] \in Info BY DEF IsDeregistration, GoodState, GoodInfos, GoodInfo
  <1>2. entries \subseteq BlacklistEntry
    <2>1. KeyImagesOf(s.infos[n]) \subseteq KeyImages BY <1>1, KeyImagesTyped
    <2>2. h + LOCK_BLOCKS \in Nat BY InfoAssumption
    <2> HIDE DEF n
    <2> QED BY <2>1, <2>2 DEF BlacklistEntry
  <1>3. GoodState(removed) /\ removed.blacklist = s.blacklist
    <2>1. \A m \in {n} : NoInfos[m] \in GoodInfo \cup {None} BY DEF NoInfos
    <2> QED BY <2>1, ChangeNodesGood
  <1>4. e \in GoodEvent
    <2> HIDE DEF entries
    <2> QED BY <1>2 DEF GoodEvent, rollback_key_image_blacklist
  <1> DEFINE t == PushEvent(removed, e)
  <1>5. GoodState(t)
    <2> HIDE DEF removed, e
    <2> QED BY <1>3, <1>4, PushEventGood
  <1>6. process_deregistration_tx(s, tx, h) =
          IF HardForkVersion(h) < 11 \/ entries = {} THEN removed
          ELSE [t EXCEPT !.blacklist = t.blacklist \cup entries]
    BY DEF process_deregistration_tx
  <1> HIDE DEF t, removed, entries
  <1>7. GoodState([t EXCEPT !.blacklist = t.blacklist \cup entries])
    <2> DEFINE b == t.blacklist \cup entries
    <2>1. b \subseteq BlacklistEntry BY <1>2, <1>5 DEF GoodState
    <2> HIDE DEF b
    <2>2. GoodState([t EXCEPT !.blacklist = b]) BY <1>5, <2>1 DEF GoodState
    <2> QED BY <2>2 DEF b
  <1> QED BY <1>3, <1>6, <1>7

\* A key image unlock transaction only sets the unlock height.
LEMMA UnlockGood ==
  ASSUME NEW s, GoodState(s), NEW tx, tx.node \in Nodes, NEW h \in Nat
  PROVE  GoodState(process_unlock_tx(s, tx, h))
  <1>1. CASE s.infos[tx.node] # None
    <2> DEFINE n == tx.node
               e == rollback_key_image_unlock(h, n)
               t == PushEvent(s, e)
               u == UnlockHeight(h)
               info == [t.infos[n] EXCEPT !.requested_unlock_height = u]
    <2>1. u \in Nat
      <3>1. LOCK_BLOCKS \in Nat BY InfoAssumption
      <3>2. LOCK_BLOCKS \div 2 \in Nat BY <3>1
      <3> QED BY <3>2 DEF UnlockHeight
    <2>2. e \in GoodEvent BY DEF GoodEvent, rollback_key_image_unlock
    <2>3. GoodState(t) /\ t.infos = s.infos BY <2>2, PushEventGood
    <2>4. t.infos[n] \in GoodInfo BY <1>1, <2>3 DEF GoodState, GoodInfos
    <2>5. info \in GoodInfo
      <3> HIDE DEF u, t
      <3>1. 0 \in SwarmIds BY InfoAssumption
      <3> QED BY <2>1, <2>4, <3>1, GoodInfoFields
    <2> HIDE DEF t, u, info
    <2>6. [t.infos EXCEPT ![n] = info] \in GoodInfos BY <2>3, <2>5 DEF GoodState, GoodInfos
    <2>7. GoodState([t EXCEPT !.infos = [t.infos EXCEPT ![n] = info]])
      <3> DEFINE x == [t.infos EXCEPT ![n] = info]
      <3>1. x \in GoodInfos BY <2>6
      <3> HIDE DEF x
      <3>2. GoodState([t EXCEPT !.infos = x]) BY <2>3, <3>1 DEF GoodState
      <3> QED BY <3>2 DEF x
    <2>8. [t EXCEPT !.infos[n].requested_unlock_height = u]
             = [t EXCEPT !.infos = [t.infos EXCEPT ![n] = info]]
      BY <2>3 DEF GoodState, info
    <2>9. process_unlock_tx(s, tx, h) = s
            \/ process_unlock_tx(s, tx, h) = [t EXCEPT !.infos[n].requested_unlock_height = u]
      BY DEF process_unlock_tx, t, u
    <2> QED BY <2>7, <2>8, <2>9
  <1>2. CASE s.infos[tx.node] = None BY <1>2 DEF process_unlock_tx
  <1> QED BY <1>1, <1>2

\* A quorum state names nodes only.
LEMMA TargetIsNode ==
  ASSUME NEW s, GoodState(s), NEW tx, DeregisterTarget(s, tx) # None
  PROVE  DeregisterTarget(s, tx) \in Nodes
  <1>1. /\ tx.height \in DOMAIN s.quorums /\ tx.index \in DOMAIN s.quorums[tx.height].nodes_to_test
        /\ DeregisterTarget(s, tx) = s.quorums[tx.height].nodes_to_test[tx.index]
    BY DEF DeregisterTarget
  <1>2. s.quorums[tx.height].nodes_to_test \in Seq(Nodes) BY <1>1 DEF GoodState, IsQuorums
  <1> QED BY <1>1, <1>2, LenProperties, ElementOfSeq

\* One round of the transaction loop of block_added_generic.
LEMMA ProcessedTxGood ==
  ASSUME NEW s, GoodState(s), NEW tx \in AnyTx, NEW h \in 0..MaxHeight, NEW i \in Nat
  PROVE  GoodState(ProcessedTx(s, tx, h, i))
  <1>1. CASE tx \in Txs
    <2>1. tx.type = "standard" BY <1>1, DataAssumption DEF Tx
    <2> DEFINE t == IF IsNewRegistration(s, tx, h) THEN process_registration_tx(s, tx, h, i) ELSE s
    <2>2. GoodState(t) BY <1>1, RegistrationGood
    <2>3. ProcessedTx(s, tx, h, i) = process_contribution_tx(t, tx, h, i) BY <2>1 DEF ProcessedTx
    <2> HIDE DEF t
    <2> QED BY <1>1, <2>2, <2>3, ContributionGood
  <1>2. CASE tx \in [type : {"deregister"}, height : Nat, index : Nat]
    <2>1. tx.type = "deregister" BY <1>2
    <2>2. ProcessedTx(s, tx, h, i) =
            IF IsDeregistration(s, tx) THEN process_deregistration_tx(s, tx, h) ELSE s
      BY <2>1 DEF ProcessedTx
    <2>3. IsDeregistration(s, tx) => DeregisterTarget(s, tx) \in Nodes
      BY TargetIsNode DEF IsDeregistration
    <2> QED BY <2>2, <2>3, DeregistrationGood
  <1>3. CASE tx \in [type : {"key_image_unlock"}, node : Nodes, key_image : KeyImages]
    <2>1. tx.type = "key_image_unlock" /\ tx.node \in Nodes BY <1>3
    <2>2. ProcessedTx(s, tx, h, i) = process_unlock_tx(s, tx, h) BY <2>1 DEF ProcessedTx
    <2> QED BY <2>1, <2>2, UnlockGood
  <1> QED BY <1>1, <1>2, <1>3 DEF AnyTx

\* The expiry of blacklisted key images in block_added_generic.
LEMMA ExpireBlacklistGood ==
  ASSUME NEW s, GoodState(s), NEW h \in Nat
  PROVE  GoodState(ExpireBlacklist(s, h))
  <1> DEFINE gone == {e \in s.blacklist : h >= e.unlock_height}
             t == PushEvent(s, rollback_key_image_blacklist(h, gone, FALSE))
             b == t.blacklist \ gone
  <1>1. gone \subseteq BlacklistEntry BY DEF GoodState
  <1>2. GoodState(t)
    <2> HIDE DEF gone
    <2>1. rollback_key_image_blacklist(h, gone, FALSE) \in GoodEvent
      BY <1>1 DEF GoodEvent, rollback_key_image_blacklist
    <2> QED BY <2>1, PushEventGood
  <1>3. ExpireBlacklist(s, h) = IF gone = {} THEN s ELSE [t EXCEPT !.blacklist = b]
    BY DEF ExpireBlacklist
  <1> HIDE DEF t, gone
  <1>4. b \subseteq BlacklistEntry BY <1>2 DEF GoodState
  <1> HIDE DEF b
  <1>5. GoodState([t EXCEPT !.blacklist = b]) BY <1>2, <1>4 DEF GoodState
  <1> QED BY <1>3, <1>5

\* The expiry of nodes in block_added_generic.
LEMMA ExpireNodesGood ==
  ASSUME NEW s, GoodState(s), NEW h \in Nat
  PROVE  GoodState(ExpireNodes(s, h))
  <1>1. ExpiredNodes(s, h) \subseteq Nodes BY DEF ExpiredNodes, Registered
  <1>2. \A n \in ExpiredNodes(s, h) : NoInfos[n] \in GoodInfo \cup {None} BY <1>1 DEF NoInfos
  <1> QED BY <1>1, <1>2, ChangeNodesGood DEF ExpireNodes

\* Moving the winner to the back of the reward queue.
LEMMA RewardWinnerGood ==
  ASSUME NEW s, GoodState(s), NEW blk, NEW h \in Nat
  PROVE  GoodState(RewardWinner(s, blk, h))
  <1>1. CASE blk.winner \notin Registered(s) BY <1>1 DEF RewardWinner
  <1>2. CASE blk.winner \in Registered(s)
    <2> DEFINE w == blk.winner
               infos == [n \in {w} |-> [s.infos[n] EXCEPT !.last_reward_block_height = h,
                                                          !.last_reward_transaction_index = UINT32_MAX]]
    <2>1. w \in Nodes /\ s.infos[w] \in GoodInfo
      BY <1>2 DEF Registered, GoodState, GoodInfos
    <2>2. infos[w] \in GoodInfo
      <3>1. UINT32_MAX \in Nat /\ 0 \in SwarmIds BY InfoAssumption
      <3> QED BY <2>1, <3>1, GoodInfoFields
    <2>3. RewardWinner(s, blk, h) = ChangeNodes(s, h, {w}, infos) BY <1>2 DEF RewardWinner
    <2> HIDE DEF infos
    <2> QED BY <2>1, <2>2, <2>3, ChangeNodesGood
  <1> QED BY <1>1, <1>2

\* The part of block_added_generic before its transaction loop.
LEMMA AdvancedListGood ==
  ASSUME NEW s, GoodState(s), NEW blk, NEW h \in Nat
  PROVE  GoodState(AdvancedList(s, blk, h))
  BY ExpireBlacklistGood, ExpireNodesGood, RewardWinnerGood DEF AdvancedList

\* update_swarms changes swarm ids only.
LEMMA UpdateSwarmsGood ==
  ASSUME NEW s, GoodState(s), NEW h \in Nat, NEW assignment \in [Registered(s) -> SwarmIds]
  PROVE  GoodState(UpdateSwarms(s, h, assignment))
  <1> DEFINE moved == {n \in Registered(s) : assignment[n] # s.infos[n].swarm_id}
             infos == [n \in moved |-> [s.infos[n] EXCEPT !.swarm_id = assignment[n]]]
  <1>1. moved \subseteq Nodes BY DEF Registered
  <1>2. ASSUME NEW n \in moved
        PROVE  infos[n] \in GoodInfo
    <2>1. s.infos[n] \in GoodInfo BY DEF Registered, GoodState, GoodInfos
    <2>2. assignment[n] \in SwarmIds OBVIOUS
    <2>3. [s.infos[n] EXCEPT !.swarm_id = assignment[n]] \in GoodInfo
      <3>1. 0 \in Nat OBVIOUS
      <3> QED BY <2>1, <2>2, <3>1, GoodInfoFields
    <2> QED BY <2>3
  <1>3. UpdateSwarms(s, h, assignment) = ChangeNodes(s, h, moved, infos) BY DEF UpdateSwarms
  <1> HIDE DEF moved, infos
  <1> QED BY <1>1, <1>2, <1>3, ChangeNodesGood

\* store_quorum_state_from_rewards_list caches a quorum of nodes: the quorum and
\* the tested nodes are disjoint ranges of the shuffled list.
LEMMA UpdateQuorumsGood ==
  ASSUME NEW s, GoodState(s), NEW blk, blk.hash \in Hashes, NEW h \in Nat
  PROVE  GoodState(UpdateQuorums(s, blk, h))
  <1> DEFINE order     == Shuffle(blk.hash, Funded(s))
             quorum    == Smaller(Len(order), QUORUM_SIZE)
             remaining == Len(order) - quorum
             tested    == Larger(remaining \div NTH_OF_THE_NETWORK_TO_TEST,
                                 Smaller(MIN_NODES_TO_TEST, remaining))
             q == QuorumState(s, blk.hash)
  <1>1. order \in Seq(Nodes)
    <2>1. Funded(s) \in SUBSET Nodes BY DEF Funded, Registered
    <2> QED BY <2>1, DataAssumption
  <1>2. Len(order) \in Nat /\ QUORUM_SIZE \in Nat /\ MIN_NODES_TO_TEST \in Nat
        /\ NTH_OF_THE_NETWORK_TO_TEST \in Nat /\ NTH_OF_THE_NETWORK_TO_TEST > 0
    BY <1>1, LenProperties, ListAssumption
  <1>3. quorum \in Nat /\ quorum <= Len(order) /\ remaining \in Nat
    <2> HIDE DEF order
    <2> QED BY <1>2 DEF Smaller
  <1>4. tested \in Nat /\ quorum + tested <= Len(order)
    <2> HIDE DEF order, quorum, remaining
    <2> DEFINE d == remaining \div NTH_OF_THE_NETWORK_TO_TEST
    <2>1. d \in Nat /\ NTH_OF_THE_NETWORK_TO_TEST * d <= remaining BY <1>2, <1>3, DivMod
    <2> HIDE DEF d
    <2>2. d <= remaining BY <1>2, <1>3, <2>1
    <2>3. d \in Nat /\ remaining \in Nat /\ MIN_NODES_TO_TEST \in Nat BY <1>2, <1>3, <2>1
    <2>4. Larger(d, Smaller(MIN_NODES_TO_TEST, remaining)) \in Nat
          /\ Larger(d, Smaller(MIN_NODES_TO_TEST, remaining)) <= remaining
      BY <2>2, <2>3 DEF Larger, Smaller
    <2>5. tested \in Nat /\ tested <= remaining BY <2>4 DEF d
    <2> HIDE DEF tested
    <2> QED BY <1>2, <1>3, <2>5 DEF remaining
  <1>5. q \in [quorum_nodes : Seq(Nodes), nodes_to_test : Seq(Nodes)]
    <2> HIDE DEF order, quorum, tested
    <2>1. \A i \in 1..quorum : order[i] \in Nodes BY <1>1, <1>2, <1>3, ElementOfSeq
    <2>2. \A i \in (quorum + 1)..(quorum + tested) : order[i] \in Nodes
      BY <1>1, <1>2, <1>3, <1>4, ElementOfSeq
    <2>3. SubSeq(order, 1, quorum) \in Seq(Nodes) BY <1>3, <2>1, SubSeqProperties
    <2>4. SubSeq(order, quorum + 1, quorum + tested) \in Seq(Nodes)
      <3>1. quorum + 1 \in Int /\ quorum + tested \in Int BY <1>3, <1>4
      <3> QED BY <2>2, <3>1, SubSeqProperties
    <2>5. q = [quorum_nodes |-> SubSeq(order, 1, quorum),
               nodes_to_test |-> SubSeq(order, quorum + 1, quorum + tested)]
      BY DEF QuorumState, order, quorum, tested
    <2> QED BY <2>3, <2>4, <2>5
  <1> DEFINE from == IF h < QUORUM_LIFETIME THEN 0 ELSE h - QUORUM_LIFETIME
             D == {k \in DOMAIN s.quorums \cup {h} : k >= from}
             new == [g \in D |-> IF g = h THEN q ELSE s.quorums[g]]
  <1>6. IsQuorums(new)
    <2> HIDE DEF q, from
    <2>1. D \subseteq Nat BY DEF GoodState, IsQuorums
    <2>2. \A g \in D : new[g] \in [quorum_nodes : Seq(Nodes), nodes_to_test : Seq(Nodes)]
      BY <1>5 DEF GoodState, IsQuorums
    <2> HIDE DEF D
    <2> QED BY <2>1, <2>2 DEF IsQuorums
  <1>7. UpdateQuorums(s, blk, h) = [s EXCEPT !.quorums = new] BY DEF UpdateQuorums
  <1> HIDE DEF new
  <1>8. GoodState([s EXCEPT !.quorums = new]) BY <1>6 DEF GoodState
  <1> QED BY <1>7, <1>8

------------------------------------------------------------------------------
\* Writing infos and reading them back keeps the accounts.
LEMMA SerializedInfosGood ==
  ASSUME NEW infos \in GoodInfos
  PROVE  SerializedInfos(infos) \in GoodInfos
  <1>1. ASSUME NEW n \in Nodes, infos[n] # None
        PROVE  SerializedInfo(infos[n]) \in GoodInfo
    <2>1. infos[n] \in Info /\ StakeBalanced(infos[n]) BY <1>1 DEF GoodInfos, GoodInfo
    <2> QED BY <2>1, SerializedBalanced DEF GoodInfo
  <1> QED BY <1>1 DEF SerializedInfos, GoodInfos

\* What load() returns is as good as what store() was given.
LEMMA SerializedGood ==
  ASSUME NEW s, GoodState(s)
  PROVE  GoodState(Serialized(s))
  <1> DEFINE infos == SerializedInfos(s.infos)
             events == [i \in DOMAIN s.events |-> SerializedEvent(s.events[i])]
             blacklist == IF MinInfoVersion(HardForkVersion(s.height - 1)) >= 2 THEN s.blacklist ELSE {}
  <1>1. infos \in GoodInfos BY SerializedInfosGood DEF GoodState
  <1>2. ASSUME NEW e \in GoodEvent
        PROVE  SerializedEvent(e) \in GoodEvent
    <2>1. CASE e.type = "change"
      <3>1. e \in [type : {"change"}, height : Nat, saved : GoodInfos] BY <2>1 DEF GoodEvent
      <3>2. SerializedInfos(e.saved) \in GoodInfos BY <3>1, SerializedInfosGood
      <3>3. SerializedEvent(e) = [e EXCEPT !.saved = SerializedInfos(e.saved)] BY <2>1 DEF SerializedEvent
      <3> QED BY <3>1, <3>2, <3>3 DEF GoodEvent
    <2>2. CASE e.type # "change" BY <2>2 DEF SerializedEvent
    <2> QED BY <2>1, <2>2
  <1>3. events \in Seq(GoodEvent)
    <2>1. s.events \in Seq(GoodEvent) BY DEF GoodState
    <2>2. Len(s.events) \in Nat /\ DOMAIN s.events = 1..Len(s.events) BY <2>1, LenProperties
    <2>3. \A i \in 1..Len(s.events) : SerializedEvent(s.events[i]) \in GoodEvent
      BY <1>2, <2>1, ElementOfSeq
    <2>4. events \in [1..Len(s.events) -> GoodEvent] BY <2>2, <2>3
    <2> QED BY <2>2, <2>4, FunctionIsSeq
  <1>4. blacklist \subseteq BlacklistEntry BY DEF GoodState
  <1>5. Serialized(s) = [s EXCEPT !.infos = infos, !.events = events, !.blacklist = blacklist]
    BY DEF Serialized
  <1> HIDE DEF infos, events, blacklist
  <1> QED BY <1>1, <1>3, <1>4, <1>5 DEF GoodState

\* Undoing an event brings back nothing but saved infos.
LEMMA UndoneGood ==
  ASSUME NEW s, GoodState(s), NEW e \in GoodEvent, CanUndo(s, e)
  PROVE  GoodState(Undone(s, e)) /\ Undone(s, e).events = s.events
  <1>1. CASE e.type = "change"
    <2>1. e.saved \in GoodInfos BY <1>1 DEF GoodEvent
    <2> DEFINE new == [n \in Nodes |-> IF e.saved[n] # None THEN e.saved[n] ELSE s.infos[n]]
    <2>2. new \in GoodInfos BY <2>1 DEF GoodInfos, GoodState
    <2>3. Undone(s, e) = [s EXCEPT !.infos = new] BY <1>1 DEF Undone
    <2> HIDE DEF new
    <2> QED BY <2>2, <2>3 DEF GoodState
  <1>2. CASE e.type = "new"
    <2>1. e.key \in Nodes BY <1>2 DEF GoodEvent
    <2> DEFINE new == [s.infos EXCEPT ![e.key] = None]
    <2>2. new \in GoodInfos BY <2>1 DEF GoodInfos, GoodState
    <2>3. Undone(s, e) = [s EXCEPT !.infos = new] BY <1>2 DEF Undone, GoodState
    <2> HIDE DEF new
    <2> QED BY <2>2, <2>3 DEF GoodState
  <1>3. CASE e.type = "unlock"
    <2>1. e.key \in Nodes BY <1>3 DEF GoodEvent
    <2>2. s.infos[e.key] \in GoodInfo BY <1>3, <2>1 DEF CanUndo, GoodState, GoodInfos
    <2> DEFINE info == [s.infos[e.key] EXCEPT !.requested_unlock_height = KEY_IMAGE_AWAITING_UNLOCK_HEIGHT]
               new == [s.infos EXCEPT ![e.key] = info]
    <2>3. info \in GoodInfo
      <3>1. KEY_IMAGE_AWAITING_UNLOCK_HEIGHT \in Nat /\ 0 \in Nat /\ 0 \in SwarmIds
        BY InfoAssumption DEF KEY_IMAGE_AWAITING_UNLOCK_HEIGHT
      <3> QED BY <2>2, <3>1, GoodInfoFields
    <2>4. Undone(s, e) = [s EXCEPT !.infos = new] BY <1>3 DEF Undone, GoodState
    <2> HIDE DEF info
    <2>5. new \in GoodInfos BY <2>1, <2>3 DEF GoodInfos, GoodState
    <2> HIDE DEF new
    <2> QED BY <2>4, <2>5 DEF GoodState
  <1>4. CASE e.type = "blacklist"
    <2>1. e.entries \subseteq BlacklistEntry BY <1>4 DEF GoodEvent
    <2> DEFINE new == IF e.adding THEN s.blacklist \ e.entries ELSE s.blacklist \cup e.entries
    <2>2. new \subseteq BlacklistEntry BY <2>1 DEF GoodState
    <2>3. Undone(s, e) = [s EXCEPT !.blacklist = new] BY <1>4 DEF Undone
    <2> HIDE DEF new
    <2> QED BY <2>2, <2>3 DEF GoodState
  <1>5. e.type # "prevent" BY DEF CanUndo
  <1> QED BY <1>1, <1>2, <1>3, <1>4, <1>5 DEF GoodEvent

\* Setting the height together with another field.
LEMMA SetHeightAnd ==
  ASSUME NEW s, GoodState(s), NEW h \in Nat, NEW events \in Seq(GoodEvent), NEW q, IsQuorums(q)
  PROVE  /\ GoodState([s EXCEPT !.height = h, !.events = events])
         /\ GoodState([s EXCEPT !.height = h, !.quorums = q])
  <1> DEFINE t == [s EXCEPT !.height = h]
  <1>1. GoodState(t) BY DEF GoodState
  <1>2. /\ [s EXCEPT !.height = h, !.events = events] = [t EXCEPT !.events = events]
        /\ [s EXCEPT !.height = h, !.quorums = q] = [t EXCEPT !.quorums = q]
    BY DEF GoodState
  <1> HIDE DEF t
  <1>3. GoodState([t EXCEPT !.events = events])
    <2>1. t.infos \in GoodInfos /\ t.blacklist \in SUBSET BlacklistEntry BY <1>1 DEF GoodState
    <2> QED BY <1>1, <2>1, SetFields
  <1>4. GoodState([t EXCEPT !.quorums = q]) BY <1>1 DEF GoodState
  <1> QED BY <1>2, <1>3, <1>4

\* The state clear() leaves behind.
LEMMA ClearedGood == GoodState(Cleared)
  <1>1. NoInfos \in GoodInfos BY DEF NoInfos, GoodInfos
  <1>2. <<>> \in Seq(GoodEvent) BY EmptySeq
  <1>3. IsQuorums(<<>>)
    <2> DEFINE q == <<>>
    <2>1. DOMAIN q = {} OBVIOUS
    <2>2. q = [h \in DOMAIN q |-> q[h]] OBVIOUS
    <2> QED BY <2>1, <2>2 DEF IsQuorums
  <1>4. HF9_HEIGHT \in Nat BY ListAssumption
  <1> QED BY <1>1, <1>2, <1>3, <1>4 DEF GoodState, Cleared

\* Dropping the oldest rollback events.
LEMMA CulledGood ==
  ASSUME NEW s, GoodState(s), NEW h \in Nat, NEW k \in 0..Len(s.events)
  PROVE  GoodState([s EXCEPT !.height = s.height + 1, !.events = CulledEvents(s.events, h, k)])
  <1>1. s.events \in Seq(GoodEvent) /\ Len(s.events) \in Nat BY LenProperties DEF GoodState
  <1>2. SubSeq(s.events, k + 1, Len(s.events)) \in Seq(GoodEvent)
    <2>1. \A i \in (k + 1)..Len(s.events) : s.events[i] \in GoodEvent BY <1>1, ElementOfSeq
    <2>2. k + 1 \in Int /\ Len(s.events) \in Int BY <1>1
    <2> QED BY <2>1, <2>2, SubSeqProperties
  <1>3. prevent_rollback(CullHeight(h)) \in GoodEvent
    <2>1. CullHeight(h) \in Nat BY ListAssumption DEF CullHeight
    <2> QED BY <2>1 DEF prevent_rollback, GoodEvent
  <1>4. CulledEvents(s.events, h, k) \in Seq(GoodEvent)
    <2> DEFINE e == prevent_rollback(CullHeight(h))
               rest == SubSeq(s.events, k + 1, Len(s.events))
    <2>1. CulledEvents(s.events, h, k) = <<e>> \o rest BY DEF CulledEvents
    <2>2. e \in GoodEvent /\ rest \in Seq(GoodEvent) BY <1>2, <1>3
    <2> HIDE DEF e, rest
    <2>3. <<e>> \in Seq(GoodEvent) BY <2>2
    <2> QED BY <2>1, <2>2, <2>3, ConcatProperties
  <1> DEFINE events == CulledEvents(s.events, h, k)
             height == s.height + 1
  <1>5. events \in Seq(GoodEvent) /\ height \in Nat BY <1>4 DEF GoodState
  <1> HIDE DEF events, height
  <1>6. GoodState([s EXCEPT !.height = height, !.events = events])
    <2>1. IsQuorums(s.quorums) BY DEF GoodState
    <2> QED BY <1>5, <2>1, SetHeightAnd
  <1> QED BY <1>6 DEF events, height

\* blockchain_detached drops the quorum states of the blocks that are gone.
LEMMA DetachedGood ==
  ASSUME NEW s, GoodState(s), NEW t \in Nat
  PROVE  GoodState([s EXCEPT !.height = t,
                             !.quorums = [g \in {k \in DOMAIN s.quorums : k < t} |-> s.quorums[g]]])
  <1> DEFINE D == {k \in DOMAIN s.quorums : k < t}
             new == [g \in D |-> s.quorums[g]]
  <1>1. IsQuorums(new)
    <2>1. D \subseteq Nat BY DEF GoodState, IsQuorums
    <2>2. \A g \in D : new[g] \in [quorum_nodes : Seq(Nodes), nodes_to_test : Seq(Nodes)]
      BY DEF GoodState, IsQuorums
    <2> HIDE DEF D
    <2> QED BY <2>1, <2>2 DEF IsQuorums
  <1> HIDE DEF new
  <1>2. GoodState([s EXCEPT !.height = t, !.quorums = new])
    <2>1. <<>> \in Seq(GoodEvent) BY EmptySeq
    <2> QED BY <1>1, <2>1, SetHeightAnd
  <1> QED BY <1>2 DEF new
------------------------------------------------------------------------------
(***************************************************************************)
(* The inductive invariant: the control state is typed and the infos of    *)
(* the list, of its rollback events and of the database are good.          *)
(***************************************************************************)
ControlOK ==
  /\ chain \in Seq(AnyBlock) /\ Height > 0 /\ Height <= MaxHeight
  /\ pc \in {"idle", "block", "txs", "detach", "detached", "down"}
  /\ caller \in {"added", "init"} /\ after \in {"idle", "detached"}
  /\ cur \in Nat /\ (pc \in {"block", "txs"} => cur < Height)
  /\ target \in Nat /\ index \in Nat /\ changed \in BOOLEAN /\ crashes \in Nat
  /\ pc = "txs" => index > 0

\* The inductive form of TypeOK and StakeAccounting.
IInv == ControlOK /\ GoodState(state) /\ (db = None \/ GoodState(db))

\* The inductive invariant implies the two invariants the theorems are about.
LEMMA IInvImplies == IInv => TypeOK /\ StakeAccounting
  <1> SUFFICES ASSUME IInv PROVE TypeOK /\ StakeAccounting OBVIOUS
  <1>1. IsState(state) /\ \A info \in InfosOf(state.infos) \cup SavedInfos(state) : StakeBalanced(info)
    BY GoodStateBalanced DEF IInv
  <1>2. db # None => IsState(db) /\ \A info \in InfosOf(db.infos) \cup SavedInfos(db) : StakeBalanced(info)
    BY GoodStateBalanced DEF IInv
  <1> QED BY <1>1, <1>2 DEF IInv, ControlOK, TypeOK, StakeAccounting

\* The daemon starts with the genesis block and an empty list.
LEMMA InitGood == Init => IInv
  <1> SUFFICES ASSUME Init PROVE IInv OBVIOUS
  <1>1. PICK hash \in Hashes : chain = <<[hash |-> hash, winner |-> None, txs |-> <<>>]>> BY DEF Init
  <1> DEFINE b == [hash |-> hash, winner |-> None, txs |-> <<>>]
  <1>2. b \in AnyBlock
    <2>1. <<>> \in Seq(AnyTx) BY EmptySeq
    <2> QED BY <2>1 DEF AnyBlock
  <1> HIDE DEF b
  <1>3. chain = <<b>> BY <1>1 DEF b
  <1>4. chain \in Seq(AnyBlock) /\ Len(chain) = 1 BY <1>2, <1>3
  <1>5. MaxHeight \in Nat \ {0} BY ListAssumption
  <1>6. /\ pc = "idle" /\ cur = 0 /\ caller = "added" /\ after = "idle"
        /\ target = 0 /\ index = 0 /\ changed = FALSE /\ crashes = 0
        /\ state = Cleared /\ db = None
    BY DEF Init
  <1>7. ControlOK
    <2>1. Height > 0 /\ Height <= MaxHeight BY <1>4, <1>5 DEF Height
    <2>2. changed \in BOOLEAN BY <1>6
    <2> QED BY <1>4, <1>6, <2>1, <2>2 DEF ControlOK
  <1> QED BY <1>6, <1>7, ClearedGood DEF IInv
------------------------------------------------------------------------------
(***************************************************************************)
(* Each step of the daemon keeps the inductive invariant.                  *)
(***************************************************************************)
\* A block of the chain holds transactions.
LEMMA BlockTyped ==
  ASSUME IInv, NEW h \in Nat, h < Height
  PROVE  Block(h) \in AnyBlock /\ h \in 0..MaxHeight
  <1>1. chain \in Seq(AnyBlock) /\ Height <= MaxHeight BY DEF IInv, ControlOK
  <1>2. Len(chain) \in Nat /\ h + 1 \in 1..Len(chain) BY <1>1, LenProperties DEF Height
  <1>3. MaxHeight \in Nat BY ListAssumption
  <1> QED BY <1>1, <1>2, <1>3, ElementOfSeq DEF Block, Height

\* What check_tx_inputs lets into a block is a transaction.
LEMMA ValidTxsTyped ==
  ASSUME GoodState(state)
  PROVE  ValidTxs \subseteq AnyTx
  <1>1. ValidDeregisters \subseteq [type : {"deregister"}, height : Nat, index : Nat]
    <2>1. DOMAIN state.quorums \subseteq Nat BY DEF GoodState, IsQuorums
    <2>2. \A g \in DOMAIN state.quorums : state.quorums[g].nodes_to_test \in Seq(Nodes)
      BY DEF GoodState, IsQuorums
    <2>3. \A g \in DOMAIN state.quorums : DOMAIN state.quorums[g].nodes_to_test \subseteq Nat
      BY <2>2, LenProperties
    <2> QED BY <2>1, <2>3 DEF ValidDeregisters
  <1>2. ValidUnlocks \subseteq [type : {"key_image_unlock"}, node : Nodes, key_image : KeyImages]
    <2>1. \A n \in Registered(state) : KeyImagesOf(state.infos[n]) \subseteq KeyImages
      BY KeyImagesTyped DEF Registered, GoodState, GoodInfos, GoodInfo
    <2>2. LockedKeyImages(state) \subseteq KeyImages BY <2>1 DEF LockedKeyImages
    <2> QED BY <2>2 DEF ValidUnlocks
  <1> QED BY <1>1, <1>2 DEF ValidTxs, AnyTx

\* handle_block_to_main_chain puts a well-formed block on the chain.
LEMMA AddBlockGood ==
  ASSUME IInv, AddBlock
  PROVE  IInv'
  <1>1. PICK hash \in Hashes, n \in 0..MaxTxsPerBlock,
             winner \in (IF CurrentVersion < 9 THEN {None} ELSE select_winner(state)) :
               \E txs \in [1..n -> ValidTxs] :
                 chain' = Append(chain, [hash |-> hash, winner |-> winner, txs |-> txs])
    BY DEF AddBlock
  <1>2. PICK txs \in [1..n -> ValidTxs] :
               chain' = Append(chain, [hash |-> hash, winner |-> winner, txs |-> txs])
    BY <1>1
  <1> DEFINE b == [hash |-> hash, winner |-> winner, txs |-> txs]
  <1>3. b \in AnyBlock
    <2>1. winner \in Nodes \cup {None} BY DEF select_winner, Funded, Registered
    <2>2. txs \in Seq(AnyTx)
      <3>1. ValidTxs \subseteq AnyTx BY ValidTxsTyped DEF IInv
      <3>2. n \in Nat BY ListAssumption
      <3>3. txs \in [1..n -> AnyTx] BY <3>1
      <3> QED BY <3>2, <3>3, FunctionIsSeq
    <2> QED BY <2>1, <2>2 DEF AnyBlock
  <1>4. chain \in Seq(AnyBlock) /\ Len(chain) \in Nat BY LenProperties DEF IInv, ControlOK
  <1> HIDE DEF b
  <1>5. chain' = Append(chain, b) BY <1>2 DEF b
  <1>6. chain' \in Seq(AnyBlock) /\ Len(chain') = Len(chain) + 1 BY <1>3, <1>4, <1>5, AppendProperties
  <1>7. /\ pc' = "block" /\ cur' = Height /\ caller' = "added" /\ Height < MaxHeight
        /\ UNCHANGED <<state, db, after, target, index, changed, crashes>>
    BY DEF AddBlock
  <1>8. Height' > 0 /\ Height' <= MaxHeight /\ cur' \in Nat /\ cur' < Height'
    <2>1. MaxHeight \in Nat BY ListAssumption
    <2> QED BY <1>4, <1>6, <1>7, <2>1 DEF Height
  <1>9. ControlOK' BY <1>6, <1>7, <1>8 DEF IInv, ControlOK
  <1> QED BY <1>7, <1>9 DEF IInv

\* The start of block_added_generic.
LEMMA BeginBlockGood ==
  ASSUME IInv, BeginBlock
  PROVE  IInv'
  <1>1. PICK k \in 0..Len(state.events) :
          LET culled == [state EXCEPT !.height = @ + 1, !.events = CulledEvents(@, cur, k)]
          IN  /\ state' = AdvancedList(culled, Block(cur), cur)
              /\ changed' = (ExpiredNodes(ExpireBlacklist(culled, cur), cur) # {})
    BY DEF BeginBlock
  <1> DEFINE culled == [state EXCEPT !.height = state.height + 1,
                                     !.events = CulledEvents(state.events, cur, k)]
  <1>2. cur \in Nat BY DEF IInv, ControlOK
  <1>3. GoodState(culled) BY <1>2, CulledGood DEF IInv
  <1>4. state' = AdvancedList(culled, Block(cur), cur) /\ changed' \in BOOLEAN BY <1>1
  <1> HIDE DEF culled
  <1>5. GoodState(state') BY <1>2, <1>3, <1>4, AdvancedListGood
  <1>6. /\ pc = "block" /\ pc' = "txs" /\ index' = 1
        /\ UNCHANGED <<chain, db, cur, caller, after, target, crashes>>
    BY DEF BeginBlock
  <1>7. ControlOK' BY <1>4, <1>6 DEF IInv, ControlOK, Height
  <1> QED BY <1>5, <1>6, <1>7 DEF IInv

\* One transaction of block_added_generic.
LEMMA ProcessTxGood ==
  ASSUME IInv, ProcessTx
  PROVE  IInv'
  <1> DEFINE tx == Block(cur).txs[index]
  <1>1. /\ pc = "txs" /\ index <= Len(Block(cur).txs)
        /\ state' = ProcessedTx(state, tx, cur, index - 1)
        /\ changed' = (changed \/ ChangesMembership(state, tx, cur))
        /\ index' = index + 1
        /\ UNCHANGED <<chain, db, pc, cur, caller, after, target, crashes>>
    BY DEF ProcessTx
  <1>2. cur \in Nat /\ cur < Height /\ index \in Nat /\ index > 0 BY <1>1 DEF IInv, ControlOK
  <1>3. Block(cur) \in AnyBlock /\ cur \in 0..MaxHeight BY <1>2, BlockTyped
  <1>4. tx \in AnyTx
    <2>1. Block(cur).txs \in Seq(AnyTx) BY <1>3 DEF AnyBlock
    <2>2. Len(Block(cur).txs) \in Nat BY <2>1, LenProperties
    <2>3. index \in 1..Len(Block(cur).txs) BY <1>1, <1>2, <2>2
    <2> QED BY <2>1, <2>3, ElementOfSeq
  <1>5. index - 1 \in Nat /\ index' \in Nat /\ index' > 0 BY <1>1, <1>2
  <1>6. GoodState(state')
    <2> HIDE DEF tx
    <2> QED BY <1>1, <1>3, <1>4, <1>5, ProcessedTxGood DEF IInv
  <1>7. changed' \in BOOLEAN BY <1>1
  <1>8. ControlOK'
    <2> HIDE DEF tx
    <2> QED BY <1>1, <1>5, <1>7 DEF IInv, ControlOK, Height
  <1> QED BY <1>1, <1>6, <1>8 DEF IInv

\* What store() writes is good.
LEMMA StoredGood ==
  ASSUME IInv, NEW s, GoodState(s)
  PROVE  Stored(s) = None \/ GoodState(Stored(s))
  BY SerializedGood DEF IInv, Stored

\* The control state a block is left with.
LEMMA FinishBlockGood ==
  ASSUME IInv, NEW s, GoodState(s), FinishBlock(s), pc \in {"block", "txs"}
  PROVE  /\ db' = None \/ GoodState(db')
         /\ pc' \in {"idle", "block", "detached"} /\ cur' \in Nat
         /\ pc' = "block" => cur' < Height
         /\ caller' \in {"added", "init"} /\ after' \in {"idle", "detached"}
  <1>1. /\ cur \in Nat /\ cur < Height /\ s.height \in Nat
        /\ caller \in {"added", "init"} /\ after \in {"idle", "detached"}
    BY DEF IInv, ControlOK, GoodState
  <1>2. CASE caller = "added"
    <2>1. db' = Stored(s) /\ pc' = "idle" /\ cur' = 0 /\ UNCHANGED <<caller, after>>
      BY <1>2 DEF FinishBlock
    <2> QED BY <1>1, <2>1, StoredGood
  <1>3. CASE caller # "added"
    <2>1. /\ db' = db
          /\ \/ cur + 1 < Height /\ pc' = "block" /\ cur' = cur + 1 /\ UNCHANGED <<caller, after>>
             \/ s.height < Height /\ pc' = "block" /\ cur' = s.height /\ UNCHANGED <<caller, after>>
             \/ pc' = after /\ cur' = 0 /\ caller' = "added" /\ after' = "idle"
      BY <1>3 DEF FinishBlock
    <2>2. db' = None \/ GoodState(db') BY <2>1 DEF IInv
    <2>3. cur + 1 \in Nat BY <1>1
    <2> QED BY <1>1, <2>1, <2>2, <2>3
  <1> QED BY <1>2, <1>3

\* The end of block_added_generic, with the store() of block_added.
LEMMA EndBlockGood ==
  ASSUME IInv, EndBlock
  PROVE  IInv'
  <1> DEFINE now == [n \in Registered(state) |-> state.infos[n].swarm_id]
  <1>1. PICK assignment \in IF changed THEN SwarmOutcomes(Block(cur).hash, now) ELSE {now} :
          LET s == UpdateQuorums(UpdateSwarms(state, cur, assignment), Block(cur), cur)
          IN  state' = s /\ FinishBlock(s)
    BY DEF EndBlock
  <1>2. /\ pc = "txs" /\ index' = 0 /\ changed' = FALSE /\ UNCHANGED <<chain, target, crashes>>
    BY DEF EndBlock
  <1>3. cur \in Nat /\ cur < Height BY <1>2 DEF IInv, ControlOK
  <1>4. Block(cur).hash \in Hashes BY <1>3, BlockTyped DEF AnyBlock
  <1>5. assignment \in [Registered(state) -> SwarmIds]
    <2>1. now \in [Registered(state) -> SwarmIds]
      BY DEF IInv, GoodState, GoodInfos, GoodInfo, Info, Registered
    <2>2. Registered(state) \in SUBSET Nodes BY DEF Registered
    <2> HIDE DEF now
    <2>3. SwarmOutcomes(Block(cur).hash, now) \subseteq [Registered(state) -> SwarmIds]
      BY <1>4, <2>1, <2>2, DataAssumption
    <2> QED BY <1>1, <2>1, <2>3
  <1> DEFINE t == UpdateSwarms(state, cur, assignment)
             s == UpdateQuorums(t, Block(cur), cur)
  <1>6. GoodState(t) BY <1>3, <1>5, UpdateSwarmsGood DEF IInv
  <1>7. state' = s /\ FinishBlock(s) BY <1>1
  <1> HIDE DEF t
  <1>8. GoodState(s) BY <1>3, <1>4, <1>6, UpdateQuorumsGood
  <1> HIDE DEF s
  <1>9. /\ db' = None \/ GoodState(db')
        /\ pc' \in {"idle", "block", "detached"} /\ cur' \in Nat
        /\ pc' = "block" => cur' < Height
        /\ caller' \in {"added", "init"} /\ after' \in {"idle", "detached"}
    BY <1>2, <1>7, <1>8, FinishBlockGood
  <1>10. changed' \in BOOLEAN BY <1>2
  <1>11. ControlOK' BY <1>2, <1>9, <1>10 DEF IInv, ControlOK, Height
  <1> QED BY <1>7, <1>8, <1>9, <1>11 DEF IInv

\* block_added_generic before version 9.
LEMMA SkipBlockGood ==
  ASSUME IInv, SkipBlock
  PROVE  IInv'
  <1>1. pc = "block" /\ FinishBlock(state) /\ UNCHANGED <<chain, state, target, index, changed, crashes>>
    BY DEF SkipBlock
  <1>2. /\ db' = None \/ GoodState(db')
        /\ pc' \in {"idle", "block", "detached"} /\ cur' \in Nat
        /\ pc' = "block" => cur' < Height
        /\ caller' \in {"added", "init"} /\ after' \in {"idle", "detached"}
    BY <1>1, FinishBlockGood DEF IInv
  <1>3. ControlOK' BY <1>1, <1>2 DEF IInv, ControlOK, Height
  <1> QED BY <1>1, <1>2, <1>3 DEF IInv

\* Blocks are popped before blockchain_detached runs.
LEMMA PopBlocksGood ==
  ASSUME IInv, PopBlocks
  PROVE  IInv'
  <1>1. PICK h \in 1..(Height - 1) : chain' = SubSeq(chain, 1, h) /\ target' = h BY DEF PopBlocks
  <1>2. chain \in Seq(AnyBlock) /\ Len(chain) \in Nat /\ Height <= MaxHeight
    BY LenProperties DEF IInv, ControlOK
  <1>3. h \in Nat /\ 1 <= h /\ h < Height BY <1>2 DEF Height
  <1>4. chain' \in Seq(AnyBlock) /\ Len(chain') = h
    <2>1. \A i \in 1..h : chain[i] \in AnyBlock BY <1>2, <1>3, ElementOfSeq DEF Height
    <2> QED BY <1>1, <1>3, <2>1, SubSeqProperties
  <1>5. Height' > 0 /\ Height' <= MaxHeight
    <2>1. MaxHeight \in Nat BY ListAssumption
    <2> QED BY <1>2, <1>3, <1>4, <2>1 DEF Height
  <1>6. pc' = "detach" /\ UNCHANGED <<state, db, cur, caller, after, index, changed, crashes>>
    BY DEF PopBlocks
  <1>7. ControlOK' BY <1>1, <1>3, <1>4, <1>5, <1>6 DEF IInv, ControlOK
  <1> QED BY <1>6, <1>7 DEF IInv

\* The state and the control state init is left with.
LEMMA EnterInitGood ==
  ASSUME IInv, NEW return \in {"idle", "detached"}, EnterInit(return)
  PROVE  /\ GoodState(state') /\ (db' = None \/ GoodState(db'))
         /\ pc' \in {"idle", "block", "detached"} /\ cur' \in Nat
         /\ pc' = "block" => cur' < Height
         /\ caller' \in {"added", "init"} /\ after' \in {"idle", "detached"}
  <1> DEFINE usable == db # None /\ db.height <= Height /\ CurrentVersion >= 9
             s == IF usable THEN db ELSE Cleared
  <1>1. GoodState(s) BY ClearedGood DEF IInv
  <1>2. /\ state' = s /\ db' = (IF usable THEN db ELSE None)
        /\ \/ /\ s.height < Height
              /\ pc' = "block" /\ cur' = s.height /\ caller' = "init" /\ after' = return
           \/ pc' = return /\ cur' = 0 /\ caller' = "added" /\ after' = "idle"
    BY DEF EnterInit
  <1>3. db' = None \/ GoodState(db') BY <1>2 DEF IInv
  <1> HIDE DEF s, usable
  <1>4. s.height \in Nat BY <1>1 DEF GoodState
  <1> QED BY <1>1, <1>2, <1>3, <1>4

\* blockchain_detached undoes the last rollback event and pops it.
LEMMA UndoEventGood ==
  ASSUME IInv, UndoEvent
  PROVE  IInv'
  <1> DEFINE t == Undone(state, LastEvent)
  <1>1. /\ HasEventToUndo /\ CanUndo(state, LastEvent)
        /\ state' = [t EXCEPT !.events = SubSeq(t.events, 1, Len(t.events) - 1)]
        /\ UNCHANGED <<chain, db, pc, cur, caller, after, target, index, changed, crashes>>
    BY DEF UndoEvent
  <1>2. state.events \in Seq(GoodEvent) /\ Len(state.events) \in Nat /\ Len(state.events) > 0
    BY <1>1, LenProperties DEF IInv, GoodState, HasEventToUndo
  <1>3. LastEvent \in GoodEvent BY <1>2, ElementOfSeq DEF LastEvent
  <1>4. GoodState(t) /\ t.events = state.events BY <1>1, <1>3, UndoneGood DEF IInv
  <1> HIDE DEF t
  <1> DEFINE events == SubSeq(t.events, 1, Len(t.events) - 1)
  <1>5. events \in Seq(GoodEvent)
    <2>1. \A i \in 1..(Len(state.events) - 1) : state.events[i] \in GoodEvent BY <1>2, ElementOfSeq
    <2>2. Len(state.events) - 1 \in Int BY <1>2
    <2> QED BY <1>4, <2>1, <2>2, SubSeqProperties
  <1> HIDE DEF events
  <1>6. GoodState([t EXCEPT !.events = events])
    <2>1. t.infos \in GoodInfos /\ t.blacklist \in SUBSET BlacklistEntry BY <1>4 DEF GoodState
    <2> QED BY <1>4, <1>5, <2>1, SetFields
  <1>7. GoodState(state') BY <1>1, <1>6 DEF events
  <1>8. ControlOK' BY <1>1 DEF IInv, ControlOK, Height
  <1> QED BY <1>1, <1>7, <1>8 DEF IInv

\* blockchain_detached rebuilds the list when an event cannot be undone.
LEMMA GiveUpUndoGood ==
  ASSUME IInv, GiveUpUndo
  PROVE  IInv'
  <1>1. EnterInit("detached") /\ UNCHANGED <<chain, target, index, changed, crashes>> BY DEF GiveUpUndo
  <1>2. /\ GoodState(state') /\ (db' = None \/ GoodState(db'))
        /\ pc' \in {"idle", "block", "detached"} /\ cur' \in Nat
        /\ pc' = "block" => cur' < Height
        /\ caller' \in {"added", "init"} /\ after' \in {"idle", "detached"}
    BY <1>1, EnterInitGood
  <1>3. ControlOK' BY <1>1, <1>2 DEF IInv, ControlOK, Height
  <1> QED BY <1>2, <1>3 DEF IInv

\* The end of blockchain_detached, with its store().
LEMMA FinishDetachGood ==
  ASSUME IInv, FinishDetach
  PROVE  IInv'
  <1> DEFINE s == [state EXCEPT !.height = target,
                     !.quorums = [g \in {k \in DOMAIN state.quorums : k < target} |-> state.quorums[g]]]
  <1>1. /\ state' = s /\ db' = Stored(s) /\ pc' = "idle" /\ target' = 0
        /\ UNCHANGED <<chain, cur, caller, after, index, changed, crashes>>
    BY DEF FinishDetach
  <1>2. GoodState(s) BY DetachedGood DEF IInv, ControlOK
  <1> HIDE DEF s
  <1>3. db' = None \/ GoodState(db') BY <1>1, <1>2, StoredGood
  <1>4. ControlOK' BY <1>1 DEF IInv, ControlOK, Height
  <1> QED BY <1>1, <1>2, <1>3, <1>4 DEF IInv

\* A crash leaves the chain and the last store() behind.
LEMMA CrashGood ==
  ASSUME IInv, Crash
  PROVE  IInv'
  <1>1. /\ pc' = "down" /\ state' = Cleared /\ crashes' = crashes + 1
        /\ cur' = 0 /\ caller' = "added" /\ after' = "idle"
        /\ target' = 0 /\ index' = 0 /\ changed' = FALSE /\ UNCHANGED <<chain, db>>
    BY DEF Crash
  <1>2. changed' \in BOOLEAN /\ crashes' \in Nat
    <2>1. crashes \in Nat BY DEF IInv, ControlOK
    <2>2. crashes' \in Nat BY <1>1, <2>1
    <2>3. changed' \in BOOLEAN BY <1>1
    <2> QED BY <2>2, <2>3
  <1>3. ControlOK' BY <1>1, <1>2 DEF IInv, ControlOK, Height
  <1> QED BY <1>1, <1>3, ClearedGood DEF IInv

\* init() after a crash loads what was stored or starts from nothing.
LEMMA RestartGood ==
  ASSUME IInv, Restart
  PROVE  IInv'
  <1>1. EnterInit("idle") /\ UNCHANGED <<chain, target, index, changed, crashes>> BY DEF Restart
  <1>2. /\ GoodState(state') /\ (db' = None \/ GoodState(db'))
        /\ pc' \in {"idle", "block", "detached"} /\ cur' \in Nat
        /\ pc' = "block" => cur' < Height
        /\ caller' \in {"added", "init"} /\ after' \in {"idle", "detached"}
    BY <1>1, EnterInitGood
  <1>3. ControlOK' BY <1>1, <1>2 DEF IInv, ControlOK, Height
  <1> QED BY <1>2, <1>3 DEF IInv

\* A step, or a stutter, of the daemon.
LEMMA NextGood == IInv /\ [Next]_vars => IInv'
  <1> SUFFICES ASSUME IInv, [Next]_vars PROVE IInv' OBVIOUS
  <1>1. CASE UNCHANGED vars
    BY <1>1 DEF vars, IInv, ControlOK, Height
  <1>2. CASE Next
    BY <1>2, AddBlockGood, BeginBlockGood, ProcessTxGood, EndBlockGood, SkipBlockGood, PopBlocksGood,
       UndoEventGood, GiveUpUndoGood, FinishDetachGood, CrashGood, RestartGood DEF Next, Step
  <1> QED BY <1>1, <1>2

\* In every behaviour of the daemon (blocks, reorganisations, crashes and
\* restarts) the variables have their types.
THEOREM TypeCorrectness == Spec => []TypeOK
  <1>1. IInv => TypeOK BY IInvImplies
  <1> QED BY <1>1, InitGood, NextGood, PTL DEF Spec

\* In every behaviour of the daemon the accounts of every node balance: in the
\* list, in what a rollback would bring back and in what a restart would load.
THEOREM AccountsBalance == Spec => []StakeAccounting
  <1>1. IInv => StakeAccounting BY IInvImplies
  <1> QED BY <1>1, InitGood, NextGood, PTL DEF Spec
==============================================================================
