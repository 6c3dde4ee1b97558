------------------------- MODULE FullNodePlaceProofs -------------------------
(***************************************************************************)
(* No two nodes share a place in the reward queue, for every set of nodes  *)
(* and transactions, chain length and number of crashes.                   *)
(*                                                                         *)
(* The argument is about rollbacks.  A place in the queue is the position  *)
(* in the chain (block and transaction, or the reward of the block) that   *)
(* gave it, so the chain itself tells whose it is; and an info whose place *)
(* is in block h comes with a rollback event, of height h or more, that    *)
(* takes it away or forbids the rollback.                                  *)
(***************************************************************************)
EXTENDS FullNodeHistoryProofs

\* Event e takes an info of node n with a place in block h away, or is a fence.
Covers(e, n, h) == e.height >= h /\ (Affects(e, n) \/ e.type = "prevent")

\* The rollback events are in the order of their blocks, all of them past.
Ordered(s) ==
  /\ \A i \in 1..Len(s.events) : s.events[i].height < s.height
  /\ \A i, j \in 1..Len(s.events) : i < j => s.events[i].height <= s.events[j].height

\* An event takes every info away that is in the list or saved in a later event.
Covered(s) ==
  /\ \A n \in Nodes : s.infos[n] # None =>
       \E j \in 1..Len(s.events) : Covers(s.events[j], n, s.infos[n].last_reward_block_height)
  /\ \A i \in 1..Len(s.events), n \in Nodes : Saves(s.events[i], n) =>
       \E j \in 1..(i - 1) : Covers(s.events[j], n, s.events[i].saved[n].last_reward_block_height)

\* The places in the list, and in its events, are those chain c gives.
Placed(s, c) ==
  /\ \A n \in Nodes : s.infos[n] # None => OwnPlace(c, s.infos[n], n)
  /\ \A i \in 1..Len(s.events), n \in Nodes :
       Saves(s.events[i], n) => OwnPlace(c, s.events[i].saved[n], n)

\* Chain c, from which blocks may have been popped since.
IsOldChain(c) ==
  /\ Height <= Len(c) /\ \A i \in 1..Height : c[i] = chain[i]
  /\ pc # "detach" => c = chain
  /\ \A i \in 1..Len(c) : Len(c[i].txs) <= MaxTxsPerBlock

\* The same for the list in the database, as long as the chain reaches it.
DbPlaced ==
  db # None => Ordered(db) /\ Covered(db) /\ (db.height <= Height => Placed(db, chain))

\* The inductive form of UniqueWinner.
PlaceInv ==
  /\ Ordered(state) /\ Covered(state)
  /\ \E c \in Seq(AnyBlock) : IsOldChain(c) /\ Placed(state, c)
  /\ DbPlaced
  /\ db # None /\ pc \notin {"detach", "down"} => db.height <= Height

\* A rollback to h or below meets an event that forbids it.
Fence(s, h) == \E i \in 1..Len(s.events) : s.events[i].type = "prevent" /\ s.events[i].height >= h

------------------------------------------------------------------------------
(***************************************************************************)
(* Rollback events stay in order and cover what they should.               *)
(***************************************************************************)
SamePlace(old, new) ==
  /\ new.last_reward_block_height = old.last_reward_block_height
  /\ new.last_reward_transaction_index = old.last_reward_transaction_index

\* The types of the events of a good state.
LEMMA EventTypes ==
  ASSUME NEW s, GoodState(s)
  PROVE  /\ Len(s.events) \in Nat
         /\ \A i \in 1..Len(s.events) :
              /\ s.events[i] \in GoodEvent /\ s.events[i].height \in Nat
              /\ \A n \in Nodes : Saves(s.events[i], n) =>
                   /\ s.events[i].saved[n] \in GoodInfo
                   /\ s.events[i].saved[n].last_reward_block_height \in Nat
         /\ \A n \in Nodes : s.infos[n] # None =>
              s.infos[n] \in GoodInfo /\ s.infos[n].last_reward_block_height \in Nat
  <1>1. s.events \in Seq(GoodEvent) /\ Len(s.events) \in Nat BY LenProperties DEF GoodState
  <1>2. ASSUME NEW i \in 1..Len(s.events)
        PROVE  /\ s.events[i] \in GoodEvent /\ s.events[i].height \in Nat
               /\ \A n \in Nodes : Saves(s.events[i], n) => s.events[i].saved[n] \in GoodInfo
    <2> DEFINE e == s.events[i]
    <2>1. e \in GoodEvent BY <1>1, ElementOfSeq
    <2> HIDE DEF e
    <2>2. e.height \in Nat BY <2>1 DEF GoodEvent
    <2>3. e.type = "change" => e.saved \in GoodInfos BY <2>1 DEF GoodEvent
    <2>4. \A n \in Nodes : Saves(e, n) => e.saved[n] \in GoodInfo BY <2>3 DEF Saves, GoodInfos
    <2> QED BY <2>1, <2>2, <2>4 DEF e
  <1>3. \A n \in Nodes : s.infos[n] # None => s.infos[n] \in GoodInfo BY DEF GoodState, GoodInfos
  <1>4. \A info \in GoodInfo : info.last_reward_block_height \in Nat BY DEF GoodInfo, Info
  <1> QED BY <1>1, <1>2, <1>3, <1>4

\* An operation of the block at height h.
LEMMA LoggedHistory ==
  ASSUME NEW s, NEW t, NEW h \in Nat, NEW blk, GoodState(s), s.height = h + 1, Logged(s, t, h, blk),
         Ordered(s), Covered(s)
  PROVE  /\ Ordered(t) /\ Covered(t) /\ t.height = h + 1 /\ t.quorums = s.quorums /\ GoodState(t)
         /\ \A c : Placed(s, c) /\ h < Len(c) /\ c[h + 1] = blk => Placed(t, c)
         /\ \A g : Fence(s, g) => Fence(t, g)
  <1>1. GoodState(t) /\ t.height = h + 1 /\ t.quorums = s.quorums BY DEF Logged
  <1>2. CASE t.infos = s.infos /\ t.events = s.events
    <2>1. Ordered(t) BY <1>1, <1>2 DEF Ordered
    <2>2. Covered(t) BY <1>2 DEF Covered
    <2>3. \A c : Placed(s, c) => Placed(t, c) BY <1>2 DEF Placed
    <2>4. \A g : Fence(s, g) => Fence(t, g) BY <1>2 DEF Fence
    <2> QED BY <1>1, <2>1, <2>2, <2>3, <2>4
  <1>3. ASSUME NEW e, IsLogOf(s, t.infos, e, h, blk), t.events = Append(s.events, e)
        PROVE  /\ Ordered(t) /\ Covered(t)
               /\ \A c : Placed(s, c) /\ h < Len(c) /\ c[h + 1] = blk => Placed(t, c)
               /\ \A g : Fence(s, g) => Fence(t, g)
    <2> DEFINE N == Len(s.events)
    <2>1. /\ N \in Nat
          /\ \A i \in 1..N : s.events[i] \in GoodEvent /\ s.events[i].height \in Nat
      BY EventTypes
    <2>2. /\ e \in GoodEvent /\ e.height = h
          /\ \A n \in Nodes : Saves(e, n) => s.infos[n] # None /\ e.saved[n] = s.infos[n]
          /\ \A n \in Nodes : IsMove(s, t.infos, e, h, blk, n)
      BY <1>3 DEF IsLogOf, Saves
    <2>3. /\ Len(t.events) = N + 1 /\ t.events[N + 1] = e
          /\ \A i \in 1..N : t.events[i] = s.events[i]
      BY <1>3, <2>2, AppendProperties DEF GoodState
    <2> HIDE DEF N
    <2>4. \A i \in 1..(N + 1) : i \in 1..N \/ i = N + 1 BY <2>1
    <2>5. Ordered(t)
      <3>1. \A i \in 1..N : s.events[i].height <= h BY <2>1 DEF Ordered, N
      <3>2. \A i, j \in 1..N : i < j => s.events[i].height <= s.events[j].height BY DEF Ordered, N
      <3>3. \A i \in 1..(N + 1) : t.events[i].height <= h /\ t.events[i].height \in Nat
        BY <2>1, <2>2, <2>3, <2>4, <3>1
      <3>4. \A i, j \in 1..(N + 1) : i < j => t.events[i].height <= t.events[j].height
        <4> SUFFICES ASSUME NEW i \in 1..(N + 1), NEW j \in 1..(N + 1), i < j
                     PROVE  t.events[i].height <= t.events[j].height
          OBVIOUS
        <4>1. i \in 1..N BY <2>1
        <4>2. CASE j = N + 1 BY <4>2, <2>2, <2>3, <3>3
        <4>3. CASE j \in 1..N BY <4>1, <4>3, <2>3, <3>2
        <4> QED BY <2>4, <4>2, <4>3
      <3>5. \A i \in 1..(N + 1) : t.events[i].height < t.height BY <1>1, <3>3
      <3> QED BY <2>3, <3>4, <3>5 DEF Ordered
    <2>6. Covered(t)
      <3>1. ASSUME NEW n \in Nodes, s.infos[n] # None
            PROVE  \E j \in 1..N : Covers(t.events[j], n, s.infos[n].last_reward_block_height)
        <4>1. PICK j \in 1..N : Covers(s.events[j], n, s.infos[n].last_reward_block_height)
          BY <3>1 DEF Covered, N
        <4> QED BY <2>3, <4>1
      <3>2. ASSUME NEW n \in Nodes, t.infos[n] # None
            PROVE  \E j \in 1..(N + 1) : Covers(t.events[j], n, t.infos[n].last_reward_block_height)
        <4>1. CASE s.infos[n] # None /\ KeepsPlace(s.infos[n], t.infos[n])
          <5>1. t.infos[n].last_reward_block_height = s.infos[n].last_reward_block_height
            BY <4>1 DEF KeepsPlace
          <5>2. \A j \in 1..N : j \in 1..(N + 1) BY <2>1
          <5> QED BY <3>1, <4>1, <5>1, <5>2
        <4>2. CASE Affects(e, n) /\ t.infos[n].last_reward_block_height = h
          <5>1. Covers(e, n, h) BY <2>2, <4>2 DEF Covers
          <5>2. N + 1 \in 1..(N + 1) BY <2>1
          <5> QED BY <2>3, <4>2, <5>1, <5>2
        <4> QED BY <2>2, <3>2, <4>1, <4>2 DEF IsMove
      <3>3. ASSUME NEW i \in 1..(N + 1), NEW n \in Nodes, Saves(t.events[i], n)
            PROVE  \E j \in 1..(i - 1) : Covers(t.events[j], n, t.events[i].saved[n].last_reward_block_height)
        <4>1. CASE i \in 1..N
          <5>1. t.events[i] = s.events[i] BY <2>3, <4>1
          <5>2. PICK j \in 1..(i - 1) : Covers(s.events[j], n, s.events[i].saved[n].last_reward_block_height)
            BY <3>3, <4>1, <5>1 DEF Covered, N
          <5>3. j \in 1..N BY <2>1, <4>1
          <5> QED BY <2>3, <5>1, <5>2, <5>3
        <4>2. CASE i = N + 1
          <5>1. t.events[i] = e /\ 1..(i - 1) = 1..N BY <2>1, <2>3, <4>2
          <5>2. s.infos[n] # None /\ e.saved[n] = s.infos[n] BY <2>2, <3>3, <5>1
          <5>3. PICK j \in 1..N : Covers(t.events[j], n, s.infos[n].last_reward_block_height)
            BY <3>1, <5>2
          <5>4. j \in 1..(i - 1) BY <2>1, <4>2
          <5> QED BY <5>1, <5>2, <5>3, <5>4
        <4> QED BY <2>4, <4>1, <4>2
      <3> QED BY <2>3, <3>2, <3>3 DEF Covered
    <2>7. ASSUME NEW c, Placed(s, c), h < Len(c), c[h + 1] = blk
          PROVE  Placed(t, c)
      <3>1. ASSUME NEW n \in Nodes, t.infos[n] # None
            PROVE  OwnPlace(c, t.infos[n], n)
        <4>1. CASE s.infos[n] # None /\ KeepsPlace(s.infos[n], t.infos[n])
          BY <2>7, <4>1 DEF Placed, OwnPlace, KeepsPlace
        <4>2. CASE /\ t.infos[n].last_reward_block_height = h
                   /\ IsPlaceOf(blk, t.infos[n].last_reward_transaction_index, n)
          BY <2>7, <4>2 DEF OwnPlace
        <4> QED BY <2>2, <3>1, <4>1, <4>2 DEF IsMove
      <3>2. ASSUME NEW i \in 1..(N + 1), NEW n \in Nodes, Saves(t.events[i], n)
            PROVE  OwnPlace(c, t.events[i].saved[n], n)
        <4>1. CASE i \in 1..N BY <2>3, <2>7, <3>2, <4>1 DEF Placed, N
        <4>2. CASE i = N + 1 BY <2>2, <2>3, <2>7, <3>2, <4>2 DEF Placed
        <4> QED BY <2>4, <4>1, <4>2
      <3> QED BY <2>3, <3>1, <3>2 DEF Placed
    <2>8. ASSUME NEW g, Fence(s, g)
          PROVE  Fence(t, g)
      <3>1. PICK i \in 1..N : s.events[i].type = "prevent" /\ s.events[i].height >= g BY <2>8 DEF Fence, N
      <3>2. i \in 1..(N + 1) BY <2>1
      <3> QED BY <2>3, <3>1, <3>2 DEF Fence
    <2> QED BY <2>5, <2>6, <2>7, <2>8
  <1>4. CASE \E e : IsLogOf(s, t.infos, e, h, blk) /\ t.events = Append(s.events, e)
    <2>1. PICK e : IsLogOf(s, t.infos, e, h, blk) /\ t.events = Append(s.events, e) BY <1>4
    <2> QED BY <1>1, <2>1, <1>3
  <1> QED BY <1>2, <1>4 DEF Logged

\* The events that are left after culling.
LEMMA CulledElements ==
  ASSUME NEW events \in Seq(GoodEvent), NEW h \in Nat, NEW k \in 0..Len(events)
  PROVE  /\ Len(events) \in Nat /\ CullHeight(h) \in Nat /\ CullHeight(h) <= h
         /\ Len(CulledEvents(events, h, k)) = Len(events) - k + 1
         /\ CulledEvents(events, h, k)[1] = prevent_rollback(CullHeight(h))
         /\ \A j \in (k + 1)..Len(events) : CulledEvents(events, h, k)[j - k + 1] = events[j]
  <1> DEFINE N == Len(events)
             e == prevent_rollback(CullHeight(h))
             rest == SubSeq(events, k + 1, N)
  <1>1. N \in Nat /\ k \in Nat /\ k <= N BY LenProperties
  <1>2. CullHeight(h) \in Nat /\ CullHeight(h) <= h BY ListAssumption DEF CullHeight
  <1>3. e \in GoodEvent BY <1>2 DEF prevent_rollback, GoodEvent
  <1> HIDE DEF N
  <1>4. /\ rest \in Seq(GoodEvent) /\ Len(rest) = N - k
        /\ \A i \in 1..(N - k) : rest[i] = events[k + i]
    <2>1. \A i \in (k + 1)..N : events[i] \in GoodEvent BY <1>1, ElementOfSeq DEF N
    <2>2. k + 1 \in Int /\ N \in Int BY <1>1
    <2>3. /\ rest \in Seq(GoodEvent) /\ Len(rest) = IF k + 1 <= N THEN N - (k + 1) + 1 ELSE 0
          /\ \A i \in 1..(N - (k + 1) + 1) : rest[i] = events[(k + 1) + i - 1]
      BY <2>1, <2>2, SubSeqProperties
    <2> HIDE DEF rest
    <2> QED BY <1>1, <2>3
  <1> HIDE DEF e, rest
  <1>5. CulledEvents(events, h, k) = <<e>> \o rest BY DEF CulledEvents, e, rest, N
  <1>6. <<e>> \in Seq(GoodEvent) /\ Len(<<e>>) = 1 /\ <<e>>[1] = e BY <1>3
  <1>7. /\ Len(<<e>> \o rest) = 1 + (N - k)
        /\ \A i \in 1..(1 + (N - k)) : (<<e>> \o rest)[i] = IF i <= 1 THEN <<e>>[i] ELSE rest[i - 1]
    BY <1>4, <1>6, ConcatProperties
  <1>8. (<<e>> \o rest)[1] = e BY <1>1, <1>6, <1>7
  <1>9. ASSUME NEW j \in (k + 1)..N
        PROVE  (<<e>> \o rest)[j - k + 1] = events[j]
    <2>1. /\ j - k + 1 \in 1..(1 + (N - k)) /\ ~(j - k + 1 <= 1) /\ (j - k + 1) - 1 = j - k
          /\ j - k \in 1..(N - k) /\ k + (j - k) = j
      BY <1>1
    <2> QED BY <1>4, <1>7, <2>1
  <1>10. Len(<<e>> \o rest) = N - k + 1 BY <1>1, <1>7
  <1> QED BY <1>1, <1>2, <1>5, <1>8, <1>9, <1>10 DEF N, e

\* Culling keeps the rest of the log covered: the fence covers what it replaces.
LEMMA CulledHistory ==
  ASSUME NEW s, NEW t, NEW h \in Nat, NEW k \in 0..Len(s.events), GoodState(s), GoodState(t),
         s.height = h, t.height = h + 1, t.infos = s.infos,
         t.events = CulledEvents(s.events, h, k), IsCullCount(s.events, h, k),
         Ordered(s), Covered(s)
  PROVE  /\ Ordered(t) /\ Covered(t)
         /\ \A c : Placed(s, c) => Placed(t, c)
         /\ Fence(t, CullHeight(h))
         /\ \A g \in Int : Fence(s, g) => Fence(t, g)
  <1> DEFINE N == Len(s.events)
             H == CullHeight(h)
  <1>1. /\ N \in Nat /\ H \in Nat /\ H <= h /\ Len(t.events) = N - k + 1
        /\ t.events[1] = prevent_rollback(H)
        /\ \A j \in (k + 1)..N : t.events[j - k + 1] = s.events[j]
    <2>1. s.events \in Seq(GoodEvent) BY DEF GoodState
    <2>2. /\ Len(s.events) \in Nat /\ CullHeight(h) \in Nat /\ CullHeight(h) <= h
          /\ Len(CulledEvents(s.events, h, k)) = Len(s.events) - k + 1
          /\ CulledEvents(s.events, h, k)[1] = prevent_rollback(CullHeight(h))
          /\ \A j \in (k + 1)..Len(s.events) : CulledEvents(s.events, h, k)[j - k + 1] = s.events[j]
      BY <2>1, CulledElements, Zenon
    <2> QED BY <2>2
  <1>2. t.events[1].type = "prevent" /\ t.events[1].height = H BY <1>1 DEF prevent_rollback
  <1>3. /\ \A i \in 1..k : s.events[i].height < H
        /\ k < N => s.events[k + 1].height >= H
    BY DEF IsCullCount
  <1>4. \A i \in 1..N : s.events[i].height \in Nat BY EventTypes
  <1>5. /\ \A i \in 1..N : s.events[i].height < h
        /\ \A i, j \in 1..N : i < j => s.events[i].height <= s.events[j].height
    BY DEF Ordered
  <1> HIDE DEF N, H
  <1>6. k \in Nat /\ N \in Nat /\ H \in Nat /\ k <= N /\ H <= h
    <2>1. k \in 0..N /\ N \in Nat /\ H \in Nat /\ H <= h BY <1>1 DEF N
    <2> QED BY <2>1
  <1>7. \A i \in 2..(N - k + 1) : /\ i + k - 1 \in (k + 1)..N /\ i + k - 1 \in 1..N
                                  /\ t.events[i] = s.events[i + k - 1]
    <2> SUFFICES ASSUME NEW i \in 2..(N - k + 1)
                 PROVE  /\ i + k - 1 \in (k + 1)..N /\ i + k - 1 \in 1..N
                        /\ t.events[i] = s.events[i + k - 1]
      OBVIOUS
    <2>1. i + k - 1 \in (k + 1)..N /\ i + k - 1 \in 1..N /\ (i + k - 1) - k + 1 = i BY <1>1, <1>6
    <2> QED BY <1>1, <2>1
  <1>8. \A j \in (k + 1)..N : s.events[j].height >= H
    <2> SUFFICES ASSUME NEW j \in (k + 1)..N
                 PROVE  s.events[j].height >= H
      OBVIOUS
    <2>1. k + 1 \in 1..N /\ j \in 1..N /\ k < N /\ (j = k + 1 \/ k + 1 < j) BY <1>6
    <2>2. s.events[k + 1].height >= H /\ s.events[k + 1].height \in Nat /\ s.events[j].height \in Nat
      BY <1>3, <1>4, <2>1 DEF N
    <2>3. j = k + 1 \/ s.events[k + 1].height <= s.events[j].height BY <1>5, <2>1
    <2> QED BY <1>6, <2>2, <2>3
  <1>9. Ordered(t)
    <2>1. ASSUME NEW i \in 1..(N - k + 1)
          PROVE  t.events[i].height < h + 1 /\ t.events[i].height >= H /\ t.events[i].height \in Nat
      <3>1. CASE i = 1 BY <3>1, <1>2, <1>6
      <3>2. CASE i # 1
        <4> DEFINE m == i + k - 1
        <4>1. i \in 2..(N - k + 1) BY <3>2, <1>6
        <4>2. m \in 1..N /\ m \in (k + 1)..N /\ t.events[i] = s.events[m] BY <4>1, <1>7
        <4> HIDE DEF m
        <4>3. s.events[m].height \in Nat /\ s.events[m].height < h /\ s.events[m].height >= H
          BY <4>2, <1>4, <1>5, <1>8 DEF N
        <4> QED BY <4>2, <4>3
      <3> QED BY <3>1, <3>2
    <2>2. ASSUME NEW i \in 1..(N - k + 1), NEW j \in 1..(N - k + 1), i < j
          PROVE  t.events[i].height <= t.events[j].height
      <3>1. CASE i = 1 BY <3>1, <1>2, <2>1
      <3>2. CASE i # 1
        <4>1. i \in 2..(N - k + 1) /\ j \in 2..(N - k + 1) /\ i + k - 1 < j + k - 1
          BY <3>2, <2>2, <1>1, <1>6
        <4> QED BY <4>1, <1>5, <1>7
      <3> QED BY <3>1, <3>2
    <2> QED BY <1>1, <2>1, <2>2 DEF Ordered
  <1>10. ASSUME NEW n \in Nodes, NEW g \in Nat, NEW m \in 1..(N + 1), k < m,
                \E j \in 1..(m - 1) : Covers(s.events[j], n, g)
         PROVE  \E j \in 1..(m - k) : Covers(t.events[j], n, g)
    <2>1. PICK j \in 1..(m - 1) : Covers(s.events[j], n, g) BY <1>10
    <2>2. j \in 1..N BY <1>1
    <2>3. CASE j <= k
      <3>1. s.events[j].height < H /\ s.events[j].height \in Nat BY <2>2, <2>3, <1>3, <1>4, <1>6
      <3>2. H >= g BY <2>1, <3>1, <1>1 DEF Covers
      <3>3. Covers(t.events[1], n, g) BY <1>2, <3>2 DEF Covers
      <3>4. 1 \in 1..(m - k) BY <1>6, <1>10
      <3> QED BY <3>3, <3>4
    <2>4. CASE j > k
      <3>1. j \in (k + 1)..N /\ j - k + 1 \in 1..(m - k) BY <2>2, <2>4, <1>1, <1>6, <1>10
      <3>2. t.events[j - k + 1] = s.events[j] BY <3>1, <1>1
      <3> QED BY <2>1, <3>1, <3>2
    <2> QED BY <2>2, <2>3, <2>4, <1>6
  <1>11. Covered(t)
    <2>1. ASSUME NEW n \in Nodes, t.infos[n] # None
          PROVE  \E j \in 1..(N - k + 1) : Covers(t.events[j], n, t.infos[n].last_reward_block_height)
      <3> DEFINE g == s.infos[n].last_reward_block_height
      <3>1. s.infos[n] # None /\ g \in Nat BY <2>1, EventTypes
      <3>2. \E j \in 1..N : Covers(s.events[j], n, g) BY <3>1 DEF Covered, N
      <3>3. N + 1 \in 1..(N + 1) /\ k < N + 1 /\ (N + 1) - 1 = N /\ (N + 1) - k = N - k + 1
        BY <1>6
      <3> HIDE DEF g
      <3>4. \E j \in 1..((N + 1) - k) : Covers(t.events[j], n, g) BY <3>1, <3>2, <3>3, <1>10
      <3> QED BY <3>3, <3>4 DEF g
    <2>2. ASSUME NEW i \in 1..(N - k + 1), NEW n \in Nodes, Saves(t.events[i], n)
          PROVE  \E j \in 1..(i - 1) : Covers(t.events[j], n, t.events[i].saved[n].last_reward_block_height)
      <3>1. i # 1 BY <2>2, <1>2 DEF Saves
      <3> DEFINE m == i + k - 1
      <3>2. i \in 2..(N - k + 1) BY <3>1, <1>1, <1>6
      <3>3. m \in (k + 1)..N /\ m \in 1..N /\ t.events[i] = s.events[m] BY <3>2, <1>7
      <3>4. m \in 1..(N + 1) /\ k < m /\ m - k = i - 1 BY <3>2, <3>3, <1>1, <1>6
      <3> HIDE DEF m
      <3> DEFINE g == s.events[m].saved[n].last_reward_block_height
      <3>5. Saves(s.events[m], n) BY <2>2, <3>3
      <3>8. g \in Nat BY <3>3, <3>5, EventTypes DEF N
      <3>6. \E j \in 1..(m - 1) : Covers(s.events[j], n, g) BY <3>3, <3>5 DEF Covered, N
      <3> HIDE DEF g
      <3>7. \E j \in 1..(m - k) : Covers(t.events[j], n, g) BY <3>4, <3>6, <3>8, <1>10, Zenon
      <3> QED BY <3>3, <3>4, <3>7 DEF g
    <2> QED BY <1>1, <2>1, <2>2 DEF Covered
  <1>12. ASSUME NEW c, Placed(s, c)
         PROVE  Placed(t, c)
    <2>1. ASSUME NEW i \in 1..(N - k + 1), NEW n \in Nodes, Saves(t.events[i], n)
          PROVE  OwnPlace(c, t.events[i].saved[n], n)
      <3>1. i # 1 BY <2>1, <1>2 DEF Saves
      <3>2. i \in 2..(N - k + 1) BY <3>1, <1>1, <1>6
      <3> DEFINE m == i + k - 1
      <3>3. m \in 1..N /\ t.events[i] = s.events[m] BY <3>2, <1>7
      <3> HIDE DEF m
      <3> QED BY <2>1, <3>3, <1>12 DEF Placed, N
    <2> QED BY <1>1, <1>12, <2>1 DEF Placed
  <1>13. 1 \in 1..(N - k + 1) BY <1>1, <1>6
  <1>14. Fence(t, H) BY <1>1, <1>2, <1>13 DEF Fence
  <1>15. ASSUME NEW g \in Int, Fence(s, g)
         PROVE  Fence(t, g)
    <2>1. PICK i \in 1..N : s.events[i].type = "prevent" /\ s.events[i].height >= g BY <1>15 DEF Fence, N
    <2>2. CASE i <= k
      <3>1. s.events[i].height < H /\ s.events[i].height \in Nat BY <2>1, <2>2, <1>3, <1>4, <1>6
      <3>2. H >= g BY <2>1, <3>1, <1>1
      <3> QED BY <1>1, <1>2, <1>13, <3>2 DEF Fence
    <2>3. CASE i > k
      <3>1. i \in (k + 1)..N /\ i - k + 1 \in 1..(N - k + 1) BY <2>3, <1>6
      <3>2. t.events[i - k + 1] = s.events[i] BY <3>1, <1>1
      <3> QED BY <1>1, <2>1, <3>1, <3>2 DEF Fence
    <2> QED BY <2>1, <2>2, <2>3, <1>6
  <1> QED BY <1>9, <1>11, <1>12, <1>14, <1>15 DEF H

\* Writing the list to the database keeps places and events.
LEMMA SerializedHistory ==
  ASSUME NEW s, GoodState(s), Ordered(s), Covered(s)
  PROVE  /\ Ordered(Serialized(s)) /\ Covered(Serialized(s))
         /\ \A c : Placed(s, c) => Placed(Serialized(s), c)
         /\ \A g : Fence(s, g) => Fence(Serialized(s), g)
  <1> DEFINE t == Serialized(s)
             N == Len(s.events)
  <1>1. /\ t.height = s.height /\ t.infos = SerializedInfos(s.infos)
        /\ t.events = [i \in DOMAIN s.events |-> SerializedEvent(s.events[i])]
    BY SerializedFields
  <1> HIDE DEF t
  <1>2. /\ s.events \in Seq(GoodEvent) /\ DOMAIN s.events = 1..N /\ N \in Nat
        /\ Len(t.events) = N /\ \A i \in 1..N : t.events[i] = SerializedEvent(s.events[i])
    <2>1. s.events \in Seq(GoodEvent) /\ DOMAIN s.events = 1..N /\ N \in Nat
      BY LenProperties DEF GoodState
    <2> QED BY <1>1, <2>1
  <1>3. ASSUME NEW info \in GoodInfo
        PROVE  SerializedInfo(info) # None /\ SamePlace(info, SerializedInfo(info))
    <2>1. SerializedInfo(info) # None
      <3>1. info \in Info /\ StakeBalanced(info) BY DEF GoodInfo
      <3> QED BY <3>1, SerializedBalanced, NoneAssumption
    <2> DEFINE w == IF info.version >= 1 THEN info.swarm_id ELSE QUEUE_SWARM_ID
               cs == [i \in DOMAIN info.contributors |->
                        [info.contributors[i] EXCEPT
                           !.locked_contributions =
                              IF info.contributors[i].version >= 2
                              THEN info.contributors[i].locked_contributions ELSE <<>>]]
    <2>2. SerializedInfo(info) = [info EXCEPT !.swarm_id = w, !.contributors = cs]
      BY DEF SerializedInfo
    <2> HIDE DEF w, cs
    <2>3. SamePlace(info, SerializedInfo(info)) BY <2>2 DEF SamePlace, GoodInfo, Info
    <2> QED BY <2>1, <2>3
  <1>4. ASSUME NEW infos \in GoodInfos, NEW n \in Nodes
        PROVE  /\ SerializedInfos(infos)[n] # None <=> infos[n] # None
               /\ infos[n] # None => SamePlace(infos[n], SerializedInfos(infos)[n])
    BY <1>3 DEF SerializedInfos, GoodInfos
  <1>5. ASSUME NEW i \in 1..N, NEW n \in Nodes
        PROVE  /\ t.events[i].height = s.events[i].height /\ t.events[i].type = s.events[i].type
               /\ Saves(t.events[i], n) <=> Saves(s.events[i], n)
               /\ Affects(t.events[i], n) <=> Affects(s.events[i], n)
               /\ Saves(s.events[i], n) => SamePlace(s.events[i].saved[n], t.events[i].saved[n])
    <2> DEFINE e == s.events[i]
               f == t.events[i]
    <2>1. e \in GoodEvent /\ f = SerializedEvent(e) BY <1>2, ElementOfSeq
    <2> HIDE DEF e, f
    <2>2. CASE e.type = "change"
      <3> DEFINE saved == SerializedInfos(e.saved)
      <3>1. f = [e EXCEPT !.saved = saved] BY <2>1, <2>2 DEF SerializedEvent
      <3> HIDE DEF saved
      <3>2. /\ f.type = e.type /\ f.height = e.height /\ f.saved = saved /\ e.saved \in GoodInfos
        BY <2>1, <2>2, <3>1 DEF GoodEvent
      <3>3. /\ saved[n] # None <=> e.saved[n] # None
            /\ e.saved[n] # None => SamePlace(e.saved[n], saved[n])
        BY <3>2, <1>4 DEF saved
      <3> QED BY <2>2, <3>2, <3>3 DEF Saves, Affects, e, f
    <2>3. CASE e.type # "change"
      <3>1. f = e BY <2>1, <2>3 DEF SerializedEvent
      <3> QED BY <2>3, <3>1 DEF Saves, Affects, e, f
    <2> QED BY <2>2, <2>3
  <1>6. ASSUME NEW n \in Nodes
        PROVE  /\ t.infos[n] # None <=> s.infos[n] # None
               /\ s.infos[n] # None => SamePlace(s.infos[n], t.infos[n])
    BY <1>1, <1>4 DEF GoodState
  <1> HIDE DEF N
  <1>7. ASSUME NEW i \in 1..N, NEW n \in Nodes, NEW h
        PROVE  Covers(t.events[i], n, h) <=> Covers(s.events[i], n, h)
    BY <1>5 DEF Covers
  <1>8. \A i \in 1..N : t.events[i].height = s.events[i].height /\ t.events[i].type = s.events[i].type
    <2> SUFFICES ASSUME NEW i \in 1..N
                 PROVE  t.events[i].height = s.events[i].height /\ t.events[i].type = s.events[i].type
      OBVIOUS
    <2>1. CASE s.events[i].type = "change"
      <3> DEFINE e == s.events[i]
                 saved == SerializedInfos(e.saved)
      <3>1. e \in GoodEvent /\ t.events[i] = [e EXCEPT !.saved = saved] /\ e.type = "change"
        BY <1>2, <2>1, ElementOfSeq DEF SerializedEvent, N
      <3> HIDE DEF e, saved
      <3>2. t.events[i].type = e.type /\ t.events[i].height = e.height BY <3>1 DEF GoodEvent
      <3> QED BY <3>2 DEF e
    <2>2. CASE s.events[i].type # "change"
      <3>1. SerializedEvent(s.events[i]) = s.events[i] BY <2>2 DEF SerializedEvent
      <3> QED BY <1>2, <3>1
    <2> QED BY <2>1, <2>2
  <1>9. Ordered(t)
    <2>1. /\ \A i \in 1..N : s.events[i].height < s.height
          /\ \A i, j \in 1..N : i < j => s.events[i].height <= s.events[j].height
      BY DEF Ordered, N
    <2> QED BY <1>1, <1>2, <1>8, <2>1 DEF Ordered
  <1>10. Covered(t)
    <2>1. ASSUME NEW n \in Nodes, t.infos[n] # None
          PROVE  \E j \in 1..N : Covers(t.events[j], n, t.infos[n].last_reward_block_height)
      <3>1. /\ s.infos[n] # None
            /\ t.infos[n].last_reward_block_height = s.infos[n].last_reward_block_height
        BY <2>1, <1>6 DEF SamePlace
      <3>2. PICK j \in 1..N : Covers(s.events[j], n, s.infos[n].last_reward_block_height)
        BY <3>1 DEF Covered, N
      <3> QED BY <3>1, <3>2, <1>7
    <2>2. ASSUME NEW i \in 1..N, NEW n \in Nodes, Saves(t.events[i], n)
          PROVE  \E j \in 1..(i - 1) : Covers(t.events[j], n, t.events[i].saved[n].last_reward_block_height)
      <3> DEFINE g == s.events[i].saved[n].last_reward_block_height
      <3>1. Saves(s.events[i], n) /\ t.events[i].saved[n].last_reward_block_height = g
        BY <2>2, <1>5 DEF SamePlace
      <3>2. PICK j \in 1..(i - 1) : Covers(s.events[j], n, g) BY <3>1 DEF Covered, N
      <3>3. j \in 1..N BY <1>2 DEF N
      <3> HIDE DEF g
      <3> QED BY <3>1, <3>2, <3>3, <1>7
    <2> QED BY <1>2, <2>1, <2>2 DEF Covered
  <1>11. ASSUME NEW c, Placed(s, c)
         PROVE  Placed(t, c)
    <2>1. ASSUME NEW n \in Nodes, t.infos[n] # None
          PROVE  OwnPlace(c, t.infos[n], n)
      BY <2>1, <1>6, <1>11 DEF Placed, OwnPlace, SamePlace
    <2>2. ASSUME NEW i \in 1..N, NEW n \in Nodes, Saves(t.events[i], n)
          PROVE  OwnPlace(c, t.events[i].saved[n], n)
      <3>1. Saves(s.events[i], n) /\ SamePlace(s.events[i].saved[n], t.events[i].saved[n]) BY <2>2, <1>5
      <3>2. OwnPlace(c, s.events[i].saved[n], n) BY <3>1, <1>11 DEF Placed, N
      <3> QED BY <3>1, <3>2 DEF OwnPlace, SamePlace
    <2> QED BY <1>2, <2>1, <2>2 DEF Placed
  <1>12. ASSUME NEW g, Fence(s, g)
         PROVE  Fence(t, g)
    BY <1>2, <1>8, <1>12 DEF Fence, N
  <1> QED BY <1>9, <1>10, <1>11, <1>12 DEF t

\* What undoing event e does to the info of a node.
LEMMA UndoneInfo ==
  ASSUME NEW s, GoodState(s), NEW e \in GoodEvent, CanUndo(s, e), NEW n \in Nodes,
         Undone(s, e).infos[n] # None
  PROVE  \/ Saves(e, n) /\ Undone(s, e).infos[n] = e.saved[n]
         \/ /\ ~Affects(e, n) /\ e.type # "prevent"
            /\ s.infos[n] # None /\ SamePlace(s.infos[n], Undone(s, e).infos[n])
  <1>1. s.infos \in GoodInfos /\ s.infos = [k \in Nodes |-> s.infos[k]] BY DEF GoodState, GoodInfos
  <1>2. CASE e.type = "change"
    <2> DEFINE new == [k \in Nodes |-> IF e.saved[k] # None THEN e.saved[k] ELSE s.infos[k]]
    <2>1. Undone(s, e) = [s EXCEPT !.infos = new] BY <1>2 DEF Undone
    <2>2. new[n] = IF e.saved[n] # None THEN e.saved[n] ELSE s.infos[n] OBVIOUS
    <2> HIDE DEF new
    <2>3. Undone(s, e).infos = new BY <2>1 DEF GoodState
    <2> QED BY <1>2, <2>2, <2>3 DEF Saves, Affects, SamePlace
  <1>3. CASE e.type = "new"
    <2>1. e.key \in Nodes BY <1>3 DEF GoodEvent
    <2>2. Undone(s, e) = [s EXCEPT !.infos[e.key] = None] BY <1>3 DEF Undone
    <2>3. Undone(s, e).infos = [s.infos EXCEPT ![e.key] = None] BY <2>2 DEF GoodState
    <2>4. n # e.key /\ Undone(s, e).infos[n] = s.infos[n] BY <1>1, <2>1, <2>3
    <2> QED BY <1>3, <2>4 DEF Saves, Affects, SamePlace
  <1>4. CASE e.type = "unlock"
    <2> DEFINE k == e.key
               new == [s.infos[k] EXCEPT !.requested_unlock_height = KEY_IMAGE_AWAITING_UNLOCK_HEIGHT]
    <2>1. k \in Nodes /\ s.infos[k] # None BY <1>4 DEF GoodEvent, CanUndo
    <2>2. s.infos[k] \in Info BY <1>1, <2>1 DEF GoodInfos, GoodInfo
    <2>3. Undone(s, e) = [s EXCEPT !.infos[k].requested_unlock_height = KEY_IMAGE_AWAITING_UNLOCK_HEIGHT]
      BY <1>4 DEF Undone
    <2>4. Undone(s, e).infos = [s.infos EXCEPT ![k] = new] BY <2>3 DEF GoodState
    <2>5. SamePlace(s.infos[k], new) BY <2>2 DEF Info, SamePlace
    <2> HIDE DEF new, k
    <2>6. Undone(s, e).infos[n] = IF n = k THEN new ELSE s.infos[n] BY <1>1, <2>1, <2>4
    <2>7. s.infos[n] # None /\ SamePlace(s.infos[n], Undone(s, e).infos[n])
      BY <2>1, <2>5, <2>6 DEF SamePlace
    <2> QED BY <1>4, <2>7 DEF Saves, Affects
  <1>5. CASE e.type = "blacklist"
    <2> DEFINE new == IF e.adding THEN s.blacklist \ e.entries ELSE s.blacklist \cup e.entries
    <2>1. Undone(s, e) = [s EXCEPT !.blacklist = new] BY <1>5 DEF Undone
    <2> HIDE DEF new
    <2>2. Undone(s, e).infos = s.infos BY <2>1 DEF GoodState
    <2> QED BY <1>5, <2>2 DEF Saves, Affects, SamePlace
  <1>6. e.type # "prevent" BY Zenon DEF CanUndo
  <1> QED BY <1>2, <1>3, <1>4, <1>5, <1>6 DEF GoodEvent

\* Undoing the last event keeps the rest of the log in order and covered.
LEMMA UndoneHistory ==
  ASSUME NEW s, NEW t, GoodState(s), Ordered(s), Covered(s), Len(s.events) > 0,
         CanUndo(s, s.events[Len(s.events)]), t.height = s.height,
         t.infos = Undone(s, s.events[Len(s.events)]).infos,
         Len(t.events) = Len(s.events) - 1,
         \A i \in 1..(Len(s.events) - 1) : t.events[i] = s.events[i]
  PROVE  /\ Ordered(t) /\ Covered(t)
         /\ \A c : Placed(s, c) => Placed(t, c)
         /\ \A g : Fence(s, g) => Fence(t, g)
  <1> DEFINE N == Len(s.events)
             e == s.events[N]
  <1>1. N \in Nat /\ N > 0 /\ N \in 1..N /\ e \in GoodEvent
    <2>1. N \in Nat /\ N > 0 BY EventTypes
    <2>2. N \in 1..N BY <2>1
    <2> QED BY <2>1, <2>2, EventTypes
  <1>2. \A i \in 1..(N - 1) : i \in 1..N /\ t.events[i] = s.events[i] BY <1>1
  <1>3. e.type # "prevent" BY <1>1, Zenon DEF CanUndo
  <1>4. ASSUME NEW n \in Nodes, t.infos[n] # None
        PROVE  \/ Saves(e, n) /\ t.infos[n] = e.saved[n]
               \/ ~Affects(e, n) /\ s.infos[n] # None /\ SamePlace(s.infos[n], t.infos[n])
    BY <1>1, <1>4, UndoneInfo
  <1>5. Len(t.events) = N - 1 OBVIOUS
  <1>6. /\ \A i \in 1..N : s.events[i].height < s.height
        /\ \A i, j \in 1..N : i < j => s.events[i].height <= s.events[j].height
    BY DEF Ordered
  <1>7. /\ \A n \in Nodes : s.infos[n] # None =>
             \E j \in 1..N : Covers(s.events[j], n, s.infos[n].last_reward_block_height)
        /\ \A i \in 1..N, n \in Nodes : Saves(s.events[i], n) =>
             \E j \in 1..(i - 1) : Covers(s.events[j], n, s.events[i].saved[n].last_reward_block_height)
    BY DEF Covered
  <1> HIDE DEF N
  <1>8. Ordered(t) BY <1>2, <1>5, <1>6, Zenon DEF Ordered
  <1>9. Covered(t)
    <2>1. ASSUME NEW n \in Nodes, t.infos[n] # None
          PROVE  \E j \in 1..(N - 1) : Covers(t.events[j], n, t.infos[n].last_reward_block_height)
      <3>1. CASE Saves(e, n) /\ t.infos[n] = e.saved[n]
        <4>1. PICK j \in 1..(N - 1) : Covers(s.events[j], n, e.saved[n].last_reward_block_height)
          BY <1>1, <1>7, <3>1
        <4> QED BY <1>2, <3>1, <4>1
      <3>2. CASE ~Affects(e, n) /\ s.infos[n] # None /\ SamePlace(s.infos[n], t.infos[n])
        <4>1. PICK j \in 1..N : Covers(s.events[j], n, t.infos[n].last_reward_block_height)
          BY <1>7, <3>2 DEF SamePlace
        <4>2. j # N BY <1>3, <3>2, <4>1 DEF Covers
        <4>3. j \in 1..(N - 1) BY <1>1, <4>2
        <4> QED BY <1>2, <4>1, <4>3
      <3> QED BY <1>4, <2>1, <3>1, <3>2
    <2>2. ASSUME NEW i \in 1..(N - 1), NEW n \in Nodes, Saves(t.events[i], n)
          PROVE  \E j \in 1..(i - 1) : Covers(t.events[j], n, t.events[i].saved[n].last_reward_block_height)
      <3>1. i \in 1..N /\ t.events[i] = s.events[i] BY <1>2
      <3>2. PICK j \in 1..(i - 1) : Covers(s.events[j], n, t.events[i].saved[n].last_reward_block_height)
        BY <1>7, <2>2, <3>1
      <3>3. j \in 1..(N - 1) BY <1>1
      <3> QED BY <1>2, <3>2, <3>3
    <2> QED BY <1>5, <2>1, <2>2 DEF Covered
  <1>10. ASSUME NEW c, Placed(s, c)
         PROVE  Placed(t, c)
    <2>1. ASSUME NEW n \in Nodes, t.infos[n] # None
          PROVE  OwnPlace(c, t.infos[n], n)
      <3>1. CASE Saves(e, n) /\ t.infos[n] = e.saved[n] BY <1>1, <1>10, <3>1 DEF Placed, N
      <3>2. CASE s.infos[n] # None /\ SamePlace(s.infos[n], t.infos[n])
        BY <1>10, <3>2 DEF Placed, OwnPlace, SamePlace
      <3> QED BY <1>4, <2>1, <3>1, <3>2
    <2>2. ASSUME NEW i \in 1..(N - 1), NEW n \in Nodes, Saves(t.events[i], n)
          PROVE  OwnPlace(c, t.events[i].saved[n], n)
      BY <1>2, <1>10, <2>2 DEF Placed, N
    <2> QED BY <1>5, <2>1, <2>2 DEF Placed
  <1>11. ASSUME NEW g, Fence(s, g)
         PROVE  Fence(t, g)
    <2>1. PICK i \in 1..N : s.events[i].type = "prevent" /\ s.events[i].height >= g
      BY <1>11 DEF Fence, N
    <2>2. i # N BY <1>3, <2>1
    <2>3. i \in 1..(N - 1) BY <1>1, <2>2
    <2> QED BY <1>2, <1>5, <2>1, <2>3 DEF Fence
  <1> QED BY <1>8, <1>9, <1>10, <1>11

\* Places are below the events, so that a chain with the same blocks up to
\* there has them too.
LEMMA PlacedInOther ==
  ASSUME NEW s, GoodState(s), Covered(s), NEW c, NEW d, NEW top \in Int,
         Placed(s, c), \A i \in 1..Len(s.events) : s.events[i].height < top,
         \A h \in Nat : h < top /\ h < Len(c) => h < Len(d) /\ d[h + 1] = c[h + 1]
  PROVE  Placed(s, d)
  <1> DEFINE N == Len(s.events)
  <1>1. N \in Nat BY EventTypes
  <1>2. ASSUME NEW info, NEW n \in Nodes, OwnPlace(c, info, n), info.last_reward_block_height \in Nat,
               NEW j \in 1..N, Covers(s.events[j], n, info.last_reward_block_height)
        PROVE  OwnPlace(d, info, n)
    <2> DEFINE h == info.last_reward_block_height
    <2>1. h \in Nat /\ s.events[j].height \in Nat /\ s.events[j].height >= h /\ s.events[j].height < top
      BY <1>2, EventTypes DEF Covers
    <2>2. h < Len(c) BY <1>2 DEF OwnPlace
    <2>3. h < Len(d) /\ d[h + 1] = c[h + 1] BY <2>1, <2>2
    <2> QED BY <1>2, <2>3 DEF OwnPlace
  <1>3. ASSUME NEW n \in Nodes, s.infos[n] # None
        PROVE  OwnPlace(d, s.infos[n], n)
    <2>1. s.infos[n].last_reward_block_height \in Nat BY <1>3, EventTypes
    <2>2. OwnPlace(c, s.infos[n], n) BY <1>3 DEF Placed
    <2>3. PICK j \in 1..N : Covers(s.events[j], n, s.infos[n].last_reward_block_height)
      BY <1>3 DEF Covered
    <2> QED BY <1>2, <2>1, <2>2, <2>3
  <1>4. ASSUME NEW i \in 1..N, NEW n \in Nodes, Saves(s.events[i], n)
        PROVE  OwnPlace(d, s.events[i].saved[n], n)
    <2> DEFINE info == s.events[i].saved[n]
    <2>1. info.last_reward_block_height \in Nat BY <1>4, EventTypes
    <2>2. OwnPlace(c, info, n) BY <1>4 DEF Placed
    <2>3. PICK j \in 1..(i - 1) : Covers(s.events[j], n, info.last_reward_block_height)
      BY <1>4 DEF Covered
    <2>4. j \in 1..N BY <1>1
    <2> HIDE DEF info
    <2>5. OwnPlace(d, info, n) BY <1>2, <2>1, <2>2, <2>3, <2>4
    <2> QED BY <2>5 DEF info
  <1> QED BY <1>3, <1>4 DEF Placed
------------------------------------------------------------------------------
(***************************************************************************)
(* Every place in the reward queue is the position in the chain that gave  *)
(* it.                                                                     *)
(***************************************************************************)
\* An empty list has no places.
LEMMA ClearedHistory ==
  Ordered(Cleared) /\ Covered(Cleared) /\ \A c : Placed(Cleared, c)
  <1>1. Cleared.events = <<>> /\ Len(Cleared.events) = 0 BY DEF Cleared
  <1>2. \A n \in Nodes : Cleared.infos[n] = None BY DEF Cleared, NoInfos
  <1>3. 1..0 = {} OBVIOUS
  <1> HIDE DEF Cleared
  <1> QED BY <1>1, <1>2, <1>3 DEF Ordered, Covered, Placed

\* Places depend on the infos and the events only.
LEMMA SameHistory ==
  ASSUME NEW s, NEW t, t.infos = s.infos, t.events = s.events
  PROVE  /\ Covered(s) => Covered(t)
         /\ \A c : Placed(s, c) => Placed(t, c)
         /\ \A g : Fence(s, g) => Fence(t, g)
         /\ Ordered(s) /\ t.height = s.height => Ordered(t)
  BY Zenon DEF Covered, Placed, Fence, Ordered

\* The blocks of the chain are short, and it is its own old chain.
LEMMA ChainIsOld ==
  ASSUME IInv, PlaceInv
  PROVE  /\ \A i \in 1..Height : Len(chain[i].txs) <= MaxTxsPerBlock
         /\ pc # "detach" => IsOldChain(chain) /\ Placed(state, chain)
  <1>1. PICK c \in Seq(AnyBlock) : IsOldChain(c) /\ Placed(state, c) BY DEF PlaceInv
  <1>2. Height \in Nat /\ Len(c) \in Nat BY HeightTypes, LenProperties
  <1>3. /\ Height <= Len(c) /\ \A i \in 1..Height : c[i] = chain[i]
        /\ pc # "detach" => c = chain
        /\ \A i \in 1..Len(c) : Len(c[i].txs) <= MaxTxsPerBlock
    BY <1>1 DEF IsOldChain
  <1>4. ASSUME NEW i \in 1..Height
        PROVE  Len(chain[i].txs) <= MaxTxsPerBlock
    <2>1. i \in 1..Len(c) BY <1>2, <1>3
    <2> QED BY <1>3, <2>1
  <1>5. pc # "detach" => IsOldChain(chain) /\ Placed(state, chain) BY <1>1, <1>3
  <1> QED BY <1>4, <1>5

\* The invariant of a state in which the chain is not being taken back.
LEMMA PlacedOnChain ==
  ASSUME IInv', NEW s, state' = s, Ordered(s), Covered(s), Placed(s, chain'),
         \A i \in 1..Height' : Len(chain'[i].txs) <= MaxTxsPerBlock,
         DbPlaced', db' # None /\ pc' \notin {"detach", "down"} => db'.height <= Height'
  PROVE  PlaceInv'
  <1>1. chain' \in Seq(AnyBlock) /\ Height' \in Nat BY LenProperties DEF IInv, ControlOK, Height
  <1>2. IsOldChain(chain)' BY <1>1 DEF IsOldChain, Height
  <1>3. \E c \in Seq(AnyBlock) : IsOldChain(c)' /\ Placed(state, c)' BY <1>1, <1>2
  <1> QED BY <1>3 DEF PlaceInv

\* The empty list has no places.
LEMMA InitPlaces == Init => PlaceInv
  <1> SUFFICES ASSUME Init PROVE PlaceInv OBVIOUS
  <1>1. PICK hash \in Hashes : chain = <<[hash |-> hash, winner |-> None, txs |-> <<>>]>> BY DEF Init
  <1>2. state = Cleared /\ db = None BY DEF Init
  <1>3. chain \in Seq(AnyBlock) BY InitGood DEF IInv, ControlOK
  <1>4. Height = 1 /\ Len(chain[1].txs) = 0 BY <1>1 DEF Height
  <1>5. \A i \in 1..Height : Len(chain[i].txs) <= MaxTxsPerBlock
    <2>1. MaxTxsPerBlock \in Nat BY ListAssumption
    <2> QED BY <1>4, <2>1
  <1>6. IsOldChain(chain) BY <1>4, <1>5 DEF IsOldChain, Height
  <1> QED BY <1>2, <1>3, <1>6, ClearedHistory DEF PlaceInv, DbPlaced

\* A longer chain has all the places.
LEMMA AddBlockPlaces ==
  ASSUME IInv, PlaceInv, AddBlock
  PROVE  PlaceInv'
  <1>1. pc = "idle" /\ UNCHANGED <<state, db>> BY DEF AddBlock
  <1>2. PICK b : chain' = Append(chain, b) /\ Len(b.txs) <= MaxTxsPerBlock
    <2>1. PICK hash \in Hashes, n \in 0..MaxTxsPerBlock,
               winner \in IF CurrentVersion < 9 THEN {None} ELSE select_winner(state) :
            \E txs \in [1..n -> ValidTxs] :
              chain' = Append(chain, [hash |-> hash, winner |-> winner, txs |-> txs])
      BY Zenon DEF AddBlock
    <2>4. PICK txs \in [1..n -> ValidTxs] :
            chain' = Append(chain, [hash |-> hash, winner |-> winner, txs |-> txs])
      BY <2>1
    <2>2. n \in Nat /\ n <= MaxTxsPerBlock BY ListAssumption
    <2>3. Len(txs) = n BY <2>2
    <2> QED BY <2>2, <2>3, <2>4
  <1>3. chain \in Seq(AnyBlock) /\ Len(chain) \in Nat BY LenProperties DEF IInv, ControlOK
  <1>4. /\ Len(chain') = Len(chain) + 1 /\ chain'[Len(chain) + 1] = b
        /\ \A i \in 1..Len(chain) : chain'[i] = chain[i]
    <2>1. PICK S : chain \in Seq(S) /\ b \in S
      <3>1. chain \in Seq(AnyBlock \cup {b}) BY <1>3, SeqMonotonic
      <3> QED BY <3>1
    <2> QED BY <1>2, <2>1, AppendProperties
  <1>5. IInv' BY AddBlockGood
  <1>6. \A h \in Nat : h < Len(chain) => h < Len(chain') /\ chain'[h + 1] = chain[h + 1]
    BY <1>3, <1>4
  <1>7. ASSUME NEW s, GoodState(s), Ordered(s), Covered(s), Placed(s, chain)
        PROVE  Placed(s, chain')
    <2>1. s.height \in Int /\ \A i \in 1..Len(s.events) : s.events[i].height < s.height
      BY <1>7 DEF Ordered, GoodState
    <2> QED BY <1>6, <1>7, <2>1, PlacedInOther, Zenon
  <1>8. Placed(state, chain) /\ \A i \in 1..Height : Len(chain[i].txs) <= MaxTxsPerBlock
    BY <1>1, ChainIsOld
  <1>9. \A i \in 1..Height' : Len(chain'[i].txs) <= MaxTxsPerBlock
    <2> SUFFICES ASSUME NEW i \in 1..Len(chain')
                 PROVE  Len(chain'[i].txs) <= MaxTxsPerBlock
      BY DEF Height
    <2>1. i \in 1..Len(chain) \/ i = Len(chain) + 1 BY <1>3, <1>4
    <2> QED BY <1>2, <1>4, <1>8, <2>1 DEF Height
  <1>10. db # None => db.height <= Height /\ db.height \in Nat BY <1>1, HeightTypes DEF PlaceInv
  <1>11. db # None => Ordered(db) /\ Covered(db) /\ Placed(db, chain) BY <1>10 DEF PlaceInv, DbPlaced
  <1>12. db # None => Placed(db, chain') BY <1>7, <1>11 DEF IInv
  <1>13. DbPlaced' BY <1>1, <1>11, <1>12 DEF DbPlaced
  <1>14. db' # None => db'.height <= Height' BY <1>1, <1>3, <1>4, <1>10 DEF Height
  <1>15. Placed(state, chain') BY <1>7, <1>8 DEF PlaceInv, IInv
  <1> QED BY <1>1, <1>5, <1>9, <1>13, <1>14, <1>15, PlacedOnChain DEF PlaceInv

\* Culling and the phases before the transactions.
LEMMA BeginBlockHistory ==
  ASSUME IInv, HeightInv, PlaceInv, BeginBlock
  PROVE  /\ Ordered(state') /\ Covered(state') /\ Placed(state', chain)
         /\ state'.quorums = state.quorums /\ state.height = cur
         /\ Fence(state', CullHeight(cur)) /\ \A g \in Int : Fence(state, g) => Fence(state', g)
  <1>1. pc = "block" /\ HardForkVersion(cur) >= 9 BY DEF BeginBlock
  <1>2. PICK k, s :
           /\ k \in 0..Len(state.events)
           /\ GoodState(s) /\ s.height = state.height + 1
           /\ s.events = CulledEvents(state.events, cur, k) /\ IsCullCount(state.events, cur, k)
           /\ s.infos = state.infos /\ s.quorums = state.quorums
           /\ state' = AdvancedList(s, Block(cur), cur)
    BY BeginBlockHeight
  <1>3. cur \in Nat /\ HF9_HEIGHT \in Nat /\ cur >= HF9_HEIGHT /\ cur < Height /\ Height \in Nat
    BY <1>1, HeightTypes, VersionOfBlock
  <1>4. state.height = cur BY <1>1, <1>3 DEF HeightInv, Larger
  <1>5. Placed(state, chain) BY <1>1, ChainIsOld
  <1>6. GoodState(state) /\ Ordered(state) /\ Covered(state) BY DEF IInv, PlaceInv
  <1>7. /\ Ordered(s) /\ Covered(s) /\ \A c : Placed(state, c) => Placed(s, c)
        /\ Fence(s, CullHeight(cur)) /\ \A g \in Int : Fence(state, g) => Fence(s, g)
    BY <1>2, <1>3, <1>4, <1>6, CulledHistory, Zenon
  <1>8. PICK l, m : /\ Logged(s, l, cur, Block(cur)) /\ Logged(l, m, cur, Block(cur))
                    /\ Logged(m, state', cur, Block(cur))
    BY <1>2, <1>3, AdvancedListLogged
  <1>9. cur < Len(chain) /\ chain[cur + 1] = Block(cur) BY <1>3 DEF Height, Block
  <1>10. s.height = cur + 1 BY <1>2, <1>4
  <1>11. /\ Ordered(l) /\ Covered(l) /\ Placed(l, chain) /\ l.height = cur + 1 /\ GoodState(l)
         /\ l.quorums = s.quorums /\ \A g : Fence(s, g) => Fence(l, g)
    BY <1>2, <1>3, <1>5, <1>7, <1>8, <1>9, <1>10, LoggedHistory, Zenon
  <1>12. /\ Ordered(m) /\ Covered(m) /\ Placed(m, chain) /\ m.height = cur + 1 /\ GoodState(m)
         /\ m.quorums = s.quorums /\ \A g : Fence(s, g) => Fence(m, g)
    BY <1>3, <1>8, <1>9, <1>11, LoggedHistory, Zenon
  <1>13. /\ Ordered(state') /\ Covered(state') /\ Placed(state', chain)
         /\ state'.quorums = s.quorums /\ \A g : Fence(s, g) => Fence(state', g)
    BY <1>3, <1>8, <1>9, <1>12, LoggedHistory, Zenon
  <1> QED BY <1>2, <1>4, <1>7, <1>13

\* The first half of block_added_generic keeps PlaceInv.
LEMMA BeginBlockPlaces ==
  ASSUME IInv, HeightInv, PlaceInv, BeginBlock
  PROVE  PlaceInv'
  <1>1. pc = "block" /\ pc' = "txs" /\ UNCHANGED <<chain, db>> BY DEF BeginBlock
  <1>2. IInv' BY BeginBlockGood
  <1>3. Ordered(state') /\ Covered(state') /\ Placed(state', chain) BY BeginBlockHistory
  <1>4. DbPlaced' BY <1>1 DEF PlaceInv, DbPlaced, Height
  <1>5. db' # None => db'.height <= Height' BY <1>1 DEF PlaceInv, Height
  <1>6. \A i \in 1..Height' : Len(chain'[i].txs) <= MaxTxsPerBlock BY <1>1, ChainIsOld DEF Height
  <1> QED BY <1>1, <1>2, <1>3, <1>4, <1>5, <1>6, PlacedOnChain

\* A transaction.
LEMMA ProcessTxHistory ==
  ASSUME IInv, HeightInv, PlaceInv, ProcessTx
  PROVE  /\ Ordered(state') /\ Covered(state') /\ Placed(state', chain)
         /\ state'.quorums = state.quorums /\ \A g : Fence(state, g) => Fence(state', g)
  <1>1. pc = "txs" BY DEF ProcessTx
  <1>2. PICK m : Logged(state, m, cur, Block(cur)) /\ Logged(m, state', cur, Block(cur))
    BY ProcessTxLogged
  <1>3. cur \in Nat /\ cur < Len(chain) /\ chain[cur + 1] = Block(cur) /\ state.height = cur + 1
    BY <1>1, HeightTypes, VersionOfBlock DEF HeightInv, Height, Block
  <1>4. GoodState(state) /\ Ordered(state) /\ Covered(state) /\ Placed(state, chain)
    BY <1>1, ChainIsOld DEF IInv, PlaceInv
  <1>5. /\ Ordered(m) /\ Covered(m) /\ Placed(m, chain) /\ m.height = cur + 1 /\ GoodState(m)
        /\ m.quorums = state.quorums /\ \A g : Fence(state, g) => Fence(m, g)
    BY <1>2, <1>3, <1>4, LoggedHistory, Zenon
  <1>6. /\ Ordered(state') /\ Covered(state') /\ Placed(state', chain)
        /\ state'.quorums = m.quorums /\ \A g : Fence(m, g) => Fence(state', g)
    BY <1>2, <1>3, <1>5, LoggedHistory, Zenon
  <1> QED BY <1>5, <1>6

\* So does every transaction of the block,
LEMMA ProcessTxPlaces ==
  ASSUME IInv, HeightInv, PlaceInv, ProcessTx
  PROVE  PlaceInv'
  <1>1. pc = "txs" /\ pc' = "txs" /\ UNCHANGED <<chain, db>> BY DEF ProcessTx
  <1>2. IInv' BY ProcessTxGood
  <1>3. Ordered(state') /\ Covered(state') /\ Placed(state', chain) BY ProcessTxHistory
  <1>4. DbPlaced' BY <1>1 DEF PlaceInv, DbPlaced, Height
  <1>5. db' # None => db'.height <= Height' BY <1>1 DEF PlaceInv, Height
  <1>6. \A i \in 1..Height' : Len(chain'[i].txs) <= MaxTxsPerBlock BY <1>1, ChainIsOld DEF Height
  <1> QED BY <1>1, <1>2, <1>3, <1>4, <1>5, <1>6, PlacedOnChain

\* What is stored has the places of the list.
LEMMA StoredPlaces ==
  ASSUME IInv, NEW s, GoodState(s), Ordered(s), Covered(s), Placed(s, chain), DbPlaced,
         db # None => db.height <= Height, CurrentVersion >= 9 => s.height <= Height,
         db' = Stored(s), UNCHANGED chain
  PROVE  DbPlaced' /\ (db' # None => db'.height <= Height')
  <1>1. CurrentVersion \in Nat /\ Height' = Height BY HeightTypes DEF Height
  <1>2. CASE CurrentVersion < 9
    <2>1. db' = db BY <1>2 DEF Stored
    <2> QED BY <1>1, <2>1 DEF DbPlaced
  <1>3. CASE ~(CurrentVersion < 9)
    <2>1. db' = Serialized(s) BY <1>3 DEF Stored
    <2>2. Ordered(db') /\ Covered(db') /\ Placed(db', chain) BY <2>1, SerializedHistory
    <2>3. db'.height <= Height
      <3>1. Serialized(s).height = s.height BY SerializedFields, Zenon
      <3> QED BY <1>1, <1>3, <2>1, <3>1
    <2> QED BY <1>1, <2>2, <2>3 DEF DbPlaced
  <1> QED BY <1>2, <1>3

\* The end of a block.
LEMMA EndBlockHistory ==
  ASSUME IInv, HeightInv, PlaceInv, EndBlock
  PROVE  /\ Ordered(state') /\ Covered(state') /\ Placed(state', chain) /\ GoodState(state')
         /\ state'.height = cur + 1 /\ \A g : Fence(state, g) => Fence(state', g)
         /\ \E m : GoodState(m) /\ m.quorums = state.quorums /\ state' = UpdateQuorums(m, Block(cur), cur)
  <1>1. pc = "txs" BY DEF EndBlock
  <1>2. PICK m : /\ Logged(state, m, cur, Block(cur)) /\ GoodState(state')
                 /\ state' = UpdateQuorums(m, Block(cur), cur)
    BY EndBlockLogged
  <1>3. cur \in Nat /\ cur < Len(chain) /\ chain[cur + 1] = Block(cur) /\ state.height = cur + 1
    BY <1>1, HeightTypes, VersionOfBlock DEF HeightInv, Height, Block
  <1>4. GoodState(state) /\ Ordered(state) /\ Covered(state) /\ Placed(state, chain)
    BY <1>1, ChainIsOld DEF IInv, PlaceInv
  <1>5. /\ Ordered(m) /\ Covered(m) /\ Placed(m, chain) /\ m.height = cur + 1 /\ GoodState(m)
        /\ m.quorums = state.quorums /\ \A g : Fence(state, g) => Fence(m, g)
    BY <1>2, <1>3, <1>4, LoggedHistory, Zenon
  <1>6. state'.infos = m.infos /\ state'.events = m.events /\ state'.height = m.height
    BY <1>2, <1>5, UpdateQuorumsFields
  <1>7. /\ Ordered(state') /\ Covered(state') /\ Placed(state', chain)
        /\ \A g : Fence(m, g) => Fence(state', g)
    BY <1>5, <1>6, SameHistory
  <1> QED BY <1>2, <1>5, <1>6, <1>7

\* the end of the block, which may save the list,
LEMMA EndBlockPlaces ==
  ASSUME IInv, HeightInv, PlaceInv, EndBlock
  PROVE  PlaceInv'
  <1>1. pc = "txs" /\ FinishBlock(state') /\ UNCHANGED chain BY DEF EndBlock
  <1>2. IInv' BY EndBlockGood
  <1>3. /\ Ordered(state') /\ Covered(state') /\ Placed(state', chain) /\ GoodState(state')
        /\ state'.height = cur + 1
    BY EndBlockHistory
  <1>4. cur \in Nat /\ Height \in Nat /\ cur < Height BY <1>1, HeightTypes, VersionOfBlock
  <1>5. db # None => db.height <= Height BY <1>1 DEF PlaceInv
  <1>6. DbPlaced BY DEF PlaceInv
  <1>7. DbPlaced' /\ (db' # None => db'.height <= Height')
    <2>1. CASE db' = db BY <1>1, <1>5, <1>6, <2>1 DEF DbPlaced, Height
    <2>2. CASE db' = Stored(state') BY <1>1, <1>3, <1>4, <1>5, <1>6, <2>2, StoredPlaces
    <2> QED BY <1>1, <2>1, <2>2, Zenon DEF FinishBlock
  <1>8. \A i \in 1..Height' : Len(chain'[i].txs) <= MaxTxsPerBlock BY <1>1, ChainIsOld DEF Height
  <1> QED BY <1>1, <1>2, <1>3, <1>7, <1>8, PlacedOnChain

\* a block from before the list counts,
LEMMA SkipBlockPlaces ==
  ASSUME IInv, HeightInv, PlaceInv, SkipBlock
  PROVE  PlaceInv'
  <1>1. pc = "block" /\ HardForkVersion(cur) < 9 /\ FinishBlock(state) /\ UNCHANGED <<chain, state>>
    BY DEF SkipBlock
  <1>2. IInv' BY SkipBlockGood
  <1>3. GoodState(state) /\ Ordered(state) /\ Covered(state) /\ Placed(state, chain)
    BY <1>1, ChainIsOld DEF IInv, PlaceInv
  <1>4. /\ cur \in Nat /\ HF9_HEIGHT \in Nat /\ Height \in Nat
        /\ (CurrentVersion >= 9 <=> Height >= HF9_HEIGHT) /\ CurrentVersion \in Nat
    BY HeightTypes
  <1>5. cur < HF9_HEIGHT BY <1>1, <1>4, VersionOfBlock
  <1>6. caller = "added" /\ state.height = Larger(cur, HF9_HEIGHT) /\ Height = cur + 1
    <2>1. caller \in {"added", "init"} BY DEF IInv, ControlOK
    <2>2. caller # "init" BY <1>1, <1>4, <1>5 DEF HeightInv
    <2> QED BY <1>1, <2>1, <2>2 DEF HeightInv
  <1>7. CurrentVersion >= 9 => state.height <= Height BY <1>4, <1>5, <1>6 DEF Larger
  <1>8. db' = Stored(state) BY <1>1, <1>6 DEF FinishBlock
  <1>9. (db # None => db.height <= Height) /\ DbPlaced BY <1>1 DEF PlaceInv
  <1>10. DbPlaced' /\ (db' # None => db'.height <= Height')
    BY <1>1, <1>3, <1>7, <1>8, <1>9, StoredPlaces
  <1>11. \A i \in 1..Height' : Len(chain'[i].txs) <= MaxTxsPerBlock BY <1>1, ChainIsOld DEF Height
  <1> QED BY <1>1, <1>2, <1>3, <1>10, <1>11, PlacedOnChain

\* The list still remembers the blocks that are popped.
LEMMA PopBlocksPlaces ==
  ASSUME IInv, PlaceInv, PopBlocks
  PROVE  PlaceInv'
  <1>1. PICK h \in 1..(Height - 1) : chain' = SubSeq(chain, 1, h) BY DEF PopBlocks
  <1>2. pc = "idle" /\ pc' = "detach" /\ UNCHANGED <<state, db>> BY DEF PopBlocks
  <1>3. chain \in Seq(AnyBlock) /\ Len(chain) \in Nat BY LenProperties DEF IInv, ControlOK
  <1>4. h \in Nat /\ 1 <= h /\ h < Len(chain) BY <1>3 DEF Height
  <1>5. Len(chain') = h /\ \A i \in 1..h : chain'[i] = chain[i]
    <2>1. \A i \in 1..h : chain[i] \in AnyBlock BY <1>3, <1>4, ElementOfSeq
    <2>2. /\ Len(SubSeq(chain, 1, h)) = IF 1 <= h THEN h - 1 + 1 ELSE 0
          /\ \A i \in 1..(h - 1 + 1) : SubSeq(chain, 1, h)[i] = chain[1 + i - 1]
      BY <1>4, <2>1, SubSeqProperties
    <2>3. h - 1 + 1 = h /\ \A i \in 1..h : 1 + i - 1 = i BY <1>4
    <2> QED BY <1>1, <1>4, <2>2, <2>3
  <1>6. Placed(state, chain) /\ \A i \in 1..Height : Len(chain[i].txs) <= MaxTxsPerBlock
    BY <1>2, ChainIsOld
  <1>8. \E c \in Seq(AnyBlock) : IsOldChain(c)' /\ Placed(state', c)
    <2>1. PICK d \in Seq(AnyBlock) : d = chain BY <1>3
    <2>2. Height' <= Len(d) /\ \A i \in 1..Height' : d[i] = chain'[i] BY <1>4, <1>5, <2>1 DEF Height
    <2>3. \A i \in 1..Len(d) : Len(d[i].txs) <= MaxTxsPerBlock BY <1>6, <2>1 DEF Height
    <2>4. IsOldChain(d)' BY <1>2, <2>2, <2>3 DEF IsOldChain
    <2>5. Placed(state', d) BY <1>2, <1>6, <2>1
    <2> QED BY <2>4, <2>5
  <1>9. DbPlaced'
    <2> SUFFICES ASSUME db # None
                 PROVE  Ordered(db) /\ Covered(db) /\ (db.height <= Len(chain') => Placed(db, chain'))
      BY <1>2 DEF DbPlaced, Height
    <2>1. db.height <= Height /\ db.height \in Nat BY <1>2, HeightTypes DEF PlaceInv
    <2>2. GoodState(db) /\ Ordered(db) /\ Covered(db) /\ Placed(db, chain)
      BY <2>1 DEF IInv, PlaceInv, DbPlaced
    <2>3. ASSUME db.height <= Len(chain')
          PROVE  Placed(db, chain')
      <3>1. \A i \in 1..Len(db.events) : db.events[i].height < db.height BY <2>2 DEF Ordered
      <3>2. \A g \in Nat : g < db.height /\ g < Len(chain) => g < Len(chain') /\ chain'[g + 1] = chain[g + 1]
        BY <1>4, <1>5, <2>1, <2>3
      <3>3. db.height \in Int BY <2>1
      <3> QED BY <2>2, <3>1, <3>2, <3>3, PlacedInOther, Zenon
    <2> QED BY <2>2, <2>3
  <1> QED BY <1>2, <1>8, <1>9 DEF PlaceInv, Ordered, Covered

\* A round of the undo loop.
LEMMA UndoEventHistory ==
  ASSUME IInv, PlaceInv, UndoEvent
  PROVE  /\ Ordered(state') /\ Covered(state')
         /\ \A c : Placed(state, c) => Placed(state', c)
         /\ state'.quorums = state.quorums /\ \A g : Fence(state, g) => Fence(state', g)
  <1>1. /\ Len(state.events) \in Nat /\ Len(state.events) > 0
        /\ CanUndo(state, LastEvent)
        /\ state'.height = state.height /\ state'.quorums = state.quorums
        /\ state'.infos = Undone(state, LastEvent).infos
        /\ Len(state'.events) = Len(state.events) - 1
        /\ \A i \in 1..(Len(state.events) - 1) : state'.events[i] = state.events[i]
    BY UndoEventFields
  <1>2. GoodState(state) /\ Ordered(state) /\ Covered(state) BY DEF IInv, PlaceInv
  <1>3. LastEvent = state.events[Len(state.events)] BY DEF LastEvent
  <1> QED BY <1>1, <1>2, <1>3, UndoneHistory, Zenon

\* the undoing of an event, or its refusal,
LEMMA UndoEventPlaces ==
  ASSUME IInv, PlaceInv, UndoEvent
  PROVE  PlaceInv'
  <1>1. pc = "detach" /\ pc' = "detach" /\ UNCHANGED <<chain, db>> BY DEF UndoEvent
  <1>2. Ordered(state') /\ Covered(state') /\ \A c : Placed(state, c) => Placed(state', c)
    BY UndoEventHistory
  <1>3. PICK c \in Seq(AnyBlock) : IsOldChain(c) /\ Placed(state, c) BY DEF PlaceInv
  <1>4. IsOldChain(c)' /\ Placed(state', c) BY <1>1, <1>2, <1>3 DEF IsOldChain, Height
  <1>5. DbPlaced' BY <1>1 DEF PlaceInv, DbPlaced, Height
  <1> QED BY <1>1, <1>2, <1>4, <1>5 DEF PlaceInv

\* init starts from the stored list, or from an empty one.
LEMMA EnterInitPlaces ==
  ASSUME IInv, HeightInv, PlaceInv, NEW return \in {"idle", "detached"}, EnterInit(return),
         UNCHANGED chain, IInv'
  PROVE  PlaceInv'
  <1>1. /\ \/ /\ db # None /\ db.height <= Height /\ state' = db /\ db' = db
           \/ state' = Cleared /\ db' = None
        /\ pc' # "detach"
    BY EnterInitCases
  <1>2. Ordered(state') /\ Covered(state') /\ Placed(state', chain)
    BY <1>1, ClearedHistory DEF PlaceInv, DbPlaced
  <1>3. DbPlaced' /\ (db' # None => db'.height <= Height') BY <1>1 DEF PlaceInv, DbPlaced, Height
  <1>4. \A i \in 1..Height' : Len(chain'[i].txs) <= MaxTxsPerBlock BY ChainIsOld DEF Height
  <1> QED BY <1>2, <1>3, <1>4, PlacedOnChain

\* the reset that follows a refusal,
LEMMA GiveUpUndoPlaces ==
  ASSUME IInv, HeightInv, PlaceInv, GiveUpUndo
  PROVE  PlaceInv'
  BY GiveUpUndoGood, EnterInitPlaces DEF GiveUpUndo

\* a restart from the database or from nothing,
LEMMA RestartPlaces ==
  ASSUME IInv, HeightInv, PlaceInv, Restart
  PROVE  PlaceInv'
  BY RestartGood, EnterInitPlaces DEF Restart

\* The events that are left are about the blocks that are left.
LEMMA DetachedHistory ==
  ASSUME IInv, HeightInv, PlaceInv, FinishDetach
  PROVE  /\ Ordered(state') /\ Covered(state') /\ Placed(state', chain)
         /\ \A g : Fence(state, g) => Fence(state', g)
  <1>1. /\ pc = "detached" \/ (pc = "detach" /\ ~HasEventToUndo)
        /\ target = Height /\ Height \in Nat
    BY HeightTypes DEF FinishDetach, HeightInv, Detaching
  <1>2. state'.height = target /\ state'.infos = state.infos /\ state'.events = state.events
    BY FinishDetachFields
  <1>3. GoodState(state) /\ Ordered(state) /\ Covered(state) BY DEF IInv, PlaceInv
  <1> DEFINE N == Len(state.events)
  <1>4. N \in Nat /\ \A i \in 1..N : state.events[i].height \in Nat BY <1>3, EventTypes
  <1>5. \A i \in 1..N : state.events[i].height < target
    <2>1. CASE pc = "detached" BY <1>1, <1>3, <2>1 DEF HeightInv, Ordered
    <2>2. CASE ~HasEventToUndo
      <3> SUFFICES ASSUME NEW i \in 1..N
                   PROVE  state.events[i].height < target
        OBVIOUS
      <3>1. N > 0 /\ N \in 1..N BY <1>4
      <3>2. state.events[N].height < target BY <1>1, <1>4, <2>2, <3>1 DEF HasEventToUndo, LastEvent
      <3>3. i = N \/ i < N BY <1>4
      <3>4. state.events[i].height <= state.events[N].height BY <1>3, <1>4, <3>1, <3>3 DEF Ordered
      <3> QED BY <1>1, <1>4, <3>1, <3>2, <3>4
    <2> QED BY <1>1, <2>1, <2>2
  <1>6. Ordered(state') BY <1>2, <1>3, <1>5 DEF Ordered
  <1>7. PICK c \in Seq(AnyBlock) : IsOldChain(c) /\ Placed(state, c) BY DEF PlaceInv
  <1>8. Placed(state, chain)
    <2>1. \A g \in Nat : g < target /\ g < Len(c) => g < Len(chain) /\ chain[g + 1] = c[g + 1]
      BY <1>1, <1>7 DEF IsOldChain, Height
    <2>2. target \in Int BY <1>1
    <2> QED BY <1>3, <1>5, <1>7, <2>1, <2>2, PlacedInOther, Zenon
  <1> QED BY <1>2, <1>3, <1>6, <1>8, SameHistory

\* the end of the rollback,
LEMMA FinishDetachPlaces ==
  ASSUME IInv, HeightInv, PlaceInv, FinishDetach
  PROVE  PlaceInv'
  <1>1. pc' = "idle" /\ UNCHANGED chain BY DEF FinishDetach
  <1>2. IInv' BY FinishDetachGood
  <1>3. GoodState(state') /\ state'.height = target /\ db' = Stored(state') BY FinishDetachFields
  <1>4. Ordered(state') /\ Covered(state') /\ Placed(state', chain) BY DetachedHistory
  <1>5. /\ target = Height /\ Height >= HF9_HEIGHT /\ Height \in Nat /\ CurrentVersion \in Nat
        /\ (CurrentVersion >= 9 <=> Height >= HF9_HEIGHT)
    BY HeightTypes DEF FinishDetach, HeightInv, Detaching
  <1>6. db' = Serialized(state') BY <1>3, <1>5 DEF Stored
  <1>7. Ordered(db') /\ Covered(db') /\ Placed(db', chain) BY <1>3, <1>4, <1>6, SerializedHistory
  <1>8. Serialized(state').height = state'.height BY <1>3, SerializedFields, Zenon
  <1>9. DbPlaced' BY <1>1, <1>7 DEF DbPlaced
  <1>10. db'.height <= Height' BY <1>1, <1>3, <1>5, <1>6, <1>8 DEF Height
  <1>11. \A i \in 1..Height' : Len(chain'[i].txs) <= MaxTxsPerBlock BY <1>1, ChainIsOld DEF Height
  <1> QED BY <1>1, <1>2, <1>4, <1>9, <1>10, <1>11, PlacedOnChain

\* and a crash.
LEMMA CrashPlaces ==
  ASSUME IInv, PlaceInv, Crash
  PROVE  PlaceInv'
  <1>1. pc' = "down" /\ state' = Cleared /\ UNCHANGED <<chain, db>> BY DEF Crash
  <1>2. IInv' BY CrashGood
  <1>3. DbPlaced' BY <1>1 DEF PlaceInv, DbPlaced, Height
  <1>4. \A i \in 1..Height' : Len(chain'[i].txs) <= MaxTxsPerBlock BY <1>1, ChainIsOld DEF Height
  <1> QED BY <1>1, <1>2, <1>3, <1>4, ClearedHistory, PlacedOnChain

\* Every step keeps PlaceInv.
LEMMA NextPlaces ==
  ASSUME IInv, HeightInv, PlaceInv, [Next]_vars
  PROVE  PlaceInv'
  <1>1. CASE UNCHANGED vars
    <2>1. UNCHANGED <<chain, state, db, pc>> BY <1>1 DEF vars
    <2>2. DbPlaced' BY <2>1 DEF PlaceInv, DbPlaced, Height
    <2>3. PICK c \in Seq(AnyBlock) : IsOldChain(c) /\ Placed(state, c) BY DEF PlaceInv
    <2>4. IsOldChain(c)' /\ Placed(state', c) BY <2>1, <2>3 DEF IsOldChain, Height
    <2> QED BY <2>1, <2>2, <2>4 DEF PlaceInv, Height
  <1>2. CASE Next
    BY <1>2, AddBlockPlaces, BeginBlockPlaces, ProcessTxPlaces, EndBlockPlaces, SkipBlockPlaces,
       PopBlocksPlaces, UndoEventPlaces, GiveUpUndoPlaces, FinishDetachPlaces, CrashPlaces,
       RestartPlaces DEF Next, Step
  <1> QED BY <1>1, <1>2

\* Two nodes cannot own one position of a chain of short blocks.
LEMMA PlacesDiffer ==
  ASSUME NEW c \in Seq(AnyBlock), \A i \in 1..Len(c) : Len(c[i].txs) <= MaxTxsPerBlock,
         NEW n \in Nodes, NEW k \in Nodes, NEW x \in GoodInfo, NEW y \in GoodInfo,
         OwnPlace(c, x, n), OwnPlace(c, y, k), SamePlace(x, y)
  PROVE  n = k
  <1> DEFINE h == x.last_reward_block_height
             i == x.last_reward_transaction_index
             blk == c[h + 1]
  <1>1. h \in Nat /\ i \in Nat /\ Len(c) \in Nat BY LenProperties DEF GoodInfo, Info
  <1>2. h < Len(c) /\ IsPlaceOf(blk, i, n) /\ IsPlaceOf(blk, i, k) BY DEF OwnPlace, SamePlace
  <1>3. h + 1 \in 1..Len(c) BY <1>1, <1>2
  <1>4. blk \in AnyBlock /\ Len(blk.txs) <= MaxTxsPerBlock BY <1>3, ElementOfSeq
  <1> HIDE DEF blk, h, i
  <1>5. blk.txs \in Seq(AnyTx) BY <1>4 DEF AnyBlock
  <1>6. DOMAIN blk.txs = 1..Len(blk.txs) /\ Len(blk.txs) \in Nat BY <1>5, LenProperties
  <1>7. i + 1 \in DOMAIN blk.txs => i # UINT32_MAX
    <2>1. MaxTxsPerBlock \in Nat /\ UINT32_MAX \in Nat /\ UINT32_MAX > MaxTxsPerBlock
      BY ListAssumption, InfoAssumption
    <2> QED BY <1>1, <1>4, <1>6, <2>1
  <1> QED BY <1>2, <1>7 DEF IsPlaceOf

\* select_winner has one node to choose, whatever the order of the hash table:
\* in every behaviour in which no reorganisation goes below version 9, with
\* crashes, restarts and reorganisations, no two nodes share a place.
THEOREM WinnerIsUnique == Spec /\ ReorgsStayAbove => []UniqueWinner
  <1>1. IInv /\ PlaceInv => UniqueWinner
    <2> SUFFICES ASSUME IInv, PlaceInv, NEW n \in Funded(state), NEW k \in Funded(state), n # k
                 PROVE  \/ WaitsLonger(state.infos[n], state.infos[k])
                        \/ WaitsLonger(state.infos[k], state.infos[n])
      BY DEF UniqueWinner
    <2> DEFINE x == state.infos[n]
               y == state.infos[k]
    <2>1. n \in Nodes /\ k \in Nodes /\ x # None /\ y # None BY DEF Funded, Registered
    <2>2. x \in GoodInfo /\ y \in GoodInfo BY <2>1 DEF IInv, GoodState, GoodInfos
    <2>3. PICK c \in Seq(AnyBlock) : IsOldChain(c) /\ Placed(state, c) BY DEF PlaceInv
    <2>4. OwnPlace(c, x, n) /\ OwnPlace(c, y, k) BY <2>1, <2>3 DEF Placed
    <2>5. \A i \in 1..Len(c) : Len(c[i].txs) <= MaxTxsPerBlock BY <2>3 DEF IsOldChain
    <2> HIDE DEF x, y
    <2>6. ~SamePlace(x, y) BY <2>1, <2>2, <2>4, <2>5, PlacesDiffer
    <2>7. /\ x.last_reward_block_height \in Nat /\ x.last_reward_transaction_index \in Nat
          /\ y.last_reward_block_height \in Nat /\ y.last_reward_transaction_index \in Nat
      BY <2>2 DEF GoodInfo, Info
    <2>8. WaitsLonger(x, y) \/ WaitsLonger(y, x) BY <2>6, <2>7 DEF WaitsLonger, SamePlace
    <2> QED BY <2>8 DEF x, y
  <1>2. IInv /\ HeightInv /\ PlaceInv /\ [Next]_vars => PlaceInv' BY NextPlaces
  <1>3. IInv /\ HeightInv /\ [Next]_vars /\ [PopBlocks => target' >= HF9_HEIGHT]_vars => HeightInv'
    BY NextHeights
  <1> QED BY <1>1, <1>2, <1>3, InitGood, NextGood, InitHeights, InitPlaces, PTL
          DEF Spec, ReorgsStayAbove
==============================================================================
