------------------------ MODULE FullNodeHistoryProofs ------------------------
(***************************************************************************)
(* What the blocks do to the full node list, for every set of nodes and    *)
(* transactions, chain length and number of crashes: nobody is overtaken   *)
(* in the reward queue during a block, and the list is at the height of    *)
(* the block it is given.                                                  *)
(***************************************************************************)
EXTENDS FullNodeListProofs

(***************************************************************************)
(* Heights.  A reorganisation that goes below the first block of version 9 *)
(* leaves the list at a height where it counts no blocks.                  *)
(***************************************************************************)
ReorgsStayAbove == [][PopBlocks => target' >= HF9_HEIGHT]_vars

\* A reorganisation is on its way through the list.
Detaching == pc \in {"detach", "detached"} \/ after = "detached"

\* The height of the list and that of the chain, stage by stage.
HeightInv ==
  /\ db # None => db.height >= HF9_HEIGHT
  /\ pc = "idle" => state.height = Larger(Height, HF9_HEIGHT)
  /\ pc = "detach" => state.height >= target
  /\ pc = "detached" => state.height = Height
  /\ pc = "block" => state.height = IF caller = "added" THEN Larger(cur, HF9_HEIGHT) ELSE cur
  /\ pc \in {"block", "txs"} => IF caller = "added" THEN Height = cur + 1 ELSE cur >= HF9_HEIGHT
  /\ pc = "txs" => cur >= HF9_HEIGHT /\ state.height = cur + 1
  /\ Detaching => target = Height /\ Height >= HF9_HEIGHT
  /\ after = "detached" => pc \in {"block", "txs"} /\ caller = "init"

(***************************************************************************)
(* Places in the reward queue.  Position i of block blk belongs to n.      *)
(***************************************************************************)
IsPlaceOf(blk, i, n) ==
  \/ i = UINT32_MAX /\ blk.winner = n
  \/ i + 1 \in DOMAIN blk.txs /\ blk.txs[i + 1].node = n

\* The place of an info of n is a position of chain c that belongs to n.
OwnPlace(c, info, n) ==
  LET h == info.last_reward_block_height
  IN  h < Len(c) /\ IsPlaceOf(c[h + 1], info.last_reward_transaction_index, n)

\* The node stays where it was, and does not become funded.
KeepsPlace(old, new) ==
  /\ new.last_reward_block_height = old.last_reward_block_height
  /\ new.last_reward_transaction_index = old.last_reward_transaction_index
  /\ is_fully_funded(new) => is_fully_funded(old)

(***************************************************************************)
(* Rollback events.  An event affects a node when undoing it replaces the  *)
(* node's info.                                                            *)
(***************************************************************************)
Saves(e, n) == e.type = "change" /\ e.saved[n] # None
Affects(e, n) == Saves(e, n) \/ (e.type = "new" /\ e.key = n)
------------------------------------------------------------------------------
(***************************************************************************)
(* What an operation of block_added_generic does to the list: it logs one  *)
(* event of the block's height (or does nothing), which saves infos of the *)
(* list, and every info afterwards is one that keeps its place or has been *)
(* given a place of the block, which the event takes away again.           *)
(***************************************************************************)
IsMove(s, infos, e, h, blk, n) ==
  \/ infos[n] = None
  \/ s.infos[n] # None /\ KeepsPlace(s.infos[n], infos[n])
  \/ /\ Affects(e, n) /\ infos[n].last_reward_block_height = h
     /\ IsPlaceOf(blk, infos[n].last_reward_transaction_index, n)

\* Event e, of block blk at height h, undoes the change from s to these infos.
IsLogOf(s, infos, e, h, blk) ==
  /\ e \in GoodEvent /\ e.height = h /\ e.type # "prevent"
  /\ e.type = "change" => \A n \in Nodes : e.saved[n] # None => e.saved[n] = s.infos[n]
  /\ \A n \in Nodes : IsMove(s, infos, e, h, blk, n)

\* List t is list s after at most one change, and its event.
Logged(s, t, h, blk) ==
  /\ GoodState(t) /\ t.height = s.height /\ t.quorums = s.quorums
  /\ \/ t.infos = s.infos /\ t.events = s.events
     \/ \E e : IsLogOf(s, t.infos, e, h, blk) /\ t.events = Append(s.events, e)

\* An operation that does nothing.
LEMMA NothingLogged ==
  ASSUME NEW s, GoodState(s), NEW h, NEW blk
  PROVE  Logged(s, s, h, blk)
  BY DEF Logged

\* A rollback_change event that saves what it replaces.
LEMMA ChangeLogged ==
  ASSUME NEW s, GoodState(s), NEW h \in Nat, NEW blk, NEW S \in SUBSET Registered(s), NEW infos,
         \A n \in S :
           /\ infos[n] \in GoodInfo \cup {None}
           /\ \/ infos[n] = None
              \/ KeepsPlace(s.infos[n], infos[n])
              \/ /\ infos[n].last_reward_block_height = h
                 /\ IsPlaceOf(blk, infos[n].last_reward_transaction_index, n)
  PROVE  Logged(s, ChangeNodes(s, h, S, infos), h, blk)
  <1>1. CASE S = {} BY <1>1, NothingLogged DEF ChangeNodes
  <1>2. CASE S # {}
    <2> DEFINE t == ChangeNodes(s, h, S, infos)
               saved == [n \in Nodes |-> IF n \in S THEN s.infos[n] ELSE None]
               e == rollback_change(h, saved)
    <2>1. S \subseteq Nodes /\ \A n \in S : s.infos[n] # None BY DEF Registered
    <2>2. GoodState(t) BY <2>1, ChangeNodesGood
    <2>3. /\ t.height = s.height /\ t.quorums = s.quorums /\ t.events = Append(s.events, e)
          /\ \A n \in Nodes : t.infos[n] = IF n \in S THEN infos[n] ELSE s.infos[n]
      <3> DEFINE new == [n \in Nodes |-> IF n \in S THEN infos[n] ELSE s.infos[n]]
      <3>1. t = [PushEvent(s, e) EXCEPT !.infos = new] BY <1>2 DEF ChangeNodes
      <3>2. \A n \in Nodes : new[n] = IF n \in S THEN infos[n] ELSE s.infos[n] OBVIOUS
      <3> HIDE DEF t, e, new
      <3> QED BY <3>1, <3>2 DEF GoodState, PushEvent
    <2> HIDE DEF t
    <2>4. saved \in GoodInfos BY DEF GoodState, GoodInfos
    <2>5. \A n \in Nodes : saved[n] = IF n \in S THEN s.infos[n] ELSE None OBVIOUS
    <2> HIDE DEF saved
    <2>6. e \in GoodEvent /\ e.height = h /\ e.type = "change" /\ e.saved = saved
      BY <2>4 DEF GoodEvent, rollback_change
    <2> HIDE DEF e
    <2>7. ASSUME NEW n \in Nodes
          PROVE  IsMove(s, t.infos, e, h, blk, n)
      <3>1. CASE n \in S
        <4>1. Affects(e, n) BY <3>1, <2>1, <2>5, <2>6 DEF Affects, Saves
        <4> QED BY <3>1, <4>1, <2>1, <2>3 DEF IsMove
      <3>2. CASE n \notin S BY <3>2, <2>3 DEF IsMove, KeepsPlace
      <3> QED BY <3>1, <3>2
    <2>8. \A n \in Nodes : e.saved[n] # None => e.saved[n] = s.infos[n] BY <2>5, <2>6
    <2>9. IsLogOf(s, t.infos, e, h, blk) BY <2>6, <2>7, <2>8 DEF IsLogOf
    <2>10. Logged(s, t, h, blk) BY <2>2, <2>3, <2>9 DEF Logged
    <2> QED BY <2>10 DEF t
  <1> QED BY <1>1, <1>2

\* Infos may be erased, whatever block this is.
LEMMA ErasureLogged ==
  ASSUME NEW s, GoodState(s), NEW h \in Nat, NEW blk, NEW S \in SUBSET Registered(s)
  PROVE  Logged(s, ChangeNodes(s, h, S, NoInfos), h, blk)
  <1>1. \A n \in S : NoInfos[n] = None BY DEF NoInfos, Registered
  <1> QED BY <1>1, ChangeLogged

\* Events that leave the infos alone.
LEMMA EventLogged ==
  ASSUME NEW s, GoodState(s), NEW h, NEW blk, NEW t, GoodState(t), NEW e \in GoodEvent,
         e.height = h, e.type \in {"unlock", "blacklist"},
         t.height = s.height, t.quorums = s.quorums, t.events = Append(s.events, e),
         \A n \in Nodes : t.infos[n] = s.infos[n] \/ (s.infos[n] # None /\ KeepsPlace(s.infos[n], t.infos[n]))
  PROVE  Logged(s, t, h, blk)
  <1>1. \A n \in Nodes : IsMove(s, t.infos, e, h, blk, n) BY DEF IsMove, KeepsPlace
  <1>2. IsLogOf(s, t.infos, e, h, blk) BY <1>1 DEF IsLogOf
  <1> QED BY <1>2 DEF Logged

\* The expiry of blacklisted key images.
LEMMA ExpireBlacklistLogged ==
  ASSUME NEW s, GoodState(s), NEW h \in Nat, NEW blk
  PROVE  Logged(s, ExpireBlacklist(s, h), h, blk)
  <1> DEFINE gone == {e \in s.blacklist : h >= e.unlock_height}
             e == rollback_key_image_blacklist(h, gone, FALSE)
             p == PushEvent(s, e)
             b == p.blacklist \ gone
             t == [p EXCEPT !.blacklist = b]
  <1>1. GoodState(ExpireBlacklist(s, h)) BY ExpireBlacklistGood
  <1>2. ExpireBlacklist(s, h) = IF gone = {} THEN s ELSE t BY DEF ExpireBlacklist
  <1>3. gone \subseteq BlacklistEntry BY DEF GoodState
  <1> HIDE DEF gone
  <1>4. e \in GoodEvent /\ e.height = h /\ e.type = "blacklist"
    BY <1>3 DEF GoodEvent, rollback_key_image_blacklist
  <1> HIDE DEF e, b
  <1>5. t.height = s.height /\ t.quorums = s.quorums /\ t.events = Append(s.events, e) /\ t.infos = s.infos
    BY DEF GoodState, PushEvent
  <1> HIDE DEF t
  <1>6. CASE gone = {} BY <1>6, <1>2, NothingLogged
  <1>7. CASE gone # {}
    <2>1. GoodState(t) BY <1>7, <1>1, <1>2
    <2> QED BY <1>7, <1>2, <1>4, <1>5, <2>1, EventLogged
  <1> QED BY <1>6, <1>7

\* The expiry of nodes.
LEMMA ExpireNodesLogged ==
  ASSUME NEW s, GoodState(s), NEW h \in Nat, NEW blk
  PROVE  Logged(s, ExpireNodes(s, h), h, blk)
  <1>1. ExpiredNodes(s, h) \subseteq Registered(s) BY DEF ExpiredNodes
  <1> QED BY <1>1, ErasureLogged DEF ExpireNodes

\* The winner is given the last place of the block.
LEMMA RewardWinnerLogged ==
  ASSUME NEW s, GoodState(s), NEW h \in Nat, NEW blk
  PROVE  Logged(s, RewardWinner(s, blk, h), h, blk)
  <1>1. CASE blk.winner \notin Registered(s) BY <1>1, NothingLogged DEF RewardWinner
  <1>2. CASE blk.winner \in Registered(s)
    <2> DEFINE w == blk.winner
               infos == [n \in {w} |-> [s.infos[n] EXCEPT !.last_reward_block_height = h,
                                                          !.last_reward_transaction_index = UINT32_MAX]]
    <2>1. w \in Nodes /\ s.infos[w] \in GoodInfo BY <1>2 DEF Registered, GoodState, GoodInfos
    <2>2. /\ infos[w] \in GoodInfo /\ infos[w].last_reward_block_height = h
          /\ infos[w].last_reward_transaction_index = UINT32_MAX
      <3>1. UINT32_MAX \in Nat /\ 0 \in SwarmIds BY InfoAssumption
      <3>2. infos[w] \in GoodInfo BY <2>1, <3>1, GoodInfoFields
      <3> QED BY <2>1, <3>2 DEF GoodInfo, Info
    <2>3. RewardWinner(s, blk, h) = ChangeNodes(s, h, {w}, infos) BY <1>2 DEF RewardWinner
    <2> HIDE DEF infos
    <2>4. IsPlaceOf(blk, UINT32_MAX, w) BY DEF IsPlaceOf
    <2>5. {w} \in SUBSET Registered(s) BY <1>2
    <2> HIDE DEF w
    <2> QED BY <2>2, <2>3, <2>4, <2>5, ChangeLogged
  <1> QED BY <1>1, <1>2

\* update_swarms moves nobody in the reward queue.
LEMMA UpdateSwarmsLogged ==
  ASSUME NEW s, GoodState(s), NEW h \in Nat, NEW assignment \in [Registered(s) -> SwarmIds], NEW blk
  PROVE  Logged(s, UpdateSwarms(s, h, assignment), h, blk)
  <1> DEFINE moved == {n \in Registered(s) : assignment[n] # s.infos[n].swarm_id}
             infos == [n \in moved |-> [s.infos[n] EXCEPT !.swarm_id = assignment[n]]]
  <1>1. ASSUME NEW n \in moved
        PROVE  infos[n] \in GoodInfo /\ KeepsPlace(s.infos[n], infos[n])
    <2>1. s.infos[n] \in GoodInfo BY DEF Registered, GoodState, GoodInfos
    <2>2. [s.infos[n] EXCEPT !.swarm_id = assignment[n]] \in GoodInfo
      <3>1. assignment[n] \in SwarmIds /\ 0 \in Nat OBVIOUS
      <3> QED BY <2>1, <3>1, GoodInfoFields
    <2>3. KeepsPlace(s.infos[n], [s.infos[n] EXCEPT !.swarm_id = assignment[n]])
      BY <2>1 DEF KeepsPlace, GoodInfo, Info, is_fully_funded
    <2> QED BY <2>2, <2>3
  <1>2. UpdateSwarms(s, h, assignment) = ChangeNodes(s, h, moved, infos) BY DEF UpdateSwarms
  <1>3. moved \in SUBSET Registered(s) OBVIOUS
  <1> HIDE DEF moved, infos
  <1> QED BY <1>1, <1>2, <1>3, ChangeLogged

\* A registration takes the place of its transaction, or the node keeps its own.
LEMMA RegistrationLogged ==
  ASSUME NEW s, GoodState(s), NEW tx \in Txs, NEW h \in 0..MaxHeight, NEW i \in Nat, NEW blk,
         IsNewRegistration(s, tx, h), i + 1 \in DOMAIN blk.txs, blk.txs[i + 1] = tx
  PROVE  Logged(s, process_registration_tx(s, tx, h, i), h, blk)
  <1> DEFINE v   == HardForkVersion(h)
             new == RegisteredInfo(v, tx, h, i)
             old == s.infos[tx.node]
             set == IF old = None THEN new
                    ELSE [new EXCEPT
                            !.last_reward_block_height = old.last_reward_block_height,
                            !.last_reward_transaction_index = old.last_reward_transaction_index]
             e   == rollback_new(h, tx.node)
             t   == process_registration_tx(s, tx, h, i)
  <1>1. GoodState(t) BY RegistrationGood
  <1>2. tx.node \in Nodes /\ h \in Nat
    <2>1. tx.node # None BY DEF IsNewRegistration, is_registration_tx
    <2> QED BY <2>1, DataAssumption DEF Tx
  <1>3. /\ new.last_reward_block_height = h /\ new.last_reward_transaction_index = i
        /\ new.total_contributed = 0
    BY DEF RegisteredInfo
  <1>4. \/ old = None /\ set.last_reward_block_height = h /\ set.last_reward_transaction_index = i
        \/ old # None /\ KeepsPlace(old, set)
    <2>1. old = None => set.last_reward_block_height = h /\ set.last_reward_transaction_index = i BY <1>3
    <2>2. ASSUME old # None
          PROVE  KeepsPlace(old, set)
      <3>1. /\ set.last_reward_block_height = old.last_reward_block_height
            /\ set.last_reward_transaction_index = old.last_reward_transaction_index
            /\ set.total_contributed = 0
        BY <2>2 DEF RegisteredInfo
      <3>2. ~is_fully_funded(set)
        <4> HIDE DEF set
        <4> QED BY <3>1, RulesAssumption DEF is_fully_funded
      <3> HIDE DEF set, old
      <3> QED BY <3>1, <3>2 DEF KeepsPlace
    <2> QED BY <2>1, <2>2
  <1>5. t = [PushEvent(s, e) EXCEPT !.infos[tx.node] = set] BY DEF process_registration_tx
  <1>6. e \in GoodEvent /\ e.height = h /\ e.type = "new" /\ e.key = tx.node
    BY <1>2 DEF GoodEvent, rollback_new
  <1> HIDE DEF set, e, t
  <1>7. /\ t.height = s.height /\ t.quorums = s.quorums /\ t.events = Append(s.events, e)
        /\ \A n \in Nodes : t.infos[n] = IF n = tx.node THEN set ELSE s.infos[n]
    BY <1>2, <1>5 DEF GoodState, GoodInfos, PushEvent
  <1>8. ASSUME NEW n \in Nodes
        PROVE  IsMove(s, t.infos, e, h, blk, n)
    <2>1. CASE n = tx.node
      <3>1. Affects(e, n) BY <2>1, <1>6 DEF Affects
      <3>2. IsPlaceOf(blk, i, n) BY <2>1 DEF IsPlaceOf
      <3>3. t.infos[n] = set BY <2>1, <1>7
      <3> QED BY <2>1, <3>1, <3>2, <3>3, <1>4 DEF IsMove
    <2>2. CASE n # tx.node BY <2>2, <1>7 DEF IsMove, KeepsPlace
    <2> QED BY <2>1, <2>2
  <1>9. IsLogOf(s, t.infos, e, h, blk) BY <1>6, <1>8 DEF IsLogOf
  <1>10. Logged(s, t, h, blk) BY <1>1, <1>7, <1>9 DEF Logged
  <1> QED BY <1>10 DEF t

\* A contribution takes the place of its transaction.
LEMMA ContributionLogged ==
  ASSUME NEW s, GoodState(s), NEW tx \in Txs, NEW h \in 0..MaxHeight, NEW i \in Nat, NEW blk,
         i + 1 \in DOMAIN blk.txs, blk.txs[i + 1] = tx
  PROVE  Logged(s, process_contribution_tx(s, tx, h, i), h, blk)
  <1>1. CASE ~IsContribution(s, tx, h) BY <1>1, NothingLogged DEF process_contribution_tx
  <1>2. CASE IsContribution(s, tx, h)
    <2> DEFINE v   == HardForkVersion(h)
               parsed == get_contribution(v, tx, h)
               info == s.infos[tx.node]
               new == ContributedInfo(v, info, parsed, h, i)
               infos == [n \in {tx.node} |-> ContributedInfo(v, s.infos[n], parsed, h, i)]
    <2>1. v \in Nat /\ h \in Nat BY VersionType
    <2>2. tx.node # None /\ info # None /\ tx.contribution # None /\ AcceptsContribution(v, info, parsed)
      BY <1>2 DEF IsContribution, HasContribution
    <2>3. tx.node \in Nodes BY <2>2, DataAssumption DEF Tx
    <2>4. info \in GoodInfo BY <2>2, <2>3 DEF GoodState, GoodInfos
    <2>5. parsed \in ParsedContribution BY <2>1, <2>2, ContributionParsed
    <2>6. new \in GoodInfo /\ new.last_reward_block_height = h /\ new.last_reward_transaction_index = i
      <3> HIDE DEF info, parsed, v
      <3>1. new \in GoodInfo BY <2>1, <2>2, <2>4, <2>5, ContributedBalanced DEF GoodInfo
      <3>2. new.last_reward_block_height = h /\ new.last_reward_transaction_index = i
        BY <2>4 DEF ContributedInfo, GoodInfo, Info
      <3> QED BY <3>1, <3>2
    <2>7. process_contribution_tx(s, tx, h, i) = ChangeNodes(s, h, {tx.node}, infos)
      BY <1>2 DEF process_contribution_tx
    <2>8. infos[tx.node] = new OBVIOUS
    <2>9. {tx.node} \in SUBSET Registered(s) BY <2>2, <2>3 DEF Registered
    <2>10. IsPlaceOf(blk, i, tx.node) BY DEF IsPlaceOf
    <2> HIDE DEF infos, new
    <2> QED BY <2>1, <2>6, <2>7, <2>8, <2>9, <2>10, ChangeLogged
  <1> QED BY <1>1, <1>2

\* A deregistration erases an info, then blacklists its key images.
LEMMA DeregistrationLogged ==
  ASSUME NEW s, GoodState(s), NEW tx, NEW h \in Nat, IsDeregistration(s, tx),
         DeregisterTarget(s, tx) \in Nodes, NEW blk
  PROVE  \E m : Logged(s, m, h, blk) /\ Logged(m, process_deregistration_tx(s, tx, h), h, blk)
  <1> DEFINE n == DeregisterTarget(s, tx)
             entries == {[key_image |-> k, unlock_height |-> h + LOCK_BLOCKS] : k \in KeyImagesOf(s.infos[n])}
             m == ChangeNodes(s, h, {n}, NoInfos)
             e == rollback_key_image_blacklist(h, entries, TRUE)
             p == PushEvent(m, e)
             b == p.blacklist \cup entries
             t == [p EXCEPT !.blacklist = b]
  <1>1. Logged(s, m, h, blk)
    <2>1. {n} \in SUBSET Registered(s) BY DEF IsDeregistration, Registered
    <2> HIDE DEF n
    <2> QED BY <2>1, ErasureLogged
  <1>2. GoodState(m) BY <1>1 DEF Logged
  <1>3. process_deregistration_tx(s, tx, h) = IF HardForkVersion(h) < 11 \/ entries = {} THEN m ELSE t
    BY DEF process_deregistration_tx
  <1>4. GoodState(process_deregistration_tx(s, tx, h)) BY DeregistrationGood
  <1>5. entries \subseteq BlacklistEntry
    <2>1. s.infos[n] \in Info BY DEF IsDeregistration, GoodState, GoodInfos, GoodInfo
    <2>2. KeyImagesOf(s.infos[n]) \subseteq KeyImages BY <2>1, KeyImagesTyped
    <2>3. h + LOCK_BLOCKS \in Nat BY InfoAssumption
    <2> HIDE DEF n
    <2> QED BY <2>2, <2>3 DEF BlacklistEntry
  <1> HIDE DEF entries
  <1>6. e \in GoodEvent /\ e.height = h /\ e.type = "blacklist"
    BY <1>5 DEF GoodEvent, rollback_key_image_blacklist
  <1> HIDE DEF m, e, b
  <1>7. t.height = m.height /\ t.quorums = m.quorums /\ t.events = Append(m.events, e) /\ t.infos = m.infos
    BY <1>2 DEF GoodState, PushEvent
  <1> HIDE DEF t
  <1>8. CASE HardForkVersion(h) < 11 \/ entries = {} BY <1>8, <1>1, <1>2, <1>3, NothingLogged
  <1>9. CASE ~(HardForkVersion(h) < 11 \/ entries = {})
    <2>1. GoodState(t) BY <1>9, <1>3, <1>4
    <2>2. Logged(m, t, h, blk) BY <2>1, <1>2, <1>6, <1>7, EventLogged
    <2> QED BY <1>9, <1>1, <1>3, <2>2
  <1> QED BY <1>8, <1>9

\* An unlock request moves nobody in the reward queue.
LEMMA UnlockLogged ==
  ASSUME NEW s, GoodState(s), NEW tx, tx.node \in Nodes, NEW h \in Nat, NEW blk
  PROVE  Logged(s, process_unlock_tx(s, tx, h), h, blk)
  <1> DEFINE n == tx.node
             e == rollback_key_image_unlock(h, n)
             p == PushEvent(s, e)
             u == UnlockHeight(h)
             t == [p EXCEPT !.infos[n].requested_unlock_height = u]
  <1>1. GoodState(process_unlock_tx(s, tx, h)) BY UnlockGood
  <1>2. \/ process_unlock_tx(s, tx, h) = s
        \/ s.infos[n] # None /\ process_unlock_tx(s, tx, h) = t
    BY DEF process_unlock_tx
  <1>3. e \in GoodEvent /\ e.height = h /\ e.type = "unlock" BY DEF GoodEvent, rollback_key_image_unlock
  <1>4. ASSUME s.infos[n] # None, process_unlock_tx(s, tx, h) = t
        PROVE  Logged(s, t, h, blk)
    <2>1. s.infos[n] \in Info BY <1>4 DEF GoodState, GoodInfos, GoodInfo
    <2> HIDE DEF u, e
    <2>2. /\ t.height = s.height /\ t.quorums = s.quorums /\ t.events = Append(s.events, e)
          /\ \A k \in Nodes : t.infos[k] =
               IF k = n THEN [s.infos[n] EXCEPT !.requested_unlock_height = u] ELSE s.infos[k]
      BY DEF GoodState, GoodInfos, PushEvent
    <2>3. KeepsPlace(s.infos[n], [s.infos[n] EXCEPT !.requested_unlock_height = u])
      BY <2>1 DEF KeepsPlace, Info, is_fully_funded
    <2>4. GoodState(t) BY <1>1, <1>4
    <2> HIDE DEF t
    <2>5. \A k \in Nodes :
            t.infos[k] = s.infos[k] \/ (s.infos[k] # None /\ KeepsPlace(s.infos[k], t.infos[k]))
      BY <1>4, <2>2, <2>3
    <2> QED BY <1>3, <2>2, <2>4, <2>5, EventLogged
  <1> QED BY <1>2, <1>4, NothingLogged

\* One transaction of a block is at most two logged operations.
LEMMA ProcessedTxLogged ==
  ASSUME NEW s, GoodState(s), NEW tx \in AnyTx, NEW h \in 0..MaxHeight, NEW i \in Nat, NEW blk,
         i + 1 \in DOMAIN blk.txs, blk.txs[i + 1] = tx
  PROVE  \E m : Logged(s, m, h, blk) /\ Logged(m, ProcessedTx(s, tx, h, i), h, blk)
  <1>1. CASE tx \in Txs
    <2>1. tx.type = "standard" BY <1>1, DataAssumption DEF Tx
    <2> DEFINE m == IF IsNewRegistration(s, tx, h) THEN process_registration_tx(s, tx, h, i) ELSE s
    <2>2. Logged(s, m, h, blk) BY <1>1, RegistrationLogged, NothingLogged
    <2>3. ProcessedTx(s, tx, h, i) = process_contribution_tx(m, tx, h, i) BY <2>1 DEF ProcessedTx
    <2> HIDE DEF m
    <2>4. GoodState(m) BY <2>2 DEF Logged
    <2>5. Logged(m, ProcessedTx(s, tx, h, i), h, blk) BY <1>1, <2>3, <2>4, ContributionLogged
    <2> QED BY <2>2, <2>5
  <1>2. CASE tx \in [type : {"deregister"}, height : Nat, index : Nat]
    <2>1. tx.type = "deregister" BY <1>2
    <2>2. ProcessedTx(s, tx, h, i) =
            IF IsDeregistration(s, tx) THEN process_deregistration_tx(s, tx, h) ELSE s
      BY <2>1 DEF ProcessedTx
    <2>3. IsDeregistration(s, tx) => DeregisterTarget(s, tx) \in Nodes
      BY TargetIsNode DEF IsDeregistration
    <2> QED BY <2>2, <2>3, DeregistrationLogged, NothingLogged
  <1>3. CASE tx \in [type : {"key_image_unlock"}, node : Nodes, key_image : KeyImages]
    <2>1. tx.type = "key_image_unlock" /\ tx.node \in Nodes BY <1>3
    <2>2. ProcessedTx(s, tx, h, i) = process_unlock_tx(s, tx, h) BY <2>1 DEF ProcessedTx
    <2>3. Logged(s, ProcessedTx(s, tx, h, i), h, blk) BY <2>1, <2>2, UnlockLogged
    <2> QED BY <2>3, NothingLogged
  <1> QED BY <1>1, <1>2, <1>3 DEF AnyTx

\* The start of a block is three logged operations.
LEMMA AdvancedListLogged ==
  ASSUME NEW s, GoodState(s), NEW h \in Nat, NEW blk
  PROVE  \E l, m : /\ Logged(s, l, h, blk) /\ Logged(l, m, h, blk)
                   /\ Logged(m, AdvancedList(s, blk, h), h, blk)
  <1> DEFINE l == ExpireBlacklist(s, h)
             m == ExpireNodes(l, h)
  <1>1. Logged(s, l, h, blk) /\ GoodState(l) BY ExpireBlacklistLogged DEF Logged
  <1> HIDE DEF l
  <1>2. Logged(l, m, h, blk) /\ GoodState(m) BY <1>1, ExpireNodesLogged DEF Logged
  <1> HIDE DEF m
  <1>3. Logged(m, RewardWinner(m, blk, h), h, blk) BY <1>2, RewardWinnerLogged
  <1>4. AdvancedList(s, blk, h) = RewardWinner(m, blk, h) BY DEF AdvancedList, l, m
  <1> QED BY <1>1, <1>2, <1>3, <1>4
------------------------------------------------------------------------------
(***************************************************************************)
(* Nobody is overtaken during a block.                                     *)
(***************************************************************************)
\* Nodes keep their places or take one in block h.
Moves(s, t, h) ==
  \A n \in Nodes : \/ t.infos[n] = None
                   \/ s.infos[n] # None /\ KeepsPlace(s.infos[n], t.infos[n])
                   \/ t.infos[n].last_reward_block_height = h

\* Logged operations move nodes only so, and so do several in a row.
LEMMA LoggedMoves ==
  ASSUME NEW s, NEW t, NEW h, NEW blk, Logged(s, t, h, blk)
  PROVE  Moves(s, t, h)
  BY DEF Logged, IsLogOf, IsMove, Moves, KeepsPlace

\* Two operations of one block, one after the other.
LEMMA MovesCompose ==
  ASSUME NEW s, NEW m, NEW t, NEW h, Moves(s, m, h), Moves(m, t, h)
  PROVE  Moves(s, t, h)
  BY DEF Moves, KeepsPlace

\* Whoever is ahead of a node that has kept its place was ahead of it before.
LEMMA MovesOvertakeNobody ==
  ASSUME NEW s, NEW t, NEW h \in Nat, GoodState(s), GoodState(t), Moves(s, t, h),
         NEW n \in Funded(s) \cap Funded(t),
         t.infos[n].last_reward_block_height < h
  PROVE  AheadOf(t, n) \subseteq AheadOf(s, n)
  <1> SUFFICES ASSUME NEW k \in AheadOf(t, n)
               PROVE  k \in AheadOf(s, n)
    OBVIOUS
  <1>1. k \in Funded(t) /\ WaitsLonger(t.infos[k], t.infos[n]) BY DEF AheadOf
  <1>2. /\ n \in Nodes /\ k \in Nodes /\ t.infos[n] # None /\ t.infos[k] # None
        /\ is_fully_funded(t.infos[k]) /\ s.infos[n] # None
    BY <1>1 DEF Funded, Registered
  <1>3. t.infos[n] \in Info /\ t.infos[k] \in Info BY <1>2 DEF GoodState, GoodInfos, GoodInfo
  <1>4. /\ t.infos[n].last_reward_block_height \in Nat /\ t.infos[k].last_reward_block_height \in Nat
    BY <1>3 DEF Info
  <1>5. t.infos[k].last_reward_block_height < h BY <1>1, <1>4 DEF WaitsLonger
  <1>6. KeepsPlace(s.infos[n], t.infos[n]) BY <1>2, <1>4 DEF Moves
  <1>7. s.infos[k] # None /\ KeepsPlace(s.infos[k], t.infos[k]) BY <1>2, <1>4, <1>5 DEF Moves
  <1>8. k \in Funded(s) BY <1>2, <1>7 DEF KeepsPlace, Funded, Registered
  <1>9. WaitsLonger(s.infos[k], s.infos[n]) BY <1>1, <1>6, <1>7 DEF KeepsPlace, WaitsLonger
  <1> QED BY <1>8, <1>9 DEF AheadOf

\* Every step of block_added_generic moves nodes only so.
LEMMA BeginBlockMoves ==
  ASSUME IInv, BeginBlock
  PROVE  Moves(state, state', cur)
  <1>1. PICK k \in 0..Len(state.events) :
          LET culled == [state EXCEPT !.height = @ + 1, !.events = CulledEvents(@, cur, k)]
          IN  state' = AdvancedList(culled, Block(cur), cur)
    BY DEF BeginBlock
  <1> DEFINE culled == [state EXCEPT !.height = state.height + 1,
                                     !.events = CulledEvents(state.events, cur, k)]
  <1>2. cur \in Nat BY DEF IInv, ControlOK
  <1>3. GoodState(culled) BY <1>2, CulledGood DEF IInv
  <1>4. state' = AdvancedList(culled, Block(cur), cur) BY <1>1
  <1>5. culled.infos = state.infos BY DEF IInv, GoodState
  <1> HIDE DEF culled
  <1>6. PICK l, m : /\ Logged(culled, l, cur, Block(cur)) /\ Logged(l, m, cur, Block(cur))
                    /\ Logged(m, state', cur, Block(cur))
    BY <1>2, <1>3, <1>4, AdvancedListLogged
  <1>7. Moves(culled, state', cur) BY <1>6, LoggedMoves, MovesCompose
  <1> QED BY <1>5, <1>7 DEF Moves

\* The transaction a round of the loop is about.
LEMMA CurrentTx ==
  ASSUME IInv, pc = "txs", index <= Len(Block(cur).txs)
  PROVE  /\ cur \in 0..MaxHeight /\ cur < Height /\ index - 1 \in Nat
         /\ Block(cur).txs[index] \in AnyTx /\ (index - 1) + 1 \in DOMAIN Block(cur).txs
         /\ Block(cur).txs[(index - 1) + 1] = Block(cur).txs[index]
  <1>1. cur \in Nat /\ cur < Height /\ index \in Nat /\ index > 0 BY DEF IInv, ControlOK
  <1>2. Block(cur) \in AnyBlock /\ cur \in 0..MaxHeight BY <1>1, BlockTyped
  <1>3. Block(cur).txs \in Seq(AnyTx) BY <1>2 DEF AnyBlock
  <1>4. index \in 1..Len(Block(cur).txs) /\ DOMAIN Block(cur).txs = 1..Len(Block(cur).txs)
    BY <1>1, <1>3, LenProperties
  <1>5. Block(cur).txs[index] \in AnyTx BY <1>3, <1>4, ElementOfSeq
  <1>6. index - 1 \in Nat /\ (index - 1) + 1 = index BY <1>1
  <1> QED BY <1>1, <1>2, <1>4, <1>5, <1>6

\* A round of the loop, as logged operations.
LEMMA ProcessTxLogged ==
  ASSUME IInv, ProcessTx
  PROVE  \E m : Logged(state, m, cur, Block(cur)) /\ Logged(m, state', cur, Block(cur))
  <1>1. pc = "txs" /\ index <= Len(Block(cur).txs) BY DEF ProcessTx
  <1>2. state' = ProcessedTx(state, Block(cur).txs[index], cur, index - 1) BY DEF ProcessTx
  <1>3. /\ cur \in 0..MaxHeight /\ cur < Height /\ index - 1 \in Nat
        /\ Block(cur).txs[index] \in AnyTx /\ (index - 1) + 1 \in DOMAIN Block(cur).txs
        /\ Block(cur).txs[(index - 1) + 1] = Block(cur).txs[index]
    BY <1>1, CurrentTx
  <1> DEFINE i == index - 1
             tx == Block(cur).txs[index]
             blk == Block(cur)
  <1>4. /\ i \in Nat /\ tx \in AnyTx /\ i + 1 \in DOMAIN blk.txs /\ blk.txs[i + 1] = tx
        /\ state' = ProcessedTx(state, tx, cur, i) /\ GoodState(state)
    BY <1>2, <1>3 DEF IInv
  <1> HIDE DEF i, tx, blk
  <1>5. \E m : Logged(state, m, cur, blk) /\ Logged(m, ProcessedTx(state, tx, cur, i), cur, blk)
    BY <1>3, <1>4, ProcessedTxLogged
  <1> QED BY <1>4, <1>5 DEF blk

\* The end of block_added_generic: swarms are logged, then the quorum is stored.
LEMMA EndBlockLogged ==
  ASSUME IInv, EndBlock
  PROVE  \E m : /\ Logged(state, m, cur, Block(cur)) /\ GoodState(state')
                /\ state' = UpdateQuorums(m, Block(cur), cur)
  <1> DEFINE now == [n \in Registered(state) |-> state.infos[n].swarm_id]
  <1>1. PICK assignment \in IF changed THEN SwarmOutcomes(Block(cur).hash, now) ELSE {now} :
          state' = UpdateQuorums(UpdateSwarms(state, cur, assignment), Block(cur), cur)
    BY DEF EndBlock
  <1>2. pc = "txs" BY DEF EndBlock
  <1>3. cur \in Nat /\ cur < Height BY <1>2 DEF IInv, ControlOK
  <1>4. Block(cur).hash \in Hashes BY <1>3, BlockTyped DEF AnyBlock
  <1>5. assignment \in [Registered(state) -> SwarmIds]
    <2>1. now \in [Registered(state) -> SwarmIds]
      BY DEF IInv, GoodState, GoodInfos, GoodInfo, Info, Registered
    <2>2. Registered(state) \in SUBSET Nodes BY DEF Registered
    <2> HIDE DEF now
    <2>3. SwarmOutcomes(Block(cur).hash, now) \subseteq [Registered(state) -> SwarmIds]
      BY <1>4, <2>1, <2>2, DataAssumption
    <2> QED BY <1>1, <2>1, <2>3
  <1>6. Logged(state, UpdateSwarms(state, cur, assignment), cur, Block(cur))
    BY <1>3, <1>5, UpdateSwarmsLogged DEF IInv
  <1>7. GoodState(state') BY EndBlockGood DEF IInv
  <1> QED BY <1>1, <1>6, <1>7

\* The fields UpdateQuorums leaves alone.
LEMMA UpdateQuorumsFields ==
  ASSUME NEW s, GoodState(s), NEW blk, NEW h
  PROVE  /\ UpdateQuorums(s, blk, h).infos = s.infos /\ UpdateQuorums(s, blk, h).events = s.events
         /\ UpdateQuorums(s, blk, h).height = s.height /\ UpdateQuorums(s, blk, h).blacklist = s.blacklist
  <1> DEFINE from == IF h < QUORUM_LIFETIME THEN 0 ELSE h - QUORUM_LIFETIME
             new == [g \in {k \in DOMAIN s.quorums \cup {h} : k >= from} |->
                       IF g = h THEN QuorumState(s, blk.hash) ELSE s.quorums[g]]
  <1>1. UpdateQuorums(s, blk, h) = [s EXCEPT !.quorums = new] BY DEF UpdateQuorums
  <1> HIDE DEF new
  <1> QED BY <1>1 DEF GoodState

\* What holds of a step that is not a crash, in the middle of a block.
LEMMA BlockStepMoves ==
  ASSUME IInv, [Next]_vars, InBlock, cur \in Nat
  PROVE  Moves(state, state', cur)
  <1>1. CASE BeginBlock BY <1>1, BeginBlockMoves
  <1>2. CASE ProcessTx
    <2>1. PICK m : Logged(state, m, cur, Block(cur)) /\ Logged(m, state', cur, Block(cur))
      BY <1>2, ProcessTxLogged
    <2> QED BY <2>1, LoggedMoves, MovesCompose
  <1>3. CASE EndBlock
    <2>1. PICK m : /\ Logged(state, m, cur, Block(cur)) /\ GoodState(state')
                   /\ state' = UpdateQuorums(m, Block(cur), cur)
      BY <1>3, EndBlockLogged
    <2>2. GoodState(m) /\ Moves(state, m, cur) BY <2>1, LoggedMoves DEF Logged
    <2>3. state'.infos = m.infos BY <2>1, <2>2, UpdateQuorumsFields
    <2> QED BY <2>2, <2>3 DEF Moves
  <1>4. CASE state' = state BY <1>4 DEF Moves, KeepsPlace
  <1>5. SkipBlock \/ UNCHANGED vars => state' = state BY DEF SkipBlock, vars
  <1>6. pc \in {"block", "txs"} /\ pc' # "down" BY DEF InBlock
  <1>7. BeginBlock \/ ProcessTx \/ EndBlock \/ SkipBlock \/ UNCHANGED vars
    <2>1. ~AddBlock /\ ~PopBlocks BY <1>6 DEF AddBlock, PopBlocks
    <2>2. ~UndoEvent /\ ~GiveUpUndo BY <1>6 DEF UndoEvent, GiveUpUndo
    <2>3. ~FinishDetach /\ ~Restart /\ ~Crash BY <1>6 DEF FinishDetach, Restart, Crash
    <2> QED BY <2>1, <2>2, <2>3 DEF Next, Step
  <1> QED BY <1>1, <1>2, <1>3, <1>4, <1>5, <1>7

\* A funded node that waits for its reward is overtaken by nobody during a
\* block: select_winner's order among the nodes that wait changes only by nodes
\* leaving or going to the back.
THEOREM QueueIsFair == Spec => NoOvertaking
  <1> DEFINE NoOvertakingStep ==
        InBlock => \A n \in Funded(state) \cap Funded(state') :
                     /\ state.infos[n].last_reward_block_height < cur
                     /\ state'.infos[n].last_reward_block_height < cur
                     => AheadOf(state', n) \subseteq AheadOf(state, n)
  <1>1. IInv /\ [Next]_vars => [NoOvertakingStep]_vars
    <2> SUFFICES ASSUME IInv, [Next]_vars, InBlock
                 PROVE  NoOvertakingStep
      OBVIOUS
    <2>1. GoodState(state) /\ GoodState(state') /\ cur \in Nat BY NextGood DEF IInv, ControlOK
    <2>2. Moves(state, state', cur) BY <2>1, BlockStepMoves
    <2> QED BY <2>1, <2>2, MovesOvertakeNobody
  <1> QED BY <1>1, InitGood, NextGood, PTL DEF Spec, NoOvertaking
------------------------------------------------------------------------------
(***************************************************************************)
(* The list is at the height of the block it is given.                     *)
(***************************************************************************)
\* The heights that occur are numbers, and version 9 starts at HF9_HEIGHT.
LEMMA HeightTypes ==
  ASSUME IInv
  PROVE  /\ Height \in Nat /\ Height > 0 /\ HF9_HEIGHT \in Nat /\ HF9_HEIGHT > 0
         /\ cur \in Nat /\ target \in Nat /\ state.height \in Nat
         /\ db # None => db.height \in Nat
         /\ CurrentVersion \in Nat /\ (CurrentVersion >= 9 <=> Height >= HF9_HEIGHT)
  <1>1. /\ chain \in Seq(AnyBlock) /\ Height > 0 /\ Height <= MaxHeight
        /\ cur \in Nat /\ target \in Nat
    BY DEF IInv, ControlOK
  <1>2. Height \in Nat /\ Height \in 0..MaxHeight
    <2>1. Height \in Nat /\ MaxHeight \in Nat BY <1>1, LenProperties, ListAssumption DEF Height
    <2> QED BY <1>1, <2>1
  <1>3. CurrentVersion \in Nat /\ (CurrentVersion >= 9 <=> Height >= HF9_HEIGHT)
    BY <1>2, ListAssumption DEF CurrentVersion
  <1>4. HF9_HEIGHT \in Nat /\ HF9_HEIGHT > 0 BY ListAssumption
  <1>5. state.height \in Nat /\ (db # None => db.height \in Nat) BY DEF IInv, GoodState
  <1> QED BY <1>1, <1>2, <1>3, <1>4, <1>5

\* The same for the block that is processed.
LEMMA VersionOfBlock ==
  ASSUME IInv, pc \in {"block", "txs"}
  PROVE  /\ cur < Height /\ Block(cur) \in AnyBlock
         /\ HardForkVersion(cur) \in Nat /\ (HardForkVersion(cur) >= 9 <=> cur >= HF9_HEIGHT)
  <1>1. cur \in Nat /\ cur < Height BY DEF IInv, ControlOK
  <1>2. Block(cur) \in AnyBlock /\ cur \in 0..MaxHeight BY <1>1, BlockTyped
  <1> QED BY <1>1, <1>2, ListAssumption

\* What store() leaves alone, and what it does to the infos and events.
LEMMA SerializedFields ==
  ASSUME NEW s, GoodState(s)
  PROVE  /\ Serialized(s).height = s.height /\ Serialized(s).quorums = s.quorums
         /\ Serialized(s).infos = SerializedInfos(s.infos)
         /\ Serialized(s).events = [i \in DOMAIN s.events |-> SerializedEvent(s.events[i])]
         /\ Serialized(s).blacklist \subseteq s.blacklist
  <1> DEFINE infos == SerializedInfos(s.infos)
             events == [i \in DOMAIN s.events |-> SerializedEvent(s.events[i])]
             blacklist == IF MinInfoVersion(HardForkVersion(s.height - 1)) >= 2 THEN s.blacklist ELSE {}
  <1>1. blacklist \subseteq s.blacklist OBVIOUS
  <1>2. Serialized(s) = [s EXCEPT !.infos = infos, !.events = events, !.blacklist = blacklist]
    BY DEF Serialized
  <1> HIDE DEF infos, events, blacklist
  <1>3. /\ Serialized(s).height = s.height /\ Serialized(s).quorums = s.quorums
        /\ Serialized(s).infos = infos /\ Serialized(s).events = events /\ Serialized(s).blacklist = blacklist
    BY <1>2 DEF GoodState
  <1> QED BY <1>1, <1>3 DEF infos, events

\* Init: the chain has one block, the list none.
LEMMA InitHeights == Init => HeightInv
  <1> SUFFICES ASSUME Init PROVE HeightInv OBVIOUS
  <1>1. IInv BY InitGood
  <1>2. /\ pc = "idle" /\ cur = 0 /\ caller = "added" /\ after = "idle" /\ db = None
        /\ state.height = HF9_HEIGHT /\ Height = 1
    BY DEF Init, Cleared, Height
  <1>3. HF9_HEIGHT \in Nat /\ HF9_HEIGHT > 0 BY ListAssumption
  <1> QED BY <1>2, <1>3 DEF HeightInv, Detaching, Larger

\* A block goes on top of the chain.
LEMMA AddBlockHeights ==
  ASSUME IInv, HeightInv, AddBlock
  PROVE  HeightInv'
  <1>1. /\ pc = "idle" /\ pc' = "block" /\ cur' = Height /\ caller' = "added"
        /\ UNCHANGED <<state, db, after, target>>
    BY DEF AddBlock
  <1>2. Height' = Height + 1
    <2>1. PICK b : chain' = Append(chain, b) BY DEF AddBlock
    <2>2. chain \in Seq(AnyBlock) BY DEF IInv, ControlOK
    <2> QED BY <2>1, <2>2 DEF Height
  <1>3. Height \in Nat /\ HF9_HEIGHT \in Nat BY HeightTypes
  <1>4. state.height = Larger(Height, HF9_HEIGHT) /\ after # "detached" BY <1>1 DEF HeightInv
  <1> QED BY <1>1, <1>2, <1>3, <1>4 DEF HeightInv, Detaching, Larger

\* block_added_generic counts the block.
LEMMA BeginBlockHeight ==
  ASSUME IInv, BeginBlock
  PROVE  \E k, s :
           /\ k \in 0..Len(state.events)
           /\ GoodState(s) /\ s.height = state.height + 1
           /\ s.events = CulledEvents(state.events, cur, k) /\ IsCullCount(state.events, cur, k)
           /\ s.infos = state.infos /\ s.quorums = state.quorums /\ s.blacklist = state.blacklist
           /\ state' = AdvancedList(s, Block(cur), cur)
  <1>1. PICK k \in 0..Len(state.events) :
          /\ IsCullCount(state.events, cur, k)
          /\ LET culled == [state EXCEPT !.height = @ + 1, !.events = CulledEvents(@, cur, k)]
             IN  state' = AdvancedList(culled, Block(cur), cur)
    BY DEF BeginBlock
  <1> DEFINE s == [state EXCEPT !.height = state.height + 1,
                                !.events = CulledEvents(state.events, cur, k)]
  <1>2. cur \in Nat BY DEF IInv, ControlOK
  <1>3. GoodState(s) BY <1>2, CulledGood DEF IInv
  <1>4. state' = AdvancedList(s, Block(cur), cur) BY <1>1
  <1>5. /\ s.height = state.height + 1 /\ s.events = CulledEvents(state.events, cur, k)
        /\ s.infos = state.infos /\ s.quorums = state.quorums /\ s.blacklist = state.blacklist
    BY DEF IInv, GoodState
  <1> HIDE DEF s
  <1> QED BY <1>1, <1>3, <1>4, <1>5

\* The height and the quorums during the rest of the block.
LEMMA AdvancedListHeight ==
  ASSUME NEW s, GoodState(s), NEW h \in Nat, NEW blk
  PROVE  AdvancedList(s, blk, h).height = s.height /\ AdvancedList(s, blk, h).quorums = s.quorums
  BY AdvancedListLogged DEF Logged

\* The first half of block_added_generic keeps the heights in step.
LEMMA BeginBlockHeights ==
  ASSUME IInv, HeightInv, BeginBlock
  PROVE  HeightInv'
  <1>1. /\ pc = "block" /\ pc' = "txs" /\ HardForkVersion(cur) >= 9
        /\ UNCHANGED <<chain, db, cur, caller, after, target>>
    BY DEF BeginBlock
  <1>2. PICK s :
           GoodState(s) /\ s.height = state.height + 1 /\ state' = AdvancedList(s, Block(cur), cur)
    BY BeginBlockHeight
  <1>3. cur \in Nat /\ HF9_HEIGHT \in Nat BY HeightTypes
  <1>4. state'.height = state.height + 1 BY <1>2, <1>3, AdvancedListHeight
  <1>5. cur >= HF9_HEIGHT BY <1>1, VersionOfBlock
  <1>6. state.height = cur BY <1>1, <1>3, <1>5 DEF HeightInv, Larger
  <1> QED BY <1>1, <1>3, <1>4, <1>5, <1>6 DEF HeightInv, Detaching, Height

\* A transaction leaves the height alone.
LEMMA ProcessTxHeights ==
  ASSUME IInv, HeightInv, ProcessTx
  PROVE  HeightInv'
  <1>1. pc = "txs" /\ UNCHANGED <<chain, db, pc, cur, caller, after, target>> BY DEF ProcessTx
  <1>2. state'.height = state.height BY ProcessTxLogged DEF Logged
  <1> QED BY <1>1, <1>2 DEF HeightInv, Detaching, Height

\* What follows a block, for the block_added hook and for the scan of init.
LEMMA FinishBlockHeights ==
  ASSUME IInv, HeightInv, NEW s, GoodState(s), FinishBlock(s), pc \in {"block", "txs"}, state' = s,
         UNCHANGED <<chain, target>>,
         caller = "added" => s.height = Larger(Height, HF9_HEIGHT),
         caller = "init" => s.height = cur + 1
  PROVE  HeightInv'
  <1>1. /\ cur \in Nat /\ HF9_HEIGHT \in Nat /\ HF9_HEIGHT > 0 /\ Height \in Nat /\ s.height \in Nat
        /\ CurrentVersion \in Nat /\ (CurrentVersion >= 9 <=> Height >= HF9_HEIGHT)
    BY HeightTypes DEF GoodState
  <1>2. /\ cur < Height /\ caller \in {"added", "init"} /\ after \in {"idle", "detached"} /\ Height' = Height
    BY DEF IInv, ControlOK, Height
  <1>3. CASE caller = "added"
    <2>1. db' = Stored(s) /\ pc' = "idle" /\ cur' = 0 /\ UNCHANGED <<caller, after>>
      BY <1>3 DEF FinishBlock
    <2>2. after = "idle" BY <1>2, <1>3 DEF HeightInv
    <2>3. s.height >= HF9_HEIGHT BY <1>1, <1>3 DEF Larger
    <2>4. db' # None => db'.height >= HF9_HEIGHT
      <3>1. CASE CurrentVersion < 9 BY <2>1, <3>1 DEF Stored, HeightInv
      <3>2. CASE ~(CurrentVersion < 9) BY <2>1, <2>3, <3>2, SerializedFields DEF Stored
      <3> QED BY <3>1, <3>2
    <2> QED BY <1>2, <1>3, <2>1, <2>2, <2>4 DEF HeightInv, Detaching
  <1>4. CASE caller = "init"
    <2>1. cur >= HF9_HEIGHT /\ s.height = cur + 1 BY <1>4 DEF HeightInv
    <2>2. db' = db /\ (db # None => db.height >= HF9_HEIGHT) BY <1>4 DEF FinishBlock, HeightInv
    <2>3. after = "detached" => target = Height /\ Height >= HF9_HEIGHT BY DEF HeightInv, Detaching
    <2>4. CASE cur + 1 < Height
      <3>1. pc' = "block" /\ cur' = cur + 1 /\ UNCHANGED <<caller, after>> BY <1>4, <2>4 DEF FinishBlock
      <3> QED BY <1>1, <1>2, <1>4, <2>1, <2>2, <2>3, <3>1 DEF HeightInv, Detaching
    <2>5. CASE ~(cur + 1 < Height)
      <3>1. cur + 1 = Height /\ ~(s.height < Height) BY <1>1, <1>2, <2>1, <2>5
      <3>2. pc' = after /\ cur' = 0 /\ caller' = "added" /\ after' = "idle"
        BY <1>4, <2>5, <3>1 DEF FinishBlock
      <3>3. s.height = Height /\ s.height = Larger(Height, HF9_HEIGHT) BY <1>1, <2>1, <3>1 DEF Larger
      <3> QED BY <1>2, <2>2, <2>3, <3>2, <3>3 DEF HeightInv, Detaching
    <2> QED BY <2>4, <2>5
  <1> QED BY <1>2, <1>3, <1>4

\* So does the end of the block,
LEMMA EndBlockHeights ==
  ASSUME IInv, HeightInv, EndBlock
  PROVE  HeightInv'
  <1>1. pc = "txs" /\ FinishBlock(state') /\ UNCHANGED <<chain, target>> BY DEF EndBlock
  <1>2. PICK m : /\ Logged(state, m, cur, Block(cur)) /\ GoodState(state')
                 /\ state' = UpdateQuorums(m, Block(cur), cur)
    BY EndBlockLogged
  <1>3. state'.height = state.height BY <1>2, UpdateQuorumsFields DEF Logged
  <1>4. cur \in Nat /\ HF9_HEIGHT \in Nat BY HeightTypes
  <1>5. state.height = cur + 1 /\ cur >= HF9_HEIGHT /\ (caller = "added" => Height = cur + 1)
    BY <1>1 DEF HeightInv
  <1>6. caller = "added" => state'.height = Larger(Height, HF9_HEIGHT)
    BY <1>3, <1>4, <1>5 DEF Larger
  <1> QED BY <1>1, <1>2, <1>3, <1>5, <1>6, FinishBlockHeights

\* a block from before the list counts,
LEMMA SkipBlockHeights ==
  ASSUME IInv, HeightInv, SkipBlock
  PROVE  HeightInv'
  <1>1. pc = "block" /\ HardForkVersion(cur) < 9 /\ FinishBlock(state) /\ UNCHANGED <<chain, state, target>>
    BY DEF SkipBlock
  <1>2. cur \in Nat /\ HF9_HEIGHT \in Nat BY HeightTypes
  <1>3. cur < HF9_HEIGHT BY <1>1, <1>2, VersionOfBlock
  <1>4. caller # "init" BY <1>1, <1>2, <1>3 DEF HeightInv
  <1>5. caller = "added" => state.height = Larger(Height, HF9_HEIGHT)
    BY <1>1, <1>2, <1>3 DEF HeightInv, Larger
  <1>6. GoodState(state) BY DEF IInv
  <1> QED BY <1>1, <1>4, <1>5, <1>6, FinishBlockHeights

\* a reorganisation that stays above the first block of version 9,
LEMMA PopBlocksHeights ==
  ASSUME IInv, HeightInv, PopBlocks, target' >= HF9_HEIGHT
  PROVE  HeightInv' /\ Height' <= Height
  <1>1. PICK h \in 1..(Height - 1) : chain' = SubSeq(chain, 1, h) /\ target' = h BY DEF PopBlocks
  <1>2. pc = "idle" /\ pc' = "detach" /\ UNCHANGED <<state, db, cur, caller, after>> BY DEF PopBlocks
  <1>3. chain \in Seq(AnyBlock) /\ Len(chain) \in Nat BY LenProperties DEF IInv, ControlOK
  <1>4. h \in Nat /\ 1 <= h /\ h < Height BY <1>3 DEF Height
  <1>5. Height' = h
    <2>1. \A i \in 1..h : chain[i] \in AnyBlock BY <1>3, <1>4, ElementOfSeq DEF Height
    <2>2. Len(chain') = h BY <1>1, <1>4, <2>1, SubSeqProperties
    <2> QED BY <2>2 DEF Height
  <1>6. Height \in Nat /\ HF9_HEIGHT \in Nat BY HeightTypes
  <1>7. state.height = Larger(Height, HF9_HEIGHT) /\ after # "detached" BY <1>2 DEF HeightInv
  <1>8. state.height >= h BY <1>4, <1>6, <1>7 DEF Larger
  <1> QED BY <1>1, <1>2, <1>4, <1>5, <1>6, <1>7, <1>8 DEF HeightInv, Detaching

\* The fields of the list after an event is undone.
LEMMA UndoneFields ==
  ASSUME NEW s, GoodState(s), NEW e \in GoodEvent, CanUndo(s, e)
  PROVE  /\ Undone(s, e).height = s.height /\ Undone(s, e).quorums = s.quorums
         /\ Undone(s, e).events = s.events
  <1>1. CASE e.type = "change"
    <2> DEFINE new == [n \in Nodes |-> IF e.saved[n] # None THEN e.saved[n] ELSE s.infos[n]]
    <2>1. Undone(s, e) = [s EXCEPT !.infos = new] BY <1>1 DEF Undone
    <2> HIDE DEF new
    <2> QED BY <2>1 DEF GoodState
  <1>2. CASE e.type = "new"
    <2>1. Undone(s, e) = [s EXCEPT !.infos[e.key] = None] BY <1>2 DEF Undone
    <2> QED BY <2>1 DEF GoodState
  <1>3. CASE e.type = "unlock"
    <2>1. Undone(s, e) =
            [s EXCEPT !.infos[e.key].requested_unlock_height = KEY_IMAGE_AWAITING_UNLOCK_HEIGHT]
      BY <1>3 DEF Undone
    <2> QED BY <2>1 DEF GoodState
  <1>4. CASE e.type = "blacklist"
    <2> DEFINE new == IF e.adding THEN s.blacklist \ e.entries ELSE s.blacklist \cup e.entries
    <2>1. Undone(s, e) = [s EXCEPT !.blacklist = new] BY <1>4 DEF Undone
    <2> HIDE DEF new
    <2> QED BY <2>1 DEF GoodState
  <1>5. e.type # "prevent" BY DEF CanUndo
  <1> QED BY <1>1, <1>2, <1>3, <1>4, <1>5 DEF GoodEvent

\* A round of the loop of blockchain_detached, field by field.
LEMMA UndoEventFields ==
  ASSUME IInv, UndoEvent
  PROVE  /\ Len(state.events) \in Nat /\ Len(state.events) > 0
         /\ LastEvent \in GoodEvent /\ CanUndo(state, LastEvent) /\ LastEvent.height >= target
         /\ state'.height = state.height /\ state'.quorums = state.quorums
         /\ state'.infos = Undone(state, LastEvent).infos
         /\ state'.blacklist = Undone(state, LastEvent).blacklist
         /\ Len(state'.events) = Len(state.events) - 1
         /\ \A i \in 1..(Len(state.events) - 1) : state'.events[i] = state.events[i]
  <1> DEFINE t == Undone(state, LastEvent)
             n == Len(state.events)
  <1>1. /\ HasEventToUndo /\ CanUndo(state, LastEvent)
        /\ state' = [t EXCEPT !.events = SubSeq(t.events, 1, Len(t.events) - 1)]
    BY DEF UndoEvent
  <1>2. state.events \in Seq(GoodEvent) /\ n \in Nat /\ n > 0 /\ LastEvent.height >= target
    BY <1>1, LenProperties DEF IInv, GoodState, HasEventToUndo
  <1>3. LastEvent \in GoodEvent BY <1>2, ElementOfSeq DEF LastEvent
  <1>4. GoodState(t) /\ t.events = state.events BY <1>1, <1>3, UndoneGood DEF IInv
  <1>5. t.height = state.height /\ t.quorums = state.quorums BY <1>1, <1>3, UndoneFields DEF IInv
  <1> HIDE DEF t
  <1> DEFINE events == SubSeq(state.events, 1, n - 1)
  <1>6. Len(events) = n - 1 /\ \A i \in 1..(n - 1) : events[i] = state.events[i]
    <2>1. \A i \in 1..(n - 1) : state.events[i] \in GoodEvent BY <1>2, ElementOfSeq
    <2>2. n - 1 \in Int /\ n - 1 >= 0 /\ (n - 1) - 1 + 1 = n - 1 BY <1>2
    <2>3. /\ Len(events) = IF 1 <= n - 1 THEN (n - 1) - 1 + 1 ELSE 0
          /\ \A i \in 1..((n - 1) - 1 + 1) : events[i] = state.events[1 + i - 1]
      BY <2>1, <2>2, SubSeqProperties
    <2> HIDE DEF events
    <2> QED BY <1>2, <2>2, <2>3
  <1>7. state' = [t EXCEPT !.events = events] BY <1>1, <1>4
  <1> HIDE DEF events
  <1>8. /\ state'.height = t.height /\ state'.quorums = t.quorums /\ state'.infos = t.infos
        /\ state'.blacklist = t.blacklist /\ state'.events = events
    BY <1>4, <1>7 DEF GoodState
  <1> QED BY <1>1, <1>2, <1>3, <1>5, <1>6, <1>8 DEF t

\* the undoing of an event, or its refusal,
LEMMA UndoEventHeights ==
  ASSUME IInv, HeightInv, UndoEvent
  PROVE  HeightInv'
  <1>1. pc = "detach" /\ UNCHANGED <<chain, db, pc, cur, caller, after, target>> BY DEF UndoEvent
  <1>2. state'.height = state.height BY UndoEventFields
  <1> QED BY <1>1, <1>2 DEF HeightInv, Detaching, Height

\* init goes on with the stored list or with an empty one.
LEMMA EnterInitCases ==
  ASSUME IInv, HeightInv, NEW return, EnterInit(return)
  PROVE  /\ \/ /\ db # None /\ db.height <= Height /\ state' = db /\ db' = db
            \/ state' = Cleared /\ db' = None
         /\ state'.height >= HF9_HEIGHT
         /\ \/ /\ state'.height < Height /\ pc' = "block" /\ cur' = state'.height
               /\ caller' = "init" /\ after' = return
            \/ /\ state'.height = Larger(Height, HF9_HEIGHT)
               /\ pc' = return /\ cur' = 0 /\ caller' = "added" /\ after' = "idle"
  <1>1. /\ HF9_HEIGHT \in Nat /\ Height \in Nat /\ (db # None => db.height \in Nat)
        /\ CurrentVersion \in Nat /\ (CurrentVersion >= 9 <=> Height >= HF9_HEIGHT)
    BY HeightTypes
  <1>2. db # None => db.height >= HF9_HEIGHT BY DEF HeightInv
  <1>3. Cleared.height = HF9_HEIGHT BY DEF Cleared
  <1>4. \/ /\ db # None /\ db.height <= Height /\ CurrentVersion >= 9 /\ state' = db /\ db' = db
        \/ state' = Cleared /\ db' = None
    BY DEF EnterInit
  <1>5. IF CurrentVersion >= 9 /\ state'.height < Height
        THEN pc' = "block" /\ cur' = state'.height /\ caller' = "init" /\ after' = return
        ELSE pc' = return /\ cur' = 0 /\ caller' = "added" /\ after' = "idle"
    <2>1. CASE db # None /\ db.height <= Height /\ CurrentVersion >= 9 BY <2>1, Zenon DEF EnterInit
    <2>2. CASE ~(db # None /\ db.height <= Height /\ CurrentVersion >= 9) BY <2>2, Zenon DEF EnterInit
    <2> QED BY <2>1, <2>2
  <1>6. state'.height \in Nat /\ state'.height >= HF9_HEIGHT BY <1>1, <1>2, <1>3, <1>4
  <1>7. CASE CurrentVersion >= 9 /\ state'.height < Height BY <1>4, <1>5, <1>6, <1>7
  <1>8. CASE ~(CurrentVersion >= 9 /\ state'.height < Height)
    <2>1. state'.height = Larger(Height, HF9_HEIGHT)
      <3>1. CASE CurrentVersion >= 9
        <4>1. state'.height <= Height BY <1>1, <1>3, <1>4, <3>1
        <4> QED BY <1>1, <1>6, <1>8, <3>1, <4>1 DEF Larger
      <3>2. CASE ~(CurrentVersion >= 9) BY <1>1, <1>3, <1>4, <3>2 DEF Larger
      <3> QED BY <3>1, <3>2
    <2> QED BY <1>4, <1>5, <1>6, <1>8, <2>1
  <1> QED BY <1>7, <1>8

\* the reset that follows a refusal,
LEMMA GiveUpUndoHeights ==
  ASSUME IInv, HeightInv, GiveUpUndo
  PROVE  HeightInv'
  <1>1. pc = "detach" /\ EnterInit("detached") /\ UNCHANGED <<chain, target>> BY DEF GiveUpUndo
  <1>2. target = Height /\ Height >= HF9_HEIGHT BY <1>1 DEF HeightInv, Detaching
  <1>3. /\ \/ /\ db # None /\ db.height <= Height /\ state' = db /\ db' = db
           \/ state' = Cleared /\ db' = None
        /\ state'.height >= HF9_HEIGHT
        /\ \/ /\ state'.height < Height /\ pc' = "block" /\ cur' = state'.height
              /\ caller' = "init" /\ after' = "detached"
           \/ /\ state'.height = Larger(Height, HF9_HEIGHT)
              /\ pc' = "detached" /\ cur' = 0 /\ caller' = "added" /\ after' = "idle"
    BY <1>1, EnterInitCases
  <1>4. db' # None => db'.height >= HF9_HEIGHT BY <1>3 DEF HeightInv
  <1>5. Height \in Nat /\ HF9_HEIGHT \in Nat /\ Height' = Height /\ target' = target
    BY <1>1, HeightTypes DEF Height
  <1>6. Larger(Height, HF9_HEIGHT) = Height BY <1>2, <1>5 DEF Larger
  <1> QED BY <1>2, <1>3, <1>4, <1>5, <1>6 DEF HeightInv, Detaching

\* a restart from the database or from nothing,
LEMMA RestartHeights ==
  ASSUME IInv, HeightInv, Restart
  PROVE  HeightInv'
  <1>1. EnterInit("idle") /\ UNCHANGED <<chain, target>> BY DEF Restart
  <1>2. /\ \/ /\ db # None /\ db.height <= Height /\ state' = db /\ db' = db
           \/ state' = Cleared /\ db' = None
        /\ state'.height >= HF9_HEIGHT
        /\ \/ /\ state'.height < Height /\ pc' = "block" /\ cur' = state'.height
              /\ caller' = "init" /\ after' = "idle"
           \/ /\ state'.height = Larger(Height, HF9_HEIGHT)
              /\ pc' = "idle" /\ cur' = 0 /\ caller' = "added" /\ after' = "idle"
    BY <1>1, EnterInitCases
  <1>3. db' # None => db'.height >= HF9_HEIGHT BY <1>2 DEF HeightInv
  <1>4. Height' = Height BY <1>1 DEF Height
  <1> QED BY <1>2, <1>3, <1>4 DEF HeightInv, Detaching

\* The state blockchain_detached ends with.
LEMMA FinishDetachFields ==
  ASSUME IInv, FinishDetach
  PROVE  /\ GoodState(state') /\ state'.height = target /\ state'.infos = state.infos
         /\ state'.events = state.events /\ state'.blacklist = state.blacklist
         /\ state'.quorums = [g \in {k \in DOMAIN state.quorums : k < target} |-> state.quorums[g]]
         /\ db' = Stored(state')
  <1> DEFINE q == [g \in {k \in DOMAIN state.quorums : k < target} |-> state.quorums[g]]
  <1>1. state' = [state EXCEPT !.height = target, !.quorums = q] /\ db' = Stored(state')
    BY DEF FinishDetach
  <1>2. GoodState(state') BY FinishDetachGood DEF IInv
  <1> HIDE DEF q
  <1>3. /\ state'.height = target /\ state'.infos = state.infos /\ state'.events = state.events
        /\ state'.blacklist = state.blacklist /\ state'.quorums = q
    BY <1>1 DEF IInv, GoodState
  <1> QED BY <1>1, <1>2, <1>3 DEF q

\* the end of the rollback,
LEMMA FinishDetachHeights ==
  ASSUME IInv, HeightInv, FinishDetach
  PROVE  HeightInv'
  <1>1. /\ pc \in {"detach", "detached"} /\ pc' = "idle" /\ target' = 0
        /\ UNCHANGED <<chain, cur, caller, after>>
    BY DEF FinishDetach
  <1>2. GoodState(state') /\ state'.height = target /\ db' = Stored(state') BY FinishDetachFields
  <1>3. target = Height /\ Height >= HF9_HEIGHT /\ after # "detached" BY <1>1 DEF HeightInv, Detaching
  <1>4. /\ HF9_HEIGHT \in Nat /\ Height \in Nat
        /\ CurrentVersion \in Nat /\ (CurrentVersion >= 9 <=> Height >= HF9_HEIGHT)
    BY HeightTypes
  <1>5. db' = Serialized(state') BY <1>2, <1>3, <1>4 DEF Stored
  <1>6. db'.height = Height BY <1>2, <1>3, <1>5, SerializedFields
  <1>7. Larger(Height, HF9_HEIGHT) = Height /\ Height' = Height BY <1>1, <1>3, <1>4 DEF Larger, Height
  <1> QED BY <1>1, <1>2, <1>3, <1>6, <1>7 DEF HeightInv, Detaching

\* and a crash.
LEMMA CrashHeights ==
  ASSUME IInv, HeightInv, Crash
  PROVE  HeightInv'
  BY DEF Crash, HeightInv, Detaching

\* A step, or a stutter, of a daemon whose chain is not taken back too far.
LEMMA NextHeights ==
  ASSUME IInv, HeightInv, [Next]_vars, [PopBlocks => target' >= HF9_HEIGHT]_vars
  PROVE  HeightInv'
  <1>1. CASE UNCHANGED vars BY <1>1 DEF vars, HeightInv, Detaching, Height
  <1>2. CASE Next /\ ~UNCHANGED vars
    <2>1. PopBlocks => target' >= HF9_HEIGHT BY <1>2
    <2> QED BY <1>2, <2>1, AddBlockHeights, BeginBlockHeights, ProcessTxHeights, EndBlockHeights,
               SkipBlockHeights, PopBlocksHeights, UndoEventHeights, GiveUpUndoHeights,
               FinishDetachHeights, CrashHeights, RestartHeights DEF Next, Step
  <1> QED BY <1>1, <1>2

\* The assertion at the top of block_added_generic holds in every behaviour in
\* which no reorganisation goes below the first block of version 9: with
\* crashes and restarts, the list is always given the block it is waiting for.
THEOREM ListFollowsChain == Spec /\ ReorgsStayAbove => []ListAtBlockHeight
  <1>1. IInv /\ HeightInv => ListAtBlockHeight
    <2> SUFFICES ASSUME IInv, HeightInv, pc = "block", HardForkVersion(cur) >= 9
                 PROVE  state.height = cur
      BY DEF ListAtBlockHeight
    <2>1. cur \in Nat /\ HF9_HEIGHT \in Nat /\ cur >= HF9_HEIGHT BY HeightTypes, VersionOfBlock
    <2> QED BY <2>1 DEF HeightInv, Larger
  <1>2. IInv /\ HeightInv /\ [Next]_vars /\ [PopBlocks => target' >= HF9_HEIGHT]_vars => HeightInv'
    BY NextHeights
  <1> QED BY <1>1, <1>2, InitGood, NextGood, InitHeights, PTL DEF Spec, ReorgsStayAbove

\* That is so when version 9 starts with the first block after the genesis
\* block, or with the one after it and the first is a checkpoint
\* (is_alternative_block_allowed).
THEOREM CheckpointedReorgs ==
  ASSUME HF9_HEIGHT = 1 \/ (HF9_HEIGHT = 2 /\ CHECKPOINT = 1)
  PROVE  Spec => ReorgsStayAbove
  <1>1. IInv /\ [Next]_vars => [PopBlocks => target' >= HF9_HEIGHT]_vars
    <2> SUFFICES ASSUME IInv, PopBlocks
                 PROVE  target' >= HF9_HEIGHT
      OBVIOUS
    <2>1. PICK h \in 1..(Height - 1) : is_alternative_block_allowed(h) /\ target' = h BY DEF PopBlocks
    <2>2. Height \in Nat /\ Height > 0 BY HeightTypes
    <2>3. h \in Nat /\ h >= 1 BY <2>2
    <2> QED BY <2>1, <2>2, <2>3 DEF is_alternative_block_allowed
  <1> QED BY <1>1, InitGood, NextGood, PTL DEF Spec, ReorgsStayAbove
==============================================================================
