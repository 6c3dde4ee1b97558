------------------------ MODULE FullNodeQuorumProofs ------------------------
(***************************************************************************)
(* The quorums that may still be voted on are there, for every set of      *)
(* nodes and transactions, chain length and number of crashes.             *)
(***************************************************************************)
EXTENDS FullNodePlaceProofs

(***************************************************************************)
(* Quorums.  One that is missing was dropped by a block whose fence keeps  *)
(* the chain from being taken back to where the quorum would be needed.    *)
(***************************************************************************)
QuorumsFenced(s, top) ==
  /\ \A h \in DOMAIN s.quorums : h >= HF9_HEIGHT
  /\ \A h \in HF9_HEIGHT..(top - 1) :
       \/ h \in DOMAIN s.quorums
       \/ Fence(s, h + QUORUM_LIFETIME + 1 - ROLLBACK_EVENT_EXPIRATION_BLOCKS)

\* A deregister transaction is in a block of its lifetime.
IsTimely(tx, h) ==
  tx.type = "deregister" =>
    HF9_HEIGHT <= tx.height /\ tx.height < h /\ h - tx.height < DEREGISTER_LIFETIME_BY_HEIGHT

\* The inductive form of QuorumsAvailable.
QuorumInv ==
  /\ pc # "down" => QuorumsFenced(state, IF pc = "txs" THEN cur ELSE state.height)
  /\ pc = "txs" => Fence(state, CullHeight(cur))
  /\ db # None => QuorumsFenced(db, db.height)
  /\ \A j \in 1..Height : \A i \in DOMAIN chain[j].txs : IsTimely(chain[j].txs[i], j - 1)
------------------------------------------------------------------------------
(***************************************************************************)
(* The quorums that may still be needed are there.                         *)
(***************************************************************************)
\* A fence at one height is one at every smaller height.
LEMMA FenceBelow ==
  ASSUME NEW s, GoodState(s), NEW a \in Int, NEW b \in Int, Fence(s, a), b <= a
  PROVE  Fence(s, b)
  <1>1. PICK i \in 1..Len(s.events) : s.events[i].type = "prevent" /\ s.events[i].height >= a BY DEF Fence
  <1>2. s.events[i].height \in Nat BY EventTypes
  <1>3. s.events[i].height >= b BY <1>1, <1>2
  <1> QED BY <1>1, <1>3 DEF Fence

\* Keeping the quorums and the fences keeps the quorums fenced.
LEMMA FencedSame ==
  ASSUME NEW s, NEW t, NEW top \in Int, QuorumsFenced(s, top), t.quorums = s.quorums,
         \A g \in Int : Fence(s, g) => Fence(t, g)
  PROVE  QuorumsFenced(t, top)
  <1>1. \A h \in HF9_HEIGHT..(top - 1) :
          h + QUORUM_LIFETIME + 1 - ROLLBACK_EVENT_EXPIRATION_BLOCKS \in Int
    BY ListAssumption
  <1> QED BY <1>1 DEF QuorumsFenced

\* The same for the list that is stored.
LEMMA FencedStored ==
  ASSUME NEW s, GoodState(s), Ordered(s), Covered(s), QuorumsFenced(s, s.height),
         db # None => QuorumsFenced(db, db.height), db' = Stored(s)
  PROVE  db' # None => QuorumsFenced(db', db'.height)
  <1>1. CASE CurrentVersion < 9 BY <1>1 DEF Stored
  <1>2. CASE ~(CurrentVersion < 9)
    <2> DEFINE t == Serialized(s)
    <2>1. db' = t BY <1>2 DEF Stored
    <2>2. t.height = s.height /\ t.quorums = s.quorums BY SerializedFields, Zenon
    <2>3. \A g : Fence(s, g) => Fence(t, g) BY SerializedHistory
    <2>4. s.height \in Int BY DEF GoodState
    <2> HIDE DEF t
    <2>5. QuorumsFenced(t, s.height) BY <2>2, <2>3, <2>4, FencedSame
    <2> QED BY <2>1, <2>2, <2>5
  <1> QED BY <1>1, <1>2

\* The empty list needs no quorum.
LEMMA InitQuorums == Init => QuorumInv
  <1> SUFFICES ASSUME Init PROVE QuorumInv OBVIOUS
  <1>1. PICK hash \in Hashes : chain = <<[hash |-> hash, winner |-> None, txs |-> <<>>]>> BY DEF Init
  <1>2. state = Cleared /\ db = None /\ pc = "idle" BY DEF Init
  <1>3. HF9_HEIGHT \in Nat BY ListAssumption
  <1>4. state.height = HF9_HEIGHT /\ DOMAIN state.quorums = {} BY <1>2 DEF Cleared
  <1>5. HF9_HEIGHT..(HF9_HEIGHT - 1) = {} BY <1>3
  <1>6. QuorumsFenced(state, state.height) BY <1>4, <1>5 DEF QuorumsFenced
  <1>7. Height = 1 /\ DOMAIN chain[1].txs = {} BY <1>1 DEF Height
  <1>8. \A j \in 1..Height : \A i \in DOMAIN chain[j].txs : IsTimely(chain[j].txs[i], j - 1)
    BY <1>7
  <1> QED BY <1>2, <1>6, <1>8 DEF QuorumInv

\* Blocks are given deregister transactions of their time.
LEMMA AddBlockQuorums ==
  ASSUME IInv, HeightInv, QuorumInv, AddBlock
  PROVE  QuorumInv'
  <1>1. pc = "idle" /\ pc' = "block" /\ UNCHANGED <<state, db>> BY DEF AddBlock
  <1>2. QuorumsFenced(state, state.height) BY <1>1 DEF QuorumInv
  <1>3. \A tx \in ValidTxs : IsTimely(tx, Height)
    <2> SUFFICES ASSUME NEW tx \in ValidTxs, tx.type = "deregister"
                 PROVE  /\ HF9_HEIGHT <= tx.height /\ tx.height < Height
                        /\ Height - tx.height < DEREGISTER_LIFETIME_BY_HEIGHT
      BY DEF IsTimely
    <2>1. tx \notin Txs BY DataAssumption DEF Tx
    <2>2. tx \notin ValidUnlocks BY DEF ValidUnlocks
    <2>3. tx \in ValidDeregisters BY <2>1, <2>2 DEF ValidTxs
    <2>4. /\ tx.height \in DOMAIN state.quorums /\ tx.height < Height
          /\ Height - tx.height < DEREGISTER_LIFETIME_BY_HEIGHT
      BY <2>3 DEF ValidDeregisters
    <2>5. state.quorums = [h \in DOMAIN state.quorums |-> state.quorums[h]]
          /\ DOMAIN state.quorums \subseteq Nat
      BY DEF IInv, GoodState, IsQuorums
    <2>6. HF9_HEIGHT \in Nat /\ tx.height >= HF9_HEIGHT /\ tx.height \in Nat
      BY <1>2, <2>4, <2>5, ListAssumption DEF QuorumsFenced
    <2> QED BY <2>4, <2>6
  <1>4. PICK b : /\ chain' = Append(chain, b) /\ \A i \in DOMAIN b.txs : IsTimely(b.txs[i], Height)
    <2>1. PICK hash \in Hashes, n \in 0..MaxTxsPerBlock,
               winner \in IF CurrentVersion < 9 THEN {None} ELSE select_winner(state) :
            \E txs \in [1..n -> ValidTxs] :
              chain' = Append(chain, [hash |-> hash, winner |-> winner, txs |-> txs])
      BY Zenon DEF AddBlock
    <2>2. PICK txs \in [1..n -> ValidTxs] :
            chain' = Append(chain, [hash |-> hash, winner |-> winner, txs |-> txs])
      BY <2>1
    <2>3. \A i \in DOMAIN txs : IsTimely(txs[i], Height) BY <1>3
    <2> QED BY <2>2, <2>3
  <1>5. chain \in Seq(AnyBlock) /\ Len(chain) \in Nat BY LenProperties DEF IInv, ControlOK
  <1>6. /\ Len(chain') = Len(chain) + 1 /\ chain'[Len(chain) + 1] = b
        /\ \A i \in 1..Len(chain) : chain'[i] = chain[i]
    <2>1. chain \in Seq(AnyBlock \cup {b}) BY <1>5, SeqMonotonic
    <2> QED BY <1>4, <2>1, AppendProperties
  <1>7. \A j \in 1..Height : \A i \in DOMAIN chain[j].txs : IsTimely(chain[j].txs[i], j - 1)
    BY DEF QuorumInv
  <1>8. ASSUME NEW j \in 1..Len(chain'), NEW i \in DOMAIN chain'[j].txs
        PROVE  IsTimely(chain'[j].txs[i], j - 1)
    <2>1. j \in 1..Len(chain) \/ j = Len(chain) + 1 BY <1>5, <1>6
    <2>2. CASE j \in 1..Len(chain) BY <1>6, <1>7, <2>2 DEF Height
    <2>3. CASE j = Len(chain) + 1
      <3>1. j - 1 = Height BY <1>5, <2>3 DEF Height
      <3> QED BY <1>4, <1>6, <2>3, <3>1
    <2> QED BY <2>1, <2>2, <2>3
  <1> QED BY <1>1, <1>2, <1>8 DEF QuorumInv, Height

\* The first half of block_added_generic keeps QuorumInv: a fence follows what it culls.
LEMMA BeginBlockQuorums ==
  ASSUME IInv, HeightInv, PlaceInv, QuorumInv, BeginBlock
  PROVE  QuorumInv'
  <1>1. pc = "block" /\ pc' = "txs" /\ UNCHANGED <<chain, db, cur>> BY DEF BeginBlock
  <1>2. /\ state'.quorums = state.quorums /\ state.height = cur
        /\ Fence(state', CullHeight(cur)) /\ \A g \in Int : Fence(state, g) => Fence(state', g)
    BY BeginBlockHistory
  <1>3. QuorumsFenced(state, cur) BY <1>1, <1>2 DEF QuorumInv
  <1>4. cur \in Int BY HeightTypes
  <1>5. QuorumsFenced(state', cur) BY <1>2, <1>3, <1>4, FencedSame
  <1> QED BY <1>1, <1>2, <1>5 DEF QuorumInv, Height

\* So does every transaction of the block,
LEMMA ProcessTxQuorums ==
  ASSUME IInv, HeightInv, PlaceInv, QuorumInv, ProcessTx
  PROVE  QuorumInv'
  <1>1. pc = "txs" /\ pc' = "txs" /\ UNCHANGED <<chain, db, cur>> BY DEF ProcessTx
  <1>2. state'.quorums = state.quorums /\ \A g : Fence(state, g) => Fence(state', g)
    BY ProcessTxHistory
  <1>3. QuorumsFenced(state, cur) /\ Fence(state, CullHeight(cur)) BY <1>1 DEF QuorumInv
  <1>4. cur \in Int BY HeightTypes
  <1>5. QuorumsFenced(state', cur) BY <1>2, <1>3, <1>4, FencedSame
  <1> QED BY <1>1, <1>2, <1>3, <1>5 DEF QuorumInv, Height

\* The quorums that update_swarms' caller drops are fenced by the block.
LEMMA EndBlockFences ==
  ASSUME IInv, HeightInv, PlaceInv, QuorumInv, EndBlock
  PROVE  QuorumsFenced(state', state'.height)
  <1>1. pc = "txs" BY DEF EndBlock
  <1>2. /\ GoodState(state') /\ state'.height = cur + 1 /\ \A g : Fence(state, g) => Fence(state', g)
    BY EndBlockHistory
  <1>3. PICK m : GoodState(m) /\ m.quorums = state.quorums /\ state' = UpdateQuorums(m, Block(cur), cur)
    BY EndBlockHistory
  <1> DEFINE from == IF cur < QUORUM_LIFETIME THEN 0 ELSE cur - QUORUM_LIFETIME
             D == {k \in DOMAIN state.quorums \cup {cur} : k >= from}
  <1>4. DOMAIN state'.quorums = D
    <2> DEFINE new == [g \in {k \in DOMAIN m.quorums \cup {cur} : k >= from} |->
                         IF g = cur THEN QuorumState(m, Block(cur).hash) ELSE m.quorums[g]]
    <2>1. UpdateQuorums(m, Block(cur), cur) = [m EXCEPT !.quorums = new] BY DEF UpdateQuorums
    <2>2. DOMAIN new = D BY <1>3
    <2> HIDE DEF new, D
    <2> QED BY <1>3, <2>1, <2>2 DEF GoodState
  <1>5. /\ cur \in Nat /\ HF9_HEIGHT \in Nat /\ QUORUM_LIFETIME \in Nat /\ cur >= HF9_HEIGHT
        /\ ROLLBACK_EVENT_EXPIRATION_BLOCKS \in Nat
    BY <1>1, HeightTypes, ListAssumption DEF HeightInv
  <1>6. QuorumsFenced(state, cur) /\ Fence(state, CullHeight(cur)) BY <1>1 DEF QuorumInv
  <1>7. GoodState(state) /\ DOMAIN state.quorums \subseteq Nat BY DEF IInv, GoodState, IsQuorums
  <1>8. CullHeight(cur) \in Nat /\ CullHeight(cur) >= cur - ROLLBACK_EVENT_EXPIRATION_BLOCKS
    BY <1>5 DEF CullHeight
  <1>9. \A h \in D : h >= HF9_HEIGHT BY <1>5, <1>6 DEF QuorumsFenced
  <1>10. ASSUME NEW h \in HF9_HEIGHT..cur, h \notin D
         PROVE  Fence(state', h + QUORUM_LIFETIME + 1 - ROLLBACK_EVENT_EXPIRATION_BLOCKS)
    <2> DEFINE f == h + QUORUM_LIFETIME + 1 - ROLLBACK_EVENT_EXPIRATION_BLOCKS
    <2>1. h \in Nat /\ h <= cur /\ h >= HF9_HEIGHT /\ f \in Int BY <1>5
    <2>2. CASE h \in DOMAIN state.quorums \cup {cur}
      <3>1. h < cur - QUORUM_LIFETIME BY <1>5, <1>10, <2>1, <2>2
      <3>2. f <= CullHeight(cur) BY <1>5, <1>8, <2>1, <3>1
      <3> HIDE DEF f
      <3>3. Fence(state, f) BY <1>6, <1>7, <1>8, <2>1, <3>2, FenceBelow
      <3> QED BY <1>2, <3>3 DEF f
    <2>3. CASE h \notin DOMAIN state.quorums \cup {cur}
      <3>1. h \in HF9_HEIGHT..(cur - 1) BY <1>5, <2>1, <2>3
      <3>2. Fence(state, f) BY <1>6, <2>3, <3>1 DEF QuorumsFenced
      <3> QED BY <1>2, <3>2
    <2> QED BY <2>2, <2>3
  <1>11. (cur + 1) - 1 = cur BY <1>5
  <1> HIDE DEF D
  <1> QED BY <1>2, <1>4, <1>9, <1>10, <1>11 DEF QuorumsFenced

\* the end of the block, which drops old quorums and adds one,
LEMMA EndBlockQuorums ==
  ASSUME IInv, HeightInv, PlaceInv, QuorumInv, EndBlock
  PROVE  QuorumInv'
  <1>1. pc = "txs" /\ FinishBlock(state') /\ UNCHANGED chain BY DEF EndBlock
  <1>2. QuorumsFenced(state', state'.height) BY EndBlockFences
  <1>3. GoodState(state') /\ Ordered(state') /\ Covered(state') BY EndBlockHistory
  <1>4. db # None => QuorumsFenced(db, db.height) BY DEF QuorumInv
  <1>5. db' # None => QuorumsFenced(db', db'.height)
    <2>1. CASE db' = db BY <1>4, <2>1
    <2>2. CASE db' = Stored(state') BY <1>2, <1>3, <1>4, <2>2, FencedStored
    <2> QED BY <1>1, <2>1, <2>2, Zenon DEF FinishBlock
  <1>6. pc' \in {"idle", "block", "detached"}
    <2>1. after \in {"idle", "detached"} BY DEF IInv, ControlOK
    <2> QED BY <1>1, <2>1 DEF FinishBlock
  <1> QED BY <1>1, <1>2, <1>5, <1>6 DEF QuorumInv, Height

\* a block from before the list counts,
LEMMA SkipBlockQuorums ==
  ASSUME IInv, HeightInv, PlaceInv, QuorumInv, SkipBlock
  PROVE  QuorumInv'
  <1>1. pc = "block" /\ FinishBlock(state) /\ UNCHANGED <<chain, state>> BY DEF SkipBlock
  <1>2. QuorumsFenced(state, state.height) BY <1>1 DEF QuorumInv
  <1>3. GoodState(state) /\ Ordered(state) /\ Covered(state) BY DEF IInv, PlaceInv
  <1>4. db # None => QuorumsFenced(db, db.height) BY DEF QuorumInv
  <1>5. db' # None => QuorumsFenced(db', db'.height)
    <2>1. CASE db' = db BY <1>4, <2>1
    <2>2. CASE db' = Stored(state) BY <1>2, <1>3, <1>4, <2>2, FencedStored
    <2> QED BY <1>1, <2>1, <2>2, Zenon DEF FinishBlock
  <1>6. pc' \in {"idle", "block", "detached"}
    <2>1. after \in {"idle", "detached"} BY DEF IInv, ControlOK
    <2> QED BY <1>1, <2>1 DEF FinishBlock
  <1> QED BY <1>1, <1>2, <1>5, <1>6 DEF QuorumInv, Height

\* a reorganisation,
LEMMA PopBlocksQuorums ==
  ASSUME IInv, QuorumInv, PopBlocks
  PROVE  QuorumInv'
  <1>1. PICK h \in 1..(Height - 1) : chain' = SubSeq(chain, 1, h) BY DEF PopBlocks
  <1>2. pc = "idle" /\ pc' = "detach" /\ UNCHANGED <<state, db>> BY DEF PopBlocks
  <1>3. chain \in Seq(AnyBlock) /\ Len(chain) \in Nat BY LenProperties DEF IInv, ControlOK
  <1>4. h \in Nat /\ 1 <= h /\ h < Len(chain) BY <1>3 DEF Height
  <1>5. Len(chain') = h /\ \A i \in 1..h : chain'[i] = chain[i]
    <2>1. \A i \in 1..h : chain[i] \in AnyBlock BY <1>3, <1>4, ElementOfSeq
    <2>2. /\ Len(SubSeq(chain, 1, h)) = IF 1 <= h THEN h - 1 + 1 ELSE 0
          /\ \A i \in 1..(h - 1 + 1) : SubSeq(chain, 1, h)[i] = chain[1 + i - 1]
      BY <1>4, <2>1, SubSeqProperties
    <2>3. h - 1 + 1 = h /\ \A i \in 1..h : 1 + i - 1 = i BY <1>4
    <2> QED BY <1>1, <1>4, <2>2, <2>3
  <1>6. \A j \in 1..Len(chain') : j \in 1..Height /\ chain'[j] = chain[j] BY <1>3, <1>4, <1>5 DEF Height
  <1>7. \A j \in 1..Height : \A i \in DOMAIN chain[j].txs : IsTimely(chain[j].txs[i], j - 1)
    BY DEF QuorumInv
  <1>8. \A j \in 1..Height' : \A i \in DOMAIN chain'[j].txs : IsTimely(chain'[j].txs[i], j - 1)
    BY <1>6, <1>7 DEF Height
  <1> QED BY <1>2, <1>8 DEF QuorumInv

\* and the undoing of an event, or its refusal.
LEMMA UndoEventQuorums ==
  ASSUME IInv, PlaceInv, QuorumInv, UndoEvent
  PROVE  QuorumInv'
  <1>1. pc = "detach" /\ pc' = "detach" /\ UNCHANGED <<chain, db>> BY DEF UndoEvent
  <1>2. state'.quorums = state.quorums /\ \A g : Fence(state, g) => Fence(state', g)
    BY UndoEventHistory
  <1>3. QuorumsFenced(state, state.height) /\ state.height \in Int BY <1>1, HeightTypes DEF QuorumInv
  <1>4. QuorumsFenced(state', state.height) BY <1>2, <1>3, FencedSame
  <1>5. state'.height = state.height BY UndoEventFields, Zenon
  <1> QED BY <1>1, <1>4, <1>5 DEF QuorumInv, Height

\* An empty list has no quorums, and is at the height of the first.
LEMMA EnterInitQuorums ==
  ASSUME IInv, HeightInv, QuorumInv, NEW return \in {"idle", "detached"}, EnterInit(return),
         UNCHANGED chain
  PROVE  QuorumInv'
  <1>1. /\ \/ /\ db # None /\ db.height <= Height /\ state' = db /\ db' = db
           \/ state' = Cleared /\ db' = None
        /\ pc' \in {"block", "idle", "detached"}
    BY EnterInitCases
  <1>2. QuorumsFenced(Cleared, Cleared.height)
    <2>1. HF9_HEIGHT \in Nat BY ListAssumption
    <2>2. Cleared.height = HF9_HEIGHT /\ DOMAIN Cleared.quorums = {} BY DEF Cleared
    <2>3. HF9_HEIGHT..(HF9_HEIGHT - 1) = {} BY <2>1
    <2> HIDE DEF Cleared
    <2> QED BY <2>2, <2>3 DEF QuorumsFenced
  <1>3. QuorumsFenced(state', state'.height) BY <1>1, <1>2 DEF QuorumInv
  <1>4. db' # None => QuorumsFenced(db', db'.height) BY <1>1 DEF QuorumInv
  <1> QED BY <1>1, <1>3, <1>4 DEF QuorumInv, Height

\* Only quorums of blocks that are gone are dropped.
LEMMA FinishDetachQuorums ==
  ASSUME IInv, HeightInv, PlaceInv, QuorumInv, FinishDetach
  PROVE  QuorumInv'
  <1>1. pc \in {"detach", "detached"} /\ pc' = "idle" /\ UNCHANGED chain BY DEF FinishDetach
  <1>2. /\ GoodState(state') /\ state'.height = target /\ db' = Stored(state')
        /\ state'.quorums = [g \in {k \in DOMAIN state.quorums : k < target} |-> state.quorums[g]]
    BY FinishDetachFields
  <1>3. DOMAIN state'.quorums = {k \in DOMAIN state.quorums : k < target} BY <1>2
  <1>4. Ordered(state') /\ Covered(state') /\ \A g : Fence(state, g) => Fence(state', g)
    BY DetachedHistory
  <1>5. target \in Nat /\ state.height \in Nat /\ HF9_HEIGHT \in Nat /\ state.height >= target
    BY <1>1, HeightTypes DEF HeightInv, Detaching
  <1>6. QuorumsFenced(state, state.height) BY <1>1 DEF QuorumInv
  <1>7. QuorumsFenced(state', target)
    <2>1. \A h \in DOMAIN state'.quorums : h >= HF9_HEIGHT BY <1>3, <1>6 DEF QuorumsFenced
    <2>2. ASSUME NEW h \in HF9_HEIGHT..(target - 1), h \notin DOMAIN state'.quorums
          PROVE  Fence(state', h + QUORUM_LIFETIME + 1 - ROLLBACK_EVENT_EXPIRATION_BLOCKS)
      <3>1. h < target /\ h \in HF9_HEIGHT..(state.height - 1) BY <1>5
      <3>2. h \notin DOMAIN state.quorums BY <1>3, <2>2, <3>1
      <3> QED BY <1>4, <1>6, <3>1, <3>2 DEF QuorumsFenced
    <2> QED BY <2>1, <2>2 DEF QuorumsFenced
  <1>8. db # None => QuorumsFenced(db, db.height) BY DEF QuorumInv
  <1>9. db' # None => QuorumsFenced(db', db'.height) BY <1>2, <1>4, <1>7, <1>8, FencedStored
  <1> QED BY <1>1, <1>2, <1>7, <1>9 DEF QuorumInv, Height

\* Every step keeps QuorumInv.
LEMMA NextQuorums ==
  ASSUME IInv, HeightInv, PlaceInv, QuorumInv, [Next]_vars
  PROVE  QuorumInv'
  <1>1. CASE UNCHANGED vars BY <1>1 DEF vars, QuorumInv, Height
  <1>2. CASE Crash
    <2>1. pc' = "down" /\ UNCHANGED <<chain, db>> BY <1>2 DEF Crash
    <2> QED BY <2>1 DEF QuorumInv, Height
  <1>3. CASE GiveUpUndo
    <2>1. EnterInit("detached") /\ UNCHANGED chain BY <1>3 DEF GiveUpUndo
    <2> QED BY <2>1, EnterInitQuorums
  <1>4. CASE Restart
    <2>1. EnterInit("idle") /\ UNCHANGED chain BY <1>4 DEF Restart
    <2> QED BY <2>1, EnterInitQuorums
  <1> QED BY <1>1, <1>2, <1>3, <1>4, AddBlockQuorums, BeginBlockQuorums, ProcessTxQuorums,
             EndBlockQuorums, SkipBlockQuorums, PopBlocksQuorums, UndoEventQuorums,
             FinishDetachQuorums DEF Next, Step

\* A quorum is missing only above a fence that is too old for the quorum to matter.
LEMMA QuorumIsThere ==
  ASSUME DEREGISTER_LIFETIME_BY_HEIGHT + ROLLBACK_EVENT_EXPIRATION_BLOCKS <= QUORUM_LIFETIME + 1,
         NEW s, GoodState(s), Ordered(s), NEW top \in Nat, QuorumsFenced(s, top),
         s.height <= top + 1, NEW h \in Nat, h >= HF9_HEIGHT, h < top,
         top - h < DEREGISTER_LIFETIME_BY_HEIGHT
  PROVE  h \in DOMAIN s.quorums
  <1>1. /\ HF9_HEIGHT \in Nat /\ QUORUM_LIFETIME \in Nat /\ ROLLBACK_EVENT_EXPIRATION_BLOCKS \in Nat
        /\ DEREGISTER_LIFETIME_BY_HEIGHT \in Nat /\ s.height \in Nat
    BY ListAssumption DEF GoodState
  <1>2. SUFFICES ASSUME Fence(s, h + QUORUM_LIFETIME + 1 - ROLLBACK_EVENT_EXPIRATION_BLOCKS)
                 PROVE  FALSE
    <2>1. h \in HF9_HEIGHT..(top - 1) BY <1>1
    <2> QED BY <2>1 DEF QuorumsFenced
  <1>3. PICK i \in 1..Len(s.events) :
          s.events[i].height >= h + QUORUM_LIFETIME + 1 - ROLLBACK_EVENT_EXPIRATION_BLOCKS
    BY <1>2 DEF Fence
  <1>4. s.events[i].height \in Nat /\ s.events[i].height < s.height BY EventTypes DEF Ordered
  <1> QED BY <1>1, <1>3, <1>4

\* The quorums that votes and deregister transactions are about are there, in
\* every behaviour in which no reorganisation goes below version 9, when quorums
\* are kept longer than a deregistration may take and a rollback may go back
\* together (as they are: 60 and 30 blocks against 360).
THEOREM QuorumsStayAvailable ==
  ASSUME DEREGISTER_LIFETIME_BY_HEIGHT + ROLLBACK_EVENT_EXPIRATION_BLOCKS <= QUORUM_LIFETIME + 1
  PROVE  Spec /\ ReorgsStayAbove => []QuorumsAvailable
  <1>1. IInv /\ HeightInv /\ PlaceInv /\ QuorumInv => QuorumsAvailable
    <2> SUFFICES ASSUME IInv, HeightInv, PlaceInv, QuorumInv
                 PROVE  QuorumsAvailable
      OBVIOUS
    <2>1. /\ GoodState(state) /\ Ordered(state) /\ Height \in Nat /\ HF9_HEIGHT \in Nat /\ cur \in Nat
          /\ state.height \in Nat
      BY HeightTypes DEF IInv, PlaceInv
    <2>2. ASSUME pc = "txs", index <= Len(Block(cur).txs), Block(cur).txs[index].type = "deregister"
          PROVE  Block(cur).txs[index].height \in DOMAIN state.quorums
      <3> DEFINE tx == Block(cur).txs[index]
      <3>1. cur < Height /\ state.height = cur + 1 /\ QuorumsFenced(state, cur)
        BY <2>2, VersionOfBlock DEF HeightInv, QuorumInv
      <3>2. tx \in AnyTx /\ index \in DOMAIN Block(cur).txs
        <4>1. index \in Nat /\ (index - 1) + 1 \in DOMAIN Block(cur).txs /\ tx \in AnyTx
          BY <2>2, CurrentTx DEF IInv, ControlOK
        <4>2. (index - 1) + 1 = index BY <4>1
        <4> QED BY <4>1, <4>2
      <3>3. IsTimely(tx, cur)
        <4>1. cur + 1 \in 1..Height /\ (cur + 1) - 1 = cur BY <2>1, <3>1
        <4> QED BY <3>2, <4>1 DEF QuorumInv, Block
      <3>4. tx.height \in Nat
        <4>1. tx \notin Txs BY <2>2, DataAssumption DEF Tx
        <4> QED BY <2>2, <3>2, <4>1 DEF AnyTx
      <3>5. /\ tx.height >= HF9_HEIGHT /\ tx.height < cur /\ cur - tx.height < DEREGISTER_LIFETIME_BY_HEIGHT
            /\ state.height <= cur + 1
        BY <2>1, <2>2, <3>1, <3>3, <3>4 DEF IsTimely
      <3> HIDE DEF tx
      <3>6. tx.height \in DOMAIN state.quorums BY <2>1, <3>1, <3>4, <3>5, QuorumIsThere
      <3> QED BY <3>6 DEF tx
    <2>3. ASSUME pc = "idle", NEW h \in HF9_HEIGHT..(Height - 1), Height - h < DEREGISTER_LIFETIME_BY_HEIGHT
          PROVE  h \in DOMAIN state.quorums
      <3>1. h \in Nat /\ h >= HF9_HEIGHT /\ h < Height BY <2>1
      <3>2. state.height = Height BY <2>1, <2>3, <3>1 DEF HeightInv, Larger
      <3>3. QuorumsFenced(state, Height) BY <2>3, <3>2 DEF QuorumInv
      <3>4. state.height <= Height + 1 BY <2>1, <3>2
      <3> QED BY <2>1, <2>3, <3>1, <3>3, <3>4, QuorumIsThere
    <2> QED BY <2>2, <2>3 DEF QuorumsAvailable
  <1>2. IInv /\ HeightInv /\ PlaceInv /\ QuorumInv /\ [Next]_vars => PlaceInv' /\ QuorumInv'
    BY NextPlaces, NextQuorums
  <1>3. IInv /\ HeightInv /\ [Next]_vars /\ [PopBlocks => target' >= HF9_HEIGHT]_vars => HeightInv'
    BY NextHeights
  <1> QED BY <1>1, <1>2, <1>3, InitGood, NextGood, InitHeights, InitPlaces, InitQuorums, PTL
          DEF Spec, ReorgsStayAbove
==============================================================================
