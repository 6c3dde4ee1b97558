--------------------------- MODULE BlockSyncProofs ---------------------------
(***************************************************************************)
(* Every hash that block_queue counts as requested belongs to a span of    *)
(* the queue, whatever the peers, their chains, the span size and the      *)
(* bounds.  Each operation of the queue keeps this; the handlers only      *)
(* change the queue through them.                                          *)
(*                                                                         *)
(* And what the operations of the queue and of a connection do to the      *)
(* hashes of have_blocks, for BlockDownloadProofs.                         *)
(***************************************************************************)
EXTENDS BlockSync, SequenceTheorems, FiniteSetTheorems, TLAPS

(* The hashes that a set of spans carries. *)
Carried(S) == UNION {ToSet(s.hashes) : s \in S}

(* A span of the queue has these fields. *)
IsSpan(s) ==
    s = [start |-> s.start, n |-> s.n, hashes |-> s.hashes, blocks |-> s.blocks, conn |-> s.conn]

(* The inductive form of RequestsAreQueued, for any queue. *)
QueueOK(q) ==
    /\ q = [spans |-> q.spans, requested |-> q.requested, have |-> q.have]
    /\ \A s \in q.spans : IsSpan(s)
    /\ q.requested \subseteq Carried(q.spans)

(* erase_block takes the hashes of the spans it removes along. *)
LEMMA EraseKeeps == ASSUME NEW q, NEW S, QueueOK(q) PROVE QueueOK(EraseBlocks(q, S))
  BY DEF QueueOK, EraseBlocks, Carried

(* A span that is scheduled adds to what the queue carries. *)
LEMMA InsertKeeps == ASSUME NEW q, NEW s, QueueOK(q), IsSpan(s) PROVE QueueOK(Insert(q, s))
  BY DEF QueueOK, Insert, Carried

(* set_span_hashes replaces the hashes of a span in both places. *)
LEMMA SetHashesKeeps ==
  ASSUME NEW q, NEW height, NEW c, NEW hashes, QueueOK(q)
  PROVE  QueueOK(SetSpanHashes(q, height, c, hashes))
PROOF
<1> DEFINE S == {s \in q.spans : s.start = height /\ s.conn = c}
           e == EraseBlocks(q, S)
           T == {[s EXCEPT !.hashes = hashes] : s \in S}
           r == [spans |-> e.spans \cup T, requested |-> e.requested \cup ToSet(hashes), have |-> e.have]
<1>1. QueueOK(e)
  BY EraseKeeps
<1>2. ASSUME NEW s \in S PROVE [s EXCEPT !.hashes = hashes].hashes = hashes /\ IsSpan([s EXCEPT !.hashes = hashes])
  BY DEF QueueOK, IsSpan
<1> HIDE DEF e
<1>3. CASE S # {}
  <2>1. PICK s \in S : TRUE
    BY <1>3
  <2>2. ToSet(hashes) \subseteq Carried(T)
    BY <1>2 DEF Carried
  <2>3. Carried(e.spans \cup T) = Carried(e.spans) \cup Carried(T)
    BY DEF Carried
  <2>5. \A t \in e.spans \cup T : IsSpan(t)
    BY <1>1, <1>2 DEF QueueOK
  <2>6. QueueOK(r)
    BY <1>1, <2>2, <2>3, <2>5 DEF QueueOK
  <2>7. SetSpanHashes(q, height, c, hashes) = r
    BY <1>3 DEF SetSpanHashes, e
  <2> QED
    BY <2>6, <2>7
<1>4. CASE S = {}
  BY <1>4 DEF SetSpanHashes
<1> QED
  BY <1>3, <1>4

(* flush_spans, flush_stale_spans and remove_spans erase spans. *)
LEMMA FlushKeeps ==
  ASSUME NEW q, NEW c, NEW a, QueueOK(q)
  PROVE  /\ QueueOK(FlushSpans(q, c, a))
         /\ QueueOK(FlushStaleSpans(q, a))
         /\ QueueOK(RemoveSpans(q, c, a))
  BY EraseKeeps DEF FlushSpans, FlushStaleSpans, RemoveSpans

(* reserve_span inserts an empty span, then gives it its hashes; it finds  *)
(* another connection's span there when two overlap, and changes nothing.  *)
LEMMA ReserveKeeps ==
  ASSUME NEW q, NEW last, NEW max, NEW c, NEW hashes, QueueOK(q)
  PROVE  QueueOK(ReserveSpan(q, last, max, c, hashes).queue)
PROOF
<1> DEFINE rest == NotRequested(q, hashes)
           start == last - Len(rest) + 1
<1>1. ASSUME NEW take
      PROVE  QueueOK(SetSpanHashes(Insert(q, [start |-> start, n |-> Len(take), hashes |-> <<>>,
                                              blocks |-> <<>>, conn |-> c]), start, c, take))
  <2> HIDE DEF start
  <2>1. IsSpan([start |-> start, n |-> Len(take), hashes |-> <<>>, blocks |-> <<>>, conn |-> c])
    BY DEF IsSpan
  <2> QED
    BY <2>1, InsertKeeps, SetHashesKeeps
<1> QED
  BY <1>1 DEF ReserveSpan

(* Downloaded blocks take over the hashes of the span they replace.        *)
LEMMA AddFilledKeeps ==
  ASSUME NEW q, NEW height, NEW blocks, NEW c, QueueOK(q)
  PROVE  QueueOK(AddFilled(q, height, blocks, c))
PROOF
<1> DEFINE old == {s \in q.spans : s.start = height}
           hashes == First(old).hashes
           r == EraseBlocks(q, old)
           new == [start |-> height, n |-> Len(blocks), hashes |-> <<>>, blocks |-> blocks, conn |-> c]
           i == Insert(r, new)
           x == [spans |-> i.spans, requested |-> i.requested \cup ToSet(hashes),
                 have |-> i.have \cup ToSet(hashes)]
           filled == SetSpanHashes(x, height, c, hashes)
<1>1. IsSpan(new)
  BY DEF IsSpan
<1>2. QueueOK(r) /\ QueueOK(i)
  BY <1>1, EraseKeeps, InsertKeeps
<1>3. AddFilled(q, height, blocks, c) = IF old = {} THEN i ELSE filled
  BY DEF AddFilled
<1>4. i.spans = (q.spans \ old) \cup {new} /\ i.requested = r.requested
  BY DEF Insert, EraseBlocks
<1>5. {s \in x.spans : s.start = height /\ s.conn = c} = {new}
  BY <1>4
<1>6. QueueOK(filled)
  <2> DEFINE e == EraseBlocks(x, {new})
             given == [new EXCEPT !.hashes = hashes]
  <2>1. given.hashes = hashes /\ IsSpan(given)
    BY DEF IsSpan
  <2>2. filled = [spans |-> e.spans \cup {given}, requested |-> e.requested \cup ToSet(hashes), have |-> e.have]
    <3> HIDE DEF x
    <3> QED BY <1>5 DEF SetSpanHashes
  <2>3. e.spans = q.spans \ old
    BY <1>4 DEF EraseBlocks
  <2>4. e.requested \subseteq r.requested \cup ToSet(hashes)
    BY <1>4 DEF EraseBlocks
  <2>5. r.spans = q.spans \ old
    BY DEF EraseBlocks
  <2>6. \A s \in e.spans \cup {given} : IsSpan(s)
    BY <2>1, <2>3 DEF QueueOK
  <2>7. r.requested \cup ToSet(hashes) \subseteq Carried(e.spans \cup {given})
    <3> HIDE DEF e, r, given, hashes
    <3> QED BY <1>2, <2>1, <2>3, <2>5 DEF QueueOK, Carried
  <2> HIDE DEF e, given, filled, r, hashes
  <2> QED
    BY <2>2, <2>4, <2>6, <2>7 DEF QueueOK
<1> QED
  BY <1>2, <1>3, <1>6

(* What request_missing_objects does to the queue: nothing but flush the   *)
(* stale spans and, perhaps, reserve one.                                  *)
LEMMA RequestKeeps ==
  ASSUME QueueOK(queue), NEW p, NEW c, NEW force, NEW tgt, NEW late, NEW wedged
  PROVE  QueueOK(RequestMissingObjects(p, c, force, tgt, late, wedged).queue)
PROOF
<1> DEFINE q == FlushStaleSpans(queue, Live)
           e == [conn |-> c, queue |-> q, send |-> <<>>, synced |-> FALSE, ok |-> TRUE, target |-> tgt]
<1>1. QueueOK(q)
  BY FlushKeeps
<1> HIDE DEF q
<1>2. ASSUME NEW d PROVE AskOrRest(p, d, q, e).queue = q
  BY DEF AskOrRest
<1>3. ASSUME NEW d, NEW x, NEW hashes PROVE AskFor(d, x, hashes, e).queue = x
  BY DEF AskFor
<1>4. ASSUME NEW d, NEW f PROVE QueueOK(Download(p, d, q, f, e).queue)
  <2> DEFINE n == SkipUnneeded(d, q, FALSE)
             r == ReserveSpan(q, n.last, SYNC_SIZE, p, n.needed)
  <2>1. QueueOK(r.queue)
    BY <1>1, ReserveKeeps
  <2>2. \/ \E y, h : \/ Download(p, d, q, f, e) = AskFor(y, q, h, e)
                    \/ Download(p, d, q, f, e) = AskFor(y, r.queue, h, e)
        \/ \E y : Download(p, d, q, f, e) = AskOrRest(p, y, q, e)
    <3> HIDE DEF e
    <3> QED BY Zenon DEF Download
  <2> HIDE DEF e, r
  <2> QED
    BY <1>1, <1>2, <1>3, <2>1, <2>2
<1> QED
  BY <1>1, <1>2, <1>4 DEF RequestMissingObjects, q

(* The last call of every handler. *)
LEMMA EndKeeps ==
  ASSUME QueueOK(queue), NEW p, NEW c, NEW pending, NEW raised, EndWith(p, c, pending, raised)
  PROVE  QueueOK(queue')
PROOF
<1>1. PICK late, wedged \in BOOLEAN :
        LET r == RequestMissingObjects(p, c, c.force, target, late, wedged)
        IN queue' = r.queue \/ queue' = FlushSpans(r.queue, p, FALSE)
  BY Zenon DEF EndWith, Dropped
<1> QED
  BY <1>1, RequestKeeps, FlushKeeps

(* No step of any handler, and no close of a connection, loses a hash. *)
LEMMA StepKeeps == ASSUME QueueOK(queue), [Next]_vars PROVE QueueOK(queue')
PROOF
<1>1. CASE UNCHANGED queue
  BY <1>1 DEF QueueOK
<1>2. ASSUME NEW p \in Peers, HandleChainEntry(p) PROVE QueueOK(queue')
  BY <1>2, EndKeeps DEF HandleChainEntry
<1>3. ASSUME NEW p \in Peers, BackToDownload(p) PROVE QueueOK(queue')
  BY <1>3, EndKeeps DEF BackToDownload
<1>4. ASSUME NEW p \in Peers, HandleObjects(p) PROVE QueueOK(queue')
  <2>1. \/ queue' = FlushSpans(queue, p, FALSE)
        \/ \E h, b : queue' = AddFilled(queue, h, b, p)
    BY <1>4, Zenon DEF HandleObjects, Dropped
  <2> QED
    BY <2>1, FlushKeeps, AddFilledKeeps
<1>5. ASSUME NEW p \in Peers, NextBlocks(p) PROVE QueueOK(queue')
  <2>1. UNCHANGED queue \/ \E c, h : queue' = RemoveSpans(queue, c, h)
    BY <1>5, Zenon DEF NextBlocks
  <2> QED
    BY <1>1, <2>1, FlushKeeps
<1>6. ASSUME NEW p \in Peers, AddBlocks(p) PROVE QueueOK(queue')
  <2> DEFINE rest == RemoveSpans(queue, span.conn, span.start)
  <2>1. queue' = rest \/ queue' = FlushSpans(rest, Culprit(p), TRUE)
    BY <1>6, Zenon DEF AddBlocks, Dropped
  <2>2. QueueOK(rest)
    BY FlushKeeps
  <2> HIDE DEF rest
  <2> QED
    BY <2>1, <2>2, FlushKeeps
<1>7. ASSUME NEW p \in Peers, OnConnectionClose(p) \/ DeleteConnection(p) PROVE QueueOK(queue')
  <2>1. queue' = FlushSpans(queue, p, FALSE)
    BY <1>7, Zenon DEF OnConnectionClose, DeleteConnection
  <2> QED
    BY <2>1, FlushKeeps
<1>8. ASSUME NEW p \in Peers,
             \/ Callback(p) \/ TryLock(p) \/ StopAdding(p) \/ SyncData(p)
             \/ CheckStandbyPeer(p) \/ KickIdlePeer(p) \/ Close(p)
      PROVE  UNCHANGED queue
  BY <1>8 DEF Callback, TryLock, StopAdding, SyncData, CheckStandbyPeer, KickIdlePeer, Close
<1>9. UNCHANGED vars => UNCHANGED queue
  BY DEF vars
<1> QED
  BY <1>1, <1>2, <1>3, <1>4, <1>5, <1>6, <1>7, <1>8, <1>9 DEF Next, Step

(* RequestsAreQueued for any peers, chains, span sizes and bounds: through *)
(* any interleaving of the handlers a hash in requested_hashes belongs to  *)
(* a span of the queue, so no hash is skipped by everyone for ever.        *)
THEOREM RequestsStayQueued == Spec => []RequestsAreQueued
PROOF
<1>1. Init => QueueOK(queue)
  BY DEF Init, EmptyQueue, QueueOK, Carried
<1>2. QueueOK(queue) /\ [Next]_vars => QueueOK(queue)'
  <2> SUFFICES ASSUME QueueOK(queue), [Next]_vars PROVE QueueOK(queue')
    BY DEF QueueOK, Carried, IsSpan
  <2> QED
    BY StepKeeps
<1>3. QueueOK(queue) => RequestsAreQueued
  BY DEF QueueOK, RequestsAreQueued, Carried
<1> QED
  BY <1>1, <1>2, <1>3, PTL DEF Spec

-----------------------------------------------------------------------------
(***************************************************************************)
(* Every hash of have_blocks belongs to a downloaded span.  add_blocks is  *)
(* the one operation that could break this: it would with an answer        *)
(* without blocks, and what is asked for is never empty.  That takes an    *)
(* invariant of the requests on their way, of the spans that may be asked  *)
(* for again, and of the hashes that a connection has left.                *)
(***************************************************************************)
IsSeq(s) == s \in Seq(ToSet(s))

(* A set of naturals has a least element. *)
LEMMA LeastNat ==
  ASSUME NEW S, S \subseteq Nat, S # {}
  PROVE  \E m \in S : \A k \in S : m <= k
PROOF
<1>1. PICK m \in S : \A k \in S : ~(<<k, m>> \in OpToRel(<, Nat))
  BY NatLessThanWellFounded, WFMin, Zenon
<1>2. ASSUME NEW k \in S PROVE m <= k
  <2>1. ~(<<k, m>> \in OpToRel(<, Nat))
    BY <1>1
  <2>2. k \in Nat /\ m \in Nat
    OBVIOUS
  <2> QED
    BY <2>1, <2>2 DEF OpToRel
<1> QED
  BY <1>2

(* A non-empty bounded set of naturals has a greatest element. *)
LEMMA GreatestNat ==
  ASSUME NEW S, S \subseteq Nat, S # {}, NEW b \in Nat, \A k \in S : k <= b
  PROVE  \E m \in S : \A k \in S : k <= m
PROOF
<1> DEFINE T == {b - k : k \in S}
<1>1. T \subseteq Nat /\ T # {}
  <2>1. ASSUME NEW k \in S PROVE b - k \in Nat
    <3>1. k \in Nat /\ k <= b
      OBVIOUS
    <3> QED
      BY <3>1
  <2> QED
    BY <2>1
<1>2. PICK d \in T : \A e \in T : d <= e
  BY <1>1, LeastNat
<1>3. PICK m \in S : d = b - m
  OBVIOUS
<1>4. ASSUME NEW k \in S PROVE k <= m
  <2>1. b - m <= b - k
    BY <1>2, <1>3
  <2> QED
    BY <2>1
<1> QED
  BY <1>4

(* A sequence over any set is one over its own elements. *)
LEMMA SeqIsSeq ==
  ASSUME NEW S, NEW s \in Seq(S)
  PROVE  IsSeq(s) /\ Len(s) \in Nat /\ DOMAIN s = 1..Len(s) /\ ToSet(s) \subseteq S
PROOF
<1>1. Len(s) \in Nat /\ s \in [1..Len(s) -> S] /\ DOMAIN s = 1..Len(s)
  BY LenProperties
<1>2. s \in [1..Len(s) -> ToSet(s)]
  BY <1>1 DEF ToSet
<1>3. s \in Seq(ToSet(s))
  BY <1>1, <1>2, SeqDef
<1> QED
  BY <1>1, <1>3 DEF IsSeq, ToSet

(* Part of a sequence is one. *)
LEMMA PartOf ==
  ASSUME NEW s, IsSeq(s), NEW m \in Int, m >= 1
  PROVE  /\ IsSeq(SubSeq(s, m, Len(s))) /\ ToSet(SubSeq(s, m, Len(s))) \subseteq ToSet(s)
         /\ Len(SubSeq(s, m, Len(s))) <= Len(s)
PROOF
<1>1. Len(s) \in Nat /\ DOMAIN s = 1..Len(s)
  BY SeqIsSeq DEF IsSeq
<1>2. \A i \in m..Len(s) : s[i] \in ToSet(s)
  BY <1>1 DEF ToSet
<1>3. /\ SubSeq(s, m, Len(s)) \in Seq(ToSet(s))
      /\ Len(SubSeq(s, m, Len(s))) = IF m <= Len(s) THEN Len(s) - m + 1 ELSE 0
  BY <1>1, <1>2, SubSeqProperties
<1>4. Len(SubSeq(s, m, Len(s))) <= Len(s)
  BY <1>1, <1>3
<1> QED
  BY <1>3, <1>4, SeqIsSeq, Zenon

(* The first of some spans is one of them. *)
LEMMA FirstIsIn ==
  ASSUME NEW S, S # {}, \A s \in S : s.start \in Nat
  PROVE  First(S) \in S
PROOF
<1>1. PICK m \in {s.start : s \in S} : \A k \in {s.start : s \in S} : m <= k
  BY LeastNat
<1>2. PICK s \in S : m = s.start
  OBVIOUS
<1>3. \A t \in S : s.start <= t.start
  BY <1>1, <1>2
<1> QED
  BY <1>3 DEF First

(* The inductive form of HaveIsDownloaded, for any queue. *)
SpansOK(q) ==
    /\ QueueOK(q)
    /\ q.have \subseteq Carried({s \in q.spans : Filled(s)})
    /\ \A s \in q.spans : s.start \in Nat /\ IsSeq(s.hashes) /\ (Filled(s) \/ s.hashes # <<>>)

(* Erasing spans keeps have_blocks to what downloaded spans carry. *)
LEMMA EraseKeepsSpans == ASSUME NEW q, NEW S, SpansOK(q) PROVE SpansOK(EraseBlocks(q, S))
PROOF
<1> DEFINE e == EraseBlocks(q, S)
<1>1. QueueOK(e)
  BY EraseKeeps DEF SpansOK
<1>2. e.spans = q.spans \ S /\ e.have = q.have \ Carried(S)
  BY DEF EraseBlocks, Carried
<1> HIDE DEF e
<1>3. e.have \subseteq Carried({s \in e.spans : Filled(s)})
  BY <1>2 DEF SpansOK, Carried
<1>4. SpansOK(e)
  BY <1>1, <1>2, <1>3 DEF SpansOK
<1> QED
  BY <1>4 DEF e

(* So do the operations that erase the spans of a connection or of the past, *)
LEMMA FlushKeepsSpans ==
  ASSUME NEW q, NEW c, NEW a, SpansOK(q)
  PROVE  /\ SpansOK(FlushSpans(q, c, a))
         /\ SpansOK(FlushStaleSpans(q, a))
         /\ SpansOK(RemoveSpans(q, c, a))
  BY EraseKeepsSpans DEF FlushSpans, FlushStaleSpans, RemoveSpans

(* and the one that gives a span its hashes. *)
LEMMA SetHashesKeepsSpans ==
  ASSUME NEW q, NEW height, NEW c, NEW hashes, SpansOK(q), IsSeq(hashes), hashes # <<>>
  PROVE  SpansOK(SetSpanHashes(q, height, c, hashes))
PROOF
<1> DEFINE S == {s \in q.spans : s.start = height /\ s.conn = c}
           e == EraseBlocks(q, S)
           T == {[s EXCEPT !.hashes = hashes] : s \in S}
           r == SetSpanHashes(q, height, c, hashes)
<1>1. QueueOK(r)
  BY SetHashesKeeps DEF SpansOK
<1>2. SpansOK(e)
  BY EraseKeepsSpans
<1>3. CASE S = {}
  BY <1>3 DEF SetSpanHashes
<1>4. CASE S # {}
  <2>1. r.spans = e.spans \cup T /\ r.have = e.have
    <3> HIDE DEF e
    <3> QED BY <1>4 DEF SetSpanHashes, e
  <2>2. ASSUME NEW s \in S
        PROVE  LET t == [s EXCEPT !.hashes = hashes] IN t.hashes = hashes /\ t.start = s.start
    BY DEF SpansOK, QueueOK, IsSpan
  <2>3. \A t \in T : t.start \in Nat /\ t.hashes = hashes
    BY <2>2 DEF SpansOK
  <2> HIDE DEF e, T, S, r
  <2>4. r.have \subseteq Carried({s \in r.spans : Filled(s)})
    BY <1>2, <2>1 DEF SpansOK, Carried
  <2>5. \A s \in r.spans : s.start \in Nat /\ IsSeq(s.hashes) /\ (Filled(s) \/ s.hashes # <<>>)
    BY <1>2, <2>1, <2>3 DEF SpansOK
  <2> QED
    BY <1>1, <2>4, <2>5 DEF SpansOK, r
<1> QED
  BY <1>3, <1>4

(* The hashes past the ones requested already. *)
LEMMA NotRequestedIsPart ==
  ASSUME NEW q, NEW hashes, IsSeq(hashes)
  PROVE  LET rest == NotRequested(q, hashes)
         IN  IsSeq(rest) /\ ToSet(rest) \subseteq ToSet(hashes) /\ Len(rest) <= Len(hashes)
PROOF
<1> DEFINE todo == {i \in DOMAIN hashes : hashes[i] \notin q.requested}
           skip == IF todo = {} THEN Len(hashes)
                   ELSE (CHOOSE i \in todo : \A j \in todo : i <= j) - 1
<1>1. Len(hashes) \in Nat /\ DOMAIN hashes = 1..Len(hashes)
  BY SeqIsSeq DEF IsSeq
<1>2. skip \in Nat
  <2>1. CASE todo # {}
    <3>1. todo \subseteq Nat
      BY <1>1
    <3>2. \E m \in todo : \A k \in todo : m <= k
      BY <2>1, <3>1, LeastNat, Zenon
    <3> DEFINE m == CHOOSE i \in todo : \A j \in todo : i <= j
    <3>3. m \in todo
      <4> HIDE DEF todo
      <4> QED BY <3>2
    <3>4. m \in 1..Len(hashes)
      BY <1>1, <3>3
    <3>5. skip = m - 1
      BY <2>1
    <3> HIDE DEF m, skip
    <3> QED
      BY <1>1, <3>4, <3>5
  <2> QED
    BY <1>1, <2>1
<1>3. NotRequested(q, hashes) = SubSeq(hashes, skip + 1, Len(hashes))
  BY DEF NotRequested
<1> HIDE DEF skip
<1>4. skip + 1 \in Int /\ skip + 1 >= 1
  BY <1>2
<1> QED
  BY <1>3, <1>4, PartOf, Zenon

(* reserve_span schedules hashes, never none; what it returns is asked for. *)
LEMMA ReserveKeepsSpans ==
  ASSUME NEW q, NEW last \in Int, NEW max \in Nat, NEW c, NEW hashes, SpansOK(q), IsSeq(hashes)
  PROVE  LET r == ReserveSpan(q, last, max, c, hashes)
         IN  /\ SpansOK(r.queue)
             /\ r.span # NoSpan =>
                  /\ r.span.start \in Int /\ r.span.n \in Nat
                  /\ IsSeq(r.span.hashes) /\ r.span.hashes # <<>>
PROOF
<1> DEFINE rest == NotRequested(q, hashes)
           n == IF Len(rest) < max THEN Len(rest) ELSE max
           take == SubSeq(rest, 1, n)
           start == last - Len(rest) + 1
           new == [start |-> start, n |-> Len(take), hashes |-> <<>>, blocks |-> <<>>, conn |-> c]
           r == ReserveSpan(q, last, max, c, hashes)
<1>1. IsSeq(rest) /\ Len(rest) <= Len(hashes) /\ Len(rest) \in Nat /\ Len(hashes) \in Nat
  BY NotRequestedIsPart, SeqIsSeq DEF IsSeq
<1> HIDE DEF rest
<1>2. n \in Nat /\ n <= Len(rest)
  BY <1>1
<1> HIDE DEF n
<1>3. take \in Seq(ToSet(rest))
  <2>1. DOMAIN rest = 1..Len(rest)
    BY <1>1, SeqIsSeq DEF IsSeq
  <2>2. \A i \in 1..n : rest[i] \in ToSet(rest)
    BY <1>1, <1>2, <2>1 DEF ToSet
  <2> QED
    BY <1>2, <2>2, SubSeqProperties
<1>4. IsSeq(take) /\ Len(take) \in Nat
  BY <1>3, SeqIsSeq, Zenon
<1> HIDE DEF take
<1>5. CASE hashes = <<>> \/ Len(hashes) > last \/ take = <<>>
  <2>1. r.queue = q /\ r.span = NoSpan
    BY <1>5 DEF ReserveSpan, rest, n, take
  <2> QED
    BY <2>1
<1>6. CASE ~(hashes = <<>> \/ Len(hashes) > last \/ take = <<>>)
  <2>1. start \in Nat
    BY <1>1, <1>6
  <2> HIDE DEF start
  <2>2. /\ r.queue = SetSpanHashes(Insert(q, new), start, c, take)
        /\ r.span = [new EXCEPT !.hashes = take]
    <3> HIDE DEF new
    <3> QED BY <1>6, Zenon DEF ReserveSpan, rest, n, take, start, new
  <2>3. r.span.start = start /\ r.span.n = Len(take) /\ r.span.hashes = take
    BY <2>2
  <2>4. SpansOK(r.queue)
    <3>1. CASE \E t \in q.spans : t.start = start
      <4>1. Insert(q, new) = q
        BY <3>1 DEF Insert
      <4> QED
        BY <1>4, <1>6, <2>2, <4>1, SetHashesKeepsSpans
    <3>2. CASE ~\E t \in q.spans : t.start = start
      <4> DEFINE i == Insert(q, new)
                 e == EraseBlocks(i, {new})
                 given == [new EXCEPT !.hashes = take]
      <4>1. i = [q EXCEPT !.spans = @ \cup {new}] /\ i.spans = q.spans \cup {new} /\ i.have = q.have
        BY <3>2 DEF Insert, SpansOK, QueueOK
      <4>2. {s \in i.spans : s.start = start /\ s.conn = c} = {new}
        BY <3>2, <4>1
      <4>3. e.spans = q.spans /\ e.have = q.have
        <5>1. new \notin q.spans /\ new.hashes = <<>>
          BY <3>2
        <5>2. ToSet(<<>>) = {}
          BY DEF ToSet
        <5> HIDE DEF i, new
        <5> QED BY <4>1, <5>1, <5>2 DEF EraseBlocks
      <4>4. r.queue.spans = e.spans \cup {given} /\ r.queue.have = e.have
        <5>1. SetSpanHashes(i, start, c, take)
                = [spans |-> e.spans \cup {given}, requested |-> e.requested \cup ToSet(take), have |-> e.have]
          <6> HIDE DEF i, new
          <6> QED BY <4>2 DEF SetSpanHashes
        <5> HIDE DEF e, given, new
        <5> QED BY <2>2, <5>1
      <4>5. given.start = start /\ given.hashes = take
        OBVIOUS
      <4>6. QueueOK(r.queue)
        BY ReserveKeeps DEF SpansOK
      <4> HIDE DEF i, e, given, new, r
      <4>7. r.queue.have \subseteq Carried({s \in r.queue.spans : Filled(s)})
        BY <4>3, <4>4 DEF SpansOK, Carried
      <4>8. \A s \in r.queue.spans : s.start \in Nat /\ IsSeq(s.hashes) /\ (Filled(s) \/ s.hashes # <<>>)
        BY <1>4, <1>6, <2>1, <4>3, <4>4, <4>5 DEF SpansOK
      <4> QED
        BY <4>6, <4>7, <4>8 DEF SpansOK
    <3> QED
      BY <3>1, <3>2
  <2> HIDE DEF r
  <2>5. r.span.start \in Int /\ r.span.n \in Nat /\ IsSeq(r.span.hashes) /\ r.span.hashes # <<>>
    BY <1>4, <1>6, <2>1, <2>3
  <2> QED
    BY <2>4, <2>5 DEF r
<1> QED
  BY <1>5, <1>6

(* Downloaded blocks that fill a span, or none: the hashes they take over  *)
(* are on a downloaded span, as there are blocks.                          *)
LEMMA AddFilledKeepsSpans ==
  ASSUME NEW q, NEW height \in Nat, NEW blocks, NEW c, SpansOK(q), blocks # <<>>
  PROVE  SpansOK(AddFilled(q, height, blocks, c))
PROOF
<1> DEFINE old == {s \in q.spans : s.start = height}
           hashes == First(old).hashes
           r == EraseBlocks(q, old)
           new == [start |-> height, n |-> Len(blocks), hashes |-> <<>>, blocks |-> blocks, conn |-> c]
           i == Insert(r, new)
           x == [spans |-> i.spans, requested |-> i.requested \cup ToSet(hashes),
                 have |-> i.have \cup ToSet(hashes)]
           a == AddFilled(q, height, blocks, c)
<1>1. QueueOK(a)
  BY AddFilledKeeps DEF SpansOK
<1>2. SpansOK(r)
  BY EraseKeepsSpans
<1>3. r.spans = q.spans \ old
  BY DEF EraseBlocks
<1>4. ToSet(<<>>) = {} /\ IsSeq(<<>>)
  BY DEF ToSet, IsSeq
<1>5. /\ new.hashes = <<>> /\ new.start = height /\ Filled(new) /\ new.conn = c
      /\ new \notin r.spans
  BY <1>3 DEF Filled
<1>6. i.spans = r.spans \cup {new} /\ i.have = r.have
  <2>1. ~\E t \in r.spans : t.start = new.start
    BY <1>3, <1>5
  <2> HIDE DEF r, new
  <2> QED BY <1>2, <2>1 DEF Insert, SpansOK, QueueOK
<1>7. CASE old = {}
  <2>1. a = i
    BY <1>7 DEF AddFilled
  <2> HIDE DEF a, i, r, new
  <2>2. i.have \subseteq Carried({s \in i.spans : Filled(s)})
    BY <1>2, <1>6 DEF SpansOK, Carried
  <2>3. \A s \in i.spans : s.start \in Nat /\ IsSeq(s.hashes) /\ (Filled(s) \/ s.hashes # <<>>)
    BY <1>2, <1>4, <1>5, <1>6 DEF SpansOK
  <2>4. SpansOK(a)
    BY <1>1, <2>1, <2>2, <2>3 DEF SpansOK
  <2> QED
    BY <2>4 DEF a
<1>8. CASE old # {}
  <2> DEFINE e == EraseBlocks(x, {new})
             given == [new EXCEPT !.hashes = hashes]
  <2>1. IsSeq(hashes)
    <3>1. First(old) \in old
      BY <1>8, FirstIsIn DEF SpansOK
    <3> QED
      BY <3>1 DEF SpansOK
  <2>2. a = SetSpanHashes(x, height, c, hashes)
    BY <1>8 DEF AddFilled
  <2>3. x.spans = r.spans \cup {new} /\ x.have = r.have \cup ToSet(hashes)
    BY <1>6
  <2>4. {s \in x.spans : s.start = height /\ s.conn = c} = {new}
    BY <1>3, <1>5, <2>3
  <2>5. given.hashes = hashes /\ given.start = height /\ Filled(given)
    BY DEF Filled
  <2>6. a = [spans |-> e.spans \cup {given}, requested |-> e.requested \cup ToSet(hashes), have |-> e.have]
    <3> HIDE DEF x, new, hashes, a
    <3> QED BY <2>2, <2>4 DEF SetSpanHashes
  <2>7. e.spans = r.spans /\ e.have = r.have \cup ToSet(hashes)
    <3> HIDE DEF x, new, hashes, r
    <3> QED BY <1>4, <1>5, <2>3 DEF EraseBlocks
  <2> HIDE DEF a, e, given, r, hashes, x, new
  <2>8. a.spans = r.spans \cup {given} /\ a.have = r.have \cup ToSet(hashes)
    BY <2>6, <2>7
  <2>9. a.have \subseteq Carried({s \in a.spans : Filled(s)})
    BY <1>2, <2>5, <2>8 DEF SpansOK, Carried
  <2>10. \A s \in a.spans : s.start \in Nat /\ IsSeq(s.hashes) /\ (Filled(s) \/ s.hashes # <<>>)
    BY <1>2, <2>1, <2>5, <2>8 DEF SpansOK
  <2>11. SpansOK(a)
    BY <1>1, <2>9, <2>10 DEF SpansOK
  <2> QED
    BY <2>11 DEF a
<1> QED
  BY <1>7, <1>8

-----------------------------------------------------------------------------
(* A connection's context. *)
IsConn(c) ==
    c = [up |-> c.up, live |-> c.live, state |-> c.state, needed |-> c.needed, asked |-> c.asked,
         remote |-> c.remote, last |-> c.last, waiting |-> c.waiting, lastKnown |-> c.lastKnown,
         callbacks |-> c.callbacks, pc |-> c.pc, force |-> c.force]

(* A context whose needed hashes are a sequence. *)
ConnOK(c) == IsConn(c) /\ c.last \in Int /\ IsSeq(c.needed)

(* A context that differs in nothing that has to do with the hashes. *)
SameHashes(d, c) == IsConn(d) /\ d.needed = c.needed /\ d.asked = c.asked /\ d.last = c.last

(* The fields of a context that have nothing to do with the hashes. *)
LEMMA ConnUpdates ==
  ASSUME NEW c, IsConn(c), NEW v
  PROVE  /\ SameHashes([c EXCEPT !.up = v], c)
         /\ SameHashes([c EXCEPT !.live = v], c)
         /\ SameHashes([c EXCEPT !.state = v], c)
         /\ SameHashes([c EXCEPT !.remote = v], c)
         /\ SameHashes([c EXCEPT !.waiting = v], c)
         /\ SameHashes([c EXCEPT !.lastKnown = v], c)
         /\ SameHashes([c EXCEPT !.callbacks = v], c)
         /\ SameHashes([c EXCEPT !.pc = v], c)
         /\ SameHashes([c EXCEPT !.force = v], c)
PROOF
<1>1. SameHashes([c EXCEPT !.up = v], c)
  BY DEF SameHashes, IsConn
<1>2. SameHashes([c EXCEPT !.live = v], c)
  BY DEF SameHashes, IsConn
<1>3. SameHashes([c EXCEPT !.state = v], c)
  BY DEF SameHashes, IsConn
<1>4. SameHashes([c EXCEPT !.remote = v], c)
  BY DEF SameHashes, IsConn
<1>5. SameHashes([c EXCEPT !.waiting = v], c)
  BY DEF SameHashes, IsConn
<1>6. SameHashes([c EXCEPT !.lastKnown = v], c)
  BY DEF SameHashes, IsConn
<1>7. SameHashes([c EXCEPT !.callbacks = v], c)
  BY DEF SameHashes, IsConn
<1>8. SameHashes([c EXCEPT !.pc = v], c)
  BY DEF SameHashes, IsConn
<1>9. SameHashes([c EXCEPT !.force = v], c)
  BY DEF SameHashes, IsConn
<1> QED
  BY <1>1, <1>2, <1>3, <1>4, <1>5, <1>6, <1>7, <1>8, <1>9

(* The fields of a context that have. *)
LEMMA HashUpdates ==
  ASSUME NEW c, IsConn(c), NEW v
  PROVE  /\ LET d == [c EXCEPT !.needed = v]
            IN  IsConn(d) /\ d.needed = v /\ d.asked = c.asked /\ d.last = c.last
         /\ LET d == [c EXCEPT !.asked = v]
            IN  IsConn(d) /\ d.needed = c.needed /\ d.asked = v /\ d.last = c.last
         /\ LET d == [c EXCEPT !.last = v]
            IN  IsConn(d) /\ d.needed = c.needed /\ d.asked = c.asked /\ d.last = v
PROOF
<1>1. LET d == [c EXCEPT !.needed = v]
      IN  IsConn(d) /\ d.needed = v /\ d.asked = c.asked /\ d.last = c.last
  BY DEF IsConn
<1>2. LET d == [c EXCEPT !.asked = v]
      IN  IsConn(d) /\ d.needed = c.needed /\ d.asked = v /\ d.last = c.last
  BY DEF IsConn
<1>3. LET d == [c EXCEPT !.last = v]
      IN  IsConn(d) /\ d.needed = c.needed /\ d.asked = c.asked /\ d.last = v
  BY DEF IsConn
<1> QED
  BY <1>1, <1>2, <1>3

(* A request for blocks is for some, and they are asked for still or the   *)
(* peer has them.                                                          *)
RequestOK(p, m, asked) ==
    /\ m.start \in Int
    /\ m.kind = "objects" =>
         /\ m.blocks # <<>> /\ IsSeq(m.blocks)
         /\ ToSet(m.blocks) \subseteq asked \/ ToSet(m.blocks) \subseteq ToSet(ChainOf(p))

(* The requests under way to p, while asked is what p has been asked for. *)
PendingOK(p, s, asked) == IsSeq(s) /\ \A m \in ToSet(s) : RequestOK(p, m, asked)

(* What request_missing_objects leaves and sends. *)
IsResult(e) ==
    e = [conn |-> e.conn, queue |-> e.queue, send |-> e.send, synced |-> e.synced, ok |-> e.ok,
         target |-> e.target]

(* The result keeps the queue, and asks for no less than was asked. *)
ResultOK(p, r, asked) ==
    ConnOK(r.conn) /\ asked \subseteq r.conn.asked /\ SpansOK(r.queue) /\ PendingOK(p, r.send, r.conn.asked)

(* No request, one, more of them, and one less. *)
LEMMA NothingPending == ASSUME NEW p, NEW asked PROVE PendingOK(p, <<>>, asked)
  BY DEF PendingOK, IsSeq, ToSet

LEMMA OnePending ==
  ASSUME NEW p, NEW asked, NEW m, RequestOK(p, m, asked)
  PROVE  PendingOK(p, <<m>>, asked)
PROOF
<1>1. <<m>> \in Seq({m})
  OBVIOUS
<1>2. IsSeq(<<m>>) /\ ToSet(<<m>>) \subseteq {m}
  BY <1>1, SeqIsSeq, Zenon
<1> QED
  BY <1>2 DEF PendingOK

LEMMA MorePending ==
  ASSUME NEW p, NEW asked, NEW s, NEW t, NEW more, PendingOK(p, s, asked), PendingOK(p, t, more),
         asked \subseteq more
  PROVE  PendingOK(p, s \o t, more)
PROOF
<1> DEFINE S == ToSet(s) \cup ToSet(t)
<1>1. s \in Seq(S) /\ t \in Seq(S)
  BY SeqMonotonic DEF PendingOK, IsSeq
<1>2. s \o t \in Seq(S)
  BY <1>1, ConcatProperties
<1>3. IsSeq(s \o t) /\ ToSet(s \o t) \subseteq S
  BY <1>2, SeqIsSeq, Zenon
<1>4. \A m \in S : RequestOK(p, m, more)
  BY DEF PendingOK, RequestOK
<1> QED
  BY <1>3, <1>4 DEF PendingOK

LEMMA LessPending ==
  ASSUME NEW p, NEW asked, NEW s, PendingOK(p, s, asked), s # <<>>
  PROVE  PendingOK(p, Tail(s), asked) /\ RequestOK(p, Head(s), asked)
PROOF
<1>1. Tail(s) \in Seq(ToSet(s)) /\ Head(s) \in ToSet(s)
  BY HeadTailProperties DEF PendingOK, IsSeq
<1>2. IsSeq(Tail(s)) /\ ToSet(Tail(s)) \subseteq ToSet(s)
  BY <1>1, SeqIsSeq, Zenon
<1> QED
  BY <1>1, <1>2 DEF PendingOK

(* A chain request names a height of the peer's chain. *)
LEMMA ChainRequestOK ==
  ASSUME NEW p \in Peers, NEW ids, NEW asked
  PROVE  RequestOK(p, ChainRequest(p, ids), asked)
PROOF
<1> DEFINE n == Len(ChainOf(p))
           shared == {0} \cup {h \in 1..n - 1 : ChainOf(p)[h + 1] \in ToSet(main)}
           first == {h \in 0..n - 1 : ChainOf(p)[h + 1] \in ids}
           start == IF first # {} THEN CHOOSE h \in first : TRUE
                    ELSE CHOOSE h \in shared : \A g \in shared : g <= h
<1>1. n \in Nat
  <2>1. ChainOf(p) \in Seq(ToSet(ChainOf(p)))
    BY BlockSyncAssumption
  <2> QED BY <2>1, LenProperties
<1> HIDE DEF n
<1>2. (CHOOSE h \in shared : \A g \in shared : g <= h) \in shared
  <2>1. \A k \in shared : k \in Nat /\ k <= n
    BY <1>1
  <2>2. shared # {} /\ shared \subseteq Nat
    BY <2>1
  <2> HIDE DEF shared
  <2>3. \E m \in shared : \A k \in shared : k <= m
    BY <1>1, <2>1, <2>2, GreatestNat
  <2> QED
    BY <2>3
<1>3. first \subseteq Int /\ shared \subseteq Int
  BY <1>1
<1> HIDE DEF first, shared
<1>4. start \in Int
  BY <1>2, <1>3
<1>5. ChainRequest(p, ids) = [kind |-> "chain", blocks |-> <<>>, start |-> start]
  BY Zenon DEF ChainRequest, first, shared, n
<1> QED
  BY <1>4, <1>5 DEF RequestOK

(* skip_unneeded_hashes drops leading hashes. *)
LEMMA SkipKeeps ==
  ASSUME NEW c, NEW q, NEW check, ConnOK(c)
  PROVE  /\ ConnOK(SkipUnneeded(c, q, check))
         /\ SkipUnneeded(c, q, check).asked = c.asked
         /\ SkipUnneeded(c, q, check).last = c.last
PROOF
<1> DEFINE hashes == c.needed
           keep == {i \in DOMAIN hashes : ~(Have(hashes[i]) \/ (check /\ hashes[i] \in q.have))}
           skip == IF keep = {} THEN Len(hashes)
                   ELSE (CHOOSE i \in keep : \A j \in keep : i <= j) - 1
           known_ == IF keep = {} /\ hashes # <<>> THEN Last(hashes) ELSE c.lastKnown
<1>1. Len(hashes) \in Nat /\ DOMAIN hashes = 1..Len(hashes)
  BY SeqIsSeq DEF ConnOK, IsSeq
<1>2. skip \in Nat
  <2>1. CASE keep # {}
    <3>1. keep \subseteq Nat /\ keep \subseteq 1..Len(hashes)
      BY <1>1
    <3> HIDE DEF keep
    <3>2. \E m \in keep : \A k \in keep : m <= k
      BY <2>1, <3>1, LeastNat, Zenon
    <3> DEFINE m == CHOOSE i \in keep : \A j \in keep : i <= j
    <3>3. m \in keep
      BY <3>2
    <3>4. m \in 1..Len(hashes)
      BY <3>1, <3>3
    <3>5. skip = m - 1
      BY <2>1
    <3> HIDE DEF m, skip
    <3> QED
      BY <1>1, <3>4, <3>5
  <2> QED
    BY <1>1, <2>1
<1>3. IsSeq(SubSeq(hashes, skip + 1, Len(hashes)))
  <2> HIDE DEF skip
  <2>1. skip + 1 \in Int /\ skip + 1 >= 1
    BY <1>2
  <2> QED
    BY <2>1, PartOf, Zenon DEF ConnOK
<1>4. SkipUnneeded(c, q, check) = [c EXCEPT !.needed = SubSeq(c.needed, skip + 1, Len(c.needed)), !.lastKnown = known_]
  BY Zenon DEF SkipUnneeded, Have
<1> HIDE DEF skip, known_, hashes
<1> DEFINE b == [c EXCEPT !.needed = SubSeq(c.needed, skip + 1, Len(c.needed))]
<1>5. IsConn(b) /\ IsSeq(b.needed) /\ b.asked = c.asked /\ b.last = c.last
  <2>1. IsConn(c)
    BY DEF ConnOK
  <2>2. IsConn(b) /\ b.needed = SubSeq(c.needed, skip + 1, Len(c.needed)) /\ b.asked = c.asked /\ b.last = c.last
    BY <2>1, HashUpdates, Zenon
  <2> QED
    BY <1>3, <2>2 DEF hashes
<1> HIDE DEF b
<1>6. SameHashes([b EXCEPT !.lastKnown = known_], b)
  BY <1>5, ConnUpdates
<1>7. SkipUnneeded(c, q, check) = [b EXCEPT !.lastKnown = known_]
  BY <1>4 DEF b
<1> QED
  BY <1>5, <1>6, <1>7 DEF ConnOK, SameHashes

(* Hashes that are taken out leave a sequence. *)
LEMMA WithoutIsSeq == ASSUME NEW s, NEW S, IsSeq(s) PROVE IsSeq(Without(s, S))
PROOF
<1> DEFINE left == {i \in DOMAIN s : s[i] \notin S}
           nth(k) == CHOOSE i \in left : Cardinality({j \in left : j <= i}) = k
           n == Cardinality(left)
           w == [k \in 1..n |-> s[nth(k)]]
<1>1. n \in Nat
  <2>1. DOMAIN s = 1..Len(s) /\ Len(s) \in Nat
    BY SeqIsSeq DEF IsSeq
  <2>2. IsFiniteSet(1..Len(s)) /\ left \in SUBSET (1..Len(s))
    BY <2>1, FS_Interval
  <2> QED
    BY <2>2, FS_Subset, FS_CardinalityType
<1> HIDE DEF n, nth
<1>2. w \in [1..n -> {s[nth(k)] : k \in 1..n}]
  OBVIOUS
<1>3. w \in Seq({s[nth(k)] : k \in 1..n})
  BY <1>1, <1>2, SeqDef
<1>4. IsSeq(w)
  BY <1>3, SeqIsSeq, Zenon
<1>5. Without(s, S) = w
  BY Zenon DEF Without, n, nth
<1> QED
  BY <1>4, <1>5

(* The branch of request_missing_objects that asks for blocks, *)
LEMMA AskForOK ==
  ASSUME NEW p, NEW c, NEW q, NEW hashes, NEW e, ConnOK(c), SpansOK(q), IsSeq(hashes), hashes # <<>>, IsResult(e)
  PROVE  ResultOK(p, AskFor(c, q, hashes, e), c.asked)
PROOF
<1> DEFINE m == [kind |-> "objects", blocks |-> hashes, start |-> 0]
           d == [c EXCEPT !.asked = @ \cup ToSet(hashes), !.waiting = TRUE]
           r == AskFor(c, q, hashes, e)
<1>1. r.conn = d /\ r.queue = q /\ r.send = <<m>>
  BY DEF AskFor, IsResult
<1>2. ConnOK(d) /\ d.asked = c.asked \cup ToSet(hashes)
  <2> DEFINE more == c.asked \cup ToSet(hashes)
             b == [c EXCEPT !.asked = more]
  <2>0. IsConn(c)
    BY DEF ConnOK
  <2>2. d = [b EXCEPT !.waiting = TRUE]
    OBVIOUS
  <2> HIDE DEF more
  <2>1. IsConn(b) /\ b.needed = c.needed /\ b.asked = more /\ b.last = c.last
    BY <2>0, HashUpdates, Zenon
  <2> HIDE DEF b, d
  <2>3. SameHashes(d, b)
    BY <2>1, <2>2, ConnUpdates, Zenon
  <2> QED
    BY <2>1, <2>3 DEF ConnOK, SameHashes, more
<1> HIDE DEF d
<1>3. RequestOK(p, m, d.asked)
  BY <1>2 DEF RequestOK
<1> HIDE DEF m, r
<1>4. PendingOK(p, <<m>>, d.asked)
  BY <1>3, OnePending
<1>5. ResultOK(p, r, c.asked)
  BY <1>1, <1>2, <1>4 DEF ResultOK
<1> QED
  BY <1>5 DEF r

(* the one that asks for the chain or ends the synchronisation, *)
LEMMA AskOrRestOK ==
  ASSUME NEW p \in Peers, NEW c0, NEW q, NEW e, ConnOK(c0), SpansOK(q), IsResult(e), e.send = <<>>
  PROVE  ResultOK(p, AskOrRest(p, c0, q, e), c0.asked)
PROOF
<1> DEFINE c == [c0 EXCEPT !.needed = <<>>]
           r == AskOrRest(p, c0, q, e)
<1>1. IsSeq(<<>>)
  BY NothingPending DEF PendingOK
<1>2. ConnOK(c) /\ c.asked = c0.asked
  BY <1>1, HashUpdates DEF ConnOK
<1> HIDE DEF c
<1>3. PICK ids :
        \/ r = [e EXCEPT !.queue = q, !.conn = [c EXCEPT !.state = "standby", !.callbacks = @ + 1]]
        \/ r = [e EXCEPT !.queue = q, !.conn = [c EXCEPT !.waiting = TRUE], !.send = <<ChainRequest(p, ids)>>]
        \/ r = [e EXCEPT !.queue = q, !.conn = [c EXCEPT !.state = "normal"], !.synced = Reached(c, e.target)]
        \/ r = [e EXCEPT !.queue = q, !.conn = c, !.ok = FALSE]
  BY Zenon DEF AskOrRest, c
<1>4. \A a : PendingOK(p, <<ChainRequest(p, ids)>>, a) /\ PendingOK(p, <<>>, a)
  BY ChainRequestOK, OnePending, NothingPending
<1>5. /\ ConnOK(r.conn) /\ r.conn.asked = c.asked /\ r.queue = q
      /\ r.send = <<>> \/ r.send = <<ChainRequest(p, ids)>>
  <2> HIDE DEF r
  <2>1. SameHashes([c EXCEPT !.state = "standby", !.callbacks = @ + 1], c)
    <3> DEFINE b == [c EXCEPT !.state = "standby"]
    <3>1. SameHashes(b, c)
      BY <1>2, ConnUpdates, Zenon DEF ConnOK
    <3>2. [c EXCEPT !.state = "standby", !.callbacks = @ + 1] = [b EXCEPT !.callbacks = c.callbacks + 1]
      OBVIOUS
    <3> HIDE DEF b
    <3>3. SameHashes([b EXCEPT !.callbacks = c.callbacks + 1], b)
      BY <3>1, ConnUpdates, Zenon DEF SameHashes
    <3> QED
      BY <3>1, <3>2, <3>3, Zenon DEF SameHashes
  <2>2. SameHashes([c EXCEPT !.waiting = TRUE], c) /\ SameHashes([c EXCEPT !.state = "normal"], c) /\ SameHashes(c, c)
    BY <1>2, ConnUpdates, Zenon DEF ConnOK, SameHashes
  <2>3. /\ r.queue = q
        /\ r.send = <<>> \/ r.send = <<ChainRequest(p, ids)>>
        /\ r.conn \in {[c EXCEPT !.state = "standby", !.callbacks = @ + 1], [c EXCEPT !.waiting = TRUE],
                       [c EXCEPT !.state = "normal"], c}
    BY <1>3 DEF IsResult
  <2>4. SameHashes(r.conn, c)
    BY <2>1, <2>2, <2>3, Zenon
  <2> QED
    BY <1>2, <2>3, <2>4 DEF ConnOK, SameHashes
<1> HIDE DEF r
<1>6. ResultOK(p, r, c0.asked)
  BY <1>2, <1>4, <1>5 DEF ResultOK
<1> QED
  BY <1>6 DEF r

(* A subsequence is a sequence. *)
LEMMA CutIsSeq == ASSUME NEW s, NEW m \in Int, NEW n \in Int PROVE IsSeq(SubSeq(s, m, n))
PROOF
<1> DEFINE S == {s[i] : i \in m..n}
<1>1. SubSeq(s, m, n) \in Seq(S)
  BY SubSeqProperties
<1> QED
  BY <1>1, SeqIsSeq, Zenon

(* A context whose hashes are replaced by others. *)
LEMMA NeededUpdate ==
  ASSUME NEW c, ConnOK(c), NEW s, IsSeq(s)
  PROVE  ConnOK([c EXCEPT !.needed = s]) /\ [c EXCEPT !.needed = s].asked = c.asked
PROOF
<1> DEFINE d == [c EXCEPT !.needed = s]
<1>1. IsConn(c)
  BY DEF ConnOK
<1>2. IsConn(d) /\ d.needed = s /\ d.asked = c.asked /\ d.last = c.last
  BY <1>1, HashUpdates, Zenon
<1> HIDE DEF d
<1>3. ConnOK(d) /\ d.asked = c.asked
  BY <1>2 DEF ConnOK
<1> QED
  BY <1>3 DEF d

(* The span that is asked for again has hashes. *)
LEMMA ScheduledHasHashes ==
  ASSUME NEW q, SpansOK(q), NextSpanIfScheduled(q) # NoSpan
  PROVE  IsSeq(NextSpanIfScheduled(q).hashes) /\ NextSpanIfScheduled(q).hashes # <<>>
PROOF
<1>1. NextSpanIfScheduled(q) = First(q.spans) /\ ~Filled(First(q.spans))
  BY DEF NextSpanIfScheduled
<1>2. q.spans # {}
  BY <1>1 DEF First
<1>3. First(q.spans) \in q.spans
  BY <1>2, FirstIsIn DEF SpansOK
<1> QED
  BY <1>1, <1>3 DEF SpansOK

(* the one that reserves a span, *)
LEMMA DownloadOK ==
  ASSUME NEW p \in Peers, NEW c, NEW q, NEW force, NEW e, ConnOK(c), SpansOK(q), IsResult(e), e.send = <<>>
  PROVE  ResultOK(p, Download(p, c, q, force, e), c.asked)
PROOF
<1> DEFINE again == NextSpanIfScheduled(q)
           d == SkipUnneeded(c, q, FALSE)
           r == ReserveSpan(q, d.last, SYNC_SIZE, p, d.needed)
           skip == r.span.start - (d.last - Len(d.needed) + 1)
           taken == SubSeq(d.needed, skip + r.span.n + 1, Len(d.needed))
           left == Without(d.needed, ToSet(again.hashes))
           w == Download(p, c, q, force, e)
<1>1. ConnOK(d) /\ d.asked = c.asked
  BY SkipKeeps
<1> HIDE DEF d
<1>2. d.last \in Int /\ IsSeq(d.needed) /\ Len(d.needed) \in Nat
  <2>1. d.last \in Int /\ IsSeq(d.needed)
    BY <1>1 DEF ConnOK
  <2>2. Len(d.needed) \in Nat
    BY <2>1, LenProperties DEF IsSeq
  <2> QED
    BY <2>1, <2>2
<1>3. SYNC_SIZE \in Nat
  BY BlockSyncAssumption
<1>4. /\ SpansOK(r.queue)
      /\ r.span # NoSpan => /\ r.span.start \in Int /\ r.span.n \in Nat
                            /\ IsSeq(r.span.hashes) /\ r.span.hashes # <<>>
  BY <1>2, <1>3, ReserveKeepsSpans, Zenon
<1> HIDE DEF r
<1>5. again # NoSpan => IsSeq(again.hashes) /\ again.hashes # <<>>
  BY ScheduledHasHashes
<1> HIDE DEF again
<1>6. \/ again # NoSpan /\ w = AskFor(c, q, again.hashes, e)
      \/ w = AskOrRest(p, [c EXCEPT !.last = 0], q, e)
      \/ r.span # NoSpan /\ w = AskFor([d EXCEPT !.needed = taken], r.queue, r.span.hashes, e)
      \/ again # NoSpan /\ w = AskFor([d EXCEPT !.needed = left], q, again.hashes, e)
      \/ w = AskOrRest(p, d, q, e)
  BY Zenon DEF Download, again, d, r
<1>7. CASE again # NoSpan /\ w = AskFor(c, q, again.hashes, e)
  BY <1>5, <1>7, AskForOK
<1>8. CASE w = AskOrRest(p, [c EXCEPT !.last = 0], q, e)
  <2> DEFINE z == [c EXCEPT !.last = 0]
  <2>1. IsConn(c) /\ IsSeq(c.needed)
    BY DEF ConnOK
  <2>2. IsConn(z) /\ z.needed = c.needed /\ z.asked = c.asked /\ z.last = 0
    BY <2>1, HashUpdates, Zenon
  <2>3. w = AskOrRest(p, z, q, e)
    BY <1>8
  <2> HIDE DEF z, w
  <2>4. ConnOK(z)
    BY <2>1, <2>2 DEF ConnOK
  <2>5. ResultOK(p, w, c.asked)
    BY <2>2, <2>3, <2>4, AskOrRestOK
  <2> QED
    BY <2>5 DEF w
<1>9. CASE r.span # NoSpan /\ w = AskFor([d EXCEPT !.needed = taken], r.queue, r.span.hashes, e)
  <2> DEFINE x == [d EXCEPT !.needed = taken]
  <2>1. skip + r.span.n + 1 \in Int
    BY <1>2, <1>4, <1>9
  <2> HIDE DEF skip
  <2>2. IsSeq(taken)
    BY <1>2, <2>1, CutIsSeq
  <2> HIDE DEF taken
  <2>3. ConnOK(x) /\ x.asked = c.asked
    BY <1>1, <2>2, NeededUpdate, Zenon
  <2>4. w = AskFor(x, r.queue, r.span.hashes, e)
    BY <1>9
  <2> HIDE DEF x, w
  <2>5. ResultOK(p, w, c.asked)
    BY <1>4, <1>9, <2>3, <2>4, AskForOK
  <2> QED
    BY <2>5 DEF w
<1>10. CASE again # NoSpan /\ w = AskFor([d EXCEPT !.needed = left], q, again.hashes, e)
  <2> DEFINE x == [d EXCEPT !.needed = left]
  <2>1. IsSeq(left)
    BY <1>2, WithoutIsSeq
  <2> HIDE DEF left
  <2>2. ConnOK(x) /\ x.asked = c.asked
    BY <1>1, <2>1, NeededUpdate, Zenon
  <2>3. w = AskFor(x, q, again.hashes, e)
    BY <1>10
  <2> HIDE DEF x, w
  <2>4. ResultOK(p, w, c.asked)
    BY <1>5, <1>10, <2>2, <2>3, AskForOK
  <2> QED
    BY <2>4 DEF w
<1>11. CASE w = AskOrRest(p, d, q, e)
  <2> HIDE DEF w
  <2>1. ResultOK(p, w, c.asked)
    BY <1>1, <1>11, AskOrRestOK
  <2> QED
    BY <2>1 DEF w
<1> QED
  BY <1>6, <1>7, <1>8, <1>9, <1>10, <1>11

(* and so request_missing_objects as a whole. *)
LEMMA RequestMissingOK ==
  ASSUME SpansOK(queue), NEW p \in Peers, NEW c0, NEW force, NEW tgt, NEW late, NEW wedged, ConnOK(c0)
  PROVE  ResultOK(p, RequestMissingObjects(p, c0, force, tgt, late, wedged), c0.asked)
PROOF
<1> DEFINE q == FlushStaleSpans(queue, Live)
           c == SkipUnneeded(c0, q, TRUE)
           e == [conn |-> c0, queue |-> q, send |-> <<>>, synced |-> FALSE, ok |-> TRUE, target |-> tgt]
           synchronizing == [c EXCEPT !.state = "synchronizing"]
           standby == [c EXCEPT !.state = "standby"]
           called == [c EXCEPT !.state = "standby", !.callbacks = @ + 1]
           w == RequestMissingObjects(p, c0, force, tgt, late, wedged)
<1>1. SpansOK(q)
  BY FlushKeepsSpans
<1> HIDE DEF q
<1>2. ConnOK(c) /\ c.asked = c0.asked
  BY SkipKeeps
<1> HIDE DEF c
<1>3. IsResult(e) /\ e.send = <<>>
  BY DEF IsResult
<1>4. /\ SameHashes(synchronizing, c) /\ SameHashes(standby, c) /\ SameHashes(called, c)
  <2>1. SameHashes(synchronizing, c) /\ SameHashes(standby, c)
    BY <1>2, ConnUpdates, Zenon DEF ConnOK
  <2>2. called = [standby EXCEPT !.callbacks = c.callbacks + 1]
    OBVIOUS
  <2> HIDE DEF standby, called
  <2>3. SameHashes([standby EXCEPT !.callbacks = c.callbacks + 1], standby)
    BY <2>1, ConnUpdates, Zenon DEF SameHashes
  <2>4. SameHashes(called, c)
    BY <2>1, <2>2, <2>3, Zenon DEF SameHashes
  <2> QED
    BY <2>1, <2>4
<1>5. ASSUME NEW d, SameHashes(d, c) PROVE ConnOK(d) /\ d.asked = c0.asked
  BY <1>2, <1>5 DEF SameHashes, ConnOK
<1> DEFINE needed == NextNeededHeight(q, Top)
           nextBlock == IF c.needed = <<>> THEN needed ELSE c.last - Len(c.needed) + 1
           near(h) == h < Top + BLOCK_QUEUE_FORCE_DOWNLOAD_NEAR_BLOCKS
           main_ == near(nextBlock) \/ near(needed)
           proceed == main_ \/ NumFilledSpans(q) < BLOCK_QUEUE_NSPANS_THRESHOLD
           forced == force \/ (main_ /\ ShouldDownloadNextSpan(c, q, late))
           going == IF force THEN c0 ELSE synchronizing
           ready == Filled(SpanAt(q, Top))
<1>6. w = IF forced \/ proceed
          THEN IF going.needed # <<>> \/ forced THEN Download(p, going, q, forced, e)
               ELSE AskOrRest(p, going, q, e)
          ELSE IF holder = NoHash /\ ready THEN [e EXCEPT !.conn = called]
          ELSE IF holder = NoHash /\ wedged THEN [e EXCEPT !.conn = c, !.ok = FALSE]
          ELSE [e EXCEPT !.conn = standby]
  BY DEF RequestMissingObjects, q, c
<1>7. going = c0 \/ going = synchronizing
  OBVIOUS
<1> HIDE DEF w, going, forced, proceed, ready, synchronizing, standby, called
<1>8. ConnOK(going) /\ going.asked = c0.asked
  BY <1>4, <1>5, <1>7
<1>9. CASE w = Download(p, going, q, forced, e) \/ w = AskOrRest(p, going, q, e)
  <2> HIDE DEF e
  <2>1. ResultOK(p, w, c0.asked)
    BY <1>1, <1>3, <1>8, <1>9, DownloadOK, AskOrRestOK
  <2> QED
    BY <2>1 DEF w
<1>10. CASE \/ w = [e EXCEPT !.conn = called] \/ w = [e EXCEPT !.conn = c, !.ok = FALSE]
            \/ w = [e EXCEPT !.conn = standby]
  <2>1. w.conn \in {called, c, standby} /\ w.queue = q /\ w.send = <<>>
    BY <1>10
  <2>2. ConnOK(w.conn) /\ w.conn.asked = c0.asked
    BY <1>2, <1>4, <1>5, <2>1
  <2>3. PendingOK(p, <<>>, w.conn.asked)
    BY NothingPending
  <2>4. ResultOK(p, w, c0.asked)
    BY <1>1, <2>1, <2>2, <2>3 DEF ResultOK
  <2> QED
    BY <2>4 DEF w
<1> QED
  <2> HIDE DEF e
  <2> QED BY <1>6, <1>9, <1>10
=============================================================================
