------------------------- MODULE BlockDownloadProofs -------------------------
(***************************************************************************)
(* Every hash that block_queue counts as downloaded belongs to a span that *)
(* is downloaded, whatever the peers, their chains, the span size, the     *)
(* bounds and the order of the handlers.                                   *)
(***************************************************************************)
EXTENDS BlockSyncProofs

(* What keeps the hashes keeps a context well formed. *)
LEMMA SameOK ==
  ASSUME NEW c, NEW d, ConnOK(c), SameHashes(d, c)
  PROVE  ConnOK(d) /\ d.asked = c.asked
  BY DEF ConnOK, SameHashes

(* Two changes that keep the hashes, one after the other. *)
LEMMA SameSame ==
  ASSUME NEW b, NEW c, NEW d, SameHashes(b, c), SameHashes(d, b)
  PROVE  SameHashes(d, c)
  BY DEF SameHashes

(* The updates of the handlers that keep the hashes. *)
LEMMA HandlerUpdates ==
  ASSUME NEW c, ConnOK(c), NEW u, NEW v, NEW w
  PROVE  /\ SameHashes(c, c)
         /\ SameHashes([c EXCEPT !.pc = u], c)
         /\ SameHashes([c EXCEPT !.callbacks = u], c)
         /\ SameHashes([c EXCEPT !.live = u], c)
         /\ SameHashes(Closing(c), c)
         /\ SameHashes([c EXCEPT !.up = u, !.live = v], c)
         /\ SameHashes([c EXCEPT !.pc = u, !.force = v], c)
         /\ SameHashes([c EXCEPT !.remote = u, !.state = v], c)
         /\ SameHashes([c EXCEPT !.remote = u, !.state = v, !.callbacks = w], c)
         /\ SameHashes([c EXCEPT !.waiting = u, !.remote = v], c)
         /\ SameHashes([c EXCEPT !.waiting = u, !.state = v, !.callbacks = w], c)
         /\ SameHashes([c EXCEPT !.callbacks = u, !.state = v, !.pc = w], c)
         /\ SameHashes([c EXCEPT !.pc = u, !.force = v, !.callbacks = w], c)
PROOF
<1>1. SameHashes(c, c) /\ IsConn(c)
  BY DEF SameHashes, ConnOK
<1>2. ASSUME NEW b, SameHashes(b, c), NEW x
      PROVE  /\ SameHashes([b EXCEPT !.up = x], c) /\ SameHashes([b EXCEPT !.live = x], c)
             /\ SameHashes([b EXCEPT !.state = x], c) /\ SameHashes([b EXCEPT !.remote = x], c)
             /\ SameHashes([b EXCEPT !.waiting = x], c) /\ SameHashes([b EXCEPT !.lastKnown = x], c)
             /\ SameHashes([b EXCEPT !.callbacks = x], c) /\ SameHashes([b EXCEPT !.pc = x], c)
             /\ SameHashes([b EXCEPT !.force = x], c)
  <2>1. IsConn(b)
    BY <1>2 DEF SameHashes
  <2>2. /\ SameHashes([b EXCEPT !.up = x], b) /\ SameHashes([b EXCEPT !.live = x], b)
        /\ SameHashes([b EXCEPT !.state = x], b) /\ SameHashes([b EXCEPT !.remote = x], b)
        /\ SameHashes([b EXCEPT !.waiting = x], b) /\ SameHashes([b EXCEPT !.lastKnown = x], b)
        /\ SameHashes([b EXCEPT !.callbacks = x], b) /\ SameHashes([b EXCEPT !.pc = x], b)
        /\ SameHashes([b EXCEPT !.force = x], b)
    BY <2>1, ConnUpdates, Zenon
  <2> QED
    BY <1>2, <2>2, SameSame, Zenon
<1>3. /\ SameHashes([c EXCEPT !.pc = u], c) /\ SameHashes([c EXCEPT !.callbacks = u], c)
      /\ SameHashes([c EXCEPT !.live = u], c) /\ SameHashes([c EXCEPT !.up = u], c)
      /\ SameHashes([c EXCEPT !.remote = u], c) /\ SameHashes([c EXCEPT !.waiting = u], c)
  BY <1>1, <1>2, Zenon
<1>4. SameHashes(Closing(c), c)
  <2> DEFINE x == IF c.up = "open" THEN "closing" ELSE c.up
             b == [c EXCEPT !.up = x]
  <2>1. Closing(c) = [b EXCEPT !.callbacks = 0]
    BY DEF Closing
  <2> HIDE DEF x
  <2>2. SameHashes(b, c)
    BY <1>1, ConnUpdates, Zenon
  <2> HIDE DEF b
  <2>3. SameHashes([b EXCEPT !.callbacks = 0], c)
    BY <1>2, <2>2, Zenon
  <2> QED
    BY <2>1, <2>3, Zenon
<1>5. /\ SameHashes([c EXCEPT !.up = u, !.live = v], c)
      /\ SameHashes([c EXCEPT !.pc = u, !.force = v], c)
      /\ SameHashes([c EXCEPT !.remote = u, !.state = v], c)
      /\ SameHashes([c EXCEPT !.waiting = u, !.remote = v], c)
      /\ SameHashes([c EXCEPT !.waiting = u, !.state = v], c)
      /\ SameHashes([c EXCEPT !.callbacks = u, !.state = v], c)
  BY <1>2, <1>3, Zenon
<1>6. /\ SameHashes([c EXCEPT !.remote = u, !.state = v, !.callbacks = w], c)
      /\ SameHashes([c EXCEPT !.waiting = u, !.state = v, !.callbacks = w], c)
      /\ SameHashes([c EXCEPT !.callbacks = u, !.state = v, !.pc = w], c)
      /\ SameHashes([c EXCEPT !.pc = u, !.force = v, !.callbacks = w], c)
  BY <1>2, <1>5, Zenon
<1> QED
  BY <1>1, <1>3, <1>4, <1>5, <1>6, Zenon

(* Requests for some blocks, and a queue that carries what it counts.      *)
DownloadInv ==
    /\ SpansOK(queue)
    /\ conn = [p \in Peers |-> conn[p]] /\ out = [p \in Peers |-> out[p]]
    /\ \A p \in Peers : ConnOK(conn[p]) /\ PendingOK(p, out[p], conn[p].asked)

(* A step that changes one connection and what it is to be asked. *)
LEMMA OneConnection ==
  ASSUME DownloadInv, NEW p \in Peers, NEW c, NEW s, ConnOK(c), PendingOK(p, s, c.asked), SpansOK(queue)',
         conn' = [conn EXCEPT ![p] = c], out' = [out EXCEPT ![p] = s]
  PROVE  DownloadInv'
PROOF
<1>1. conn' = [o \in Peers |-> conn'[o]] /\ out' = [o \in Peers |-> out'[o]]
  BY DEF DownloadInv
<1>2. ASSUME NEW o \in Peers PROVE ConnOK(conn'[o]) /\ PendingOK(o, out'[o], conn'[o].asked)
  <2>1. CASE o = p
    <3>1. conn'[o] = c /\ out'[o] = s
      BY <2>1 DEF DownloadInv
    <3> QED BY <2>1, <3>1
  <2>2. CASE o # p
    <3>1. conn'[o] = conn[o] /\ out'[o] = out[o]
      BY <2>2 DEF DownloadInv
    <3> QED BY <3>1 DEF DownloadInv
  <2> QED BY <2>1, <2>2
<1> QED
  BY <1>1, <1>2 DEF DownloadInv, ConnOK, IsConn, PendingOK, RequestOK, IsSeq

(* A step that keeps the hashes of one connection and, perhaps, drops what *)
(* it is to be asked.                                                      *)
LEMMA SameConnection ==
  ASSUME DownloadInv, NEW p \in Peers, NEW c, SameHashes(c, conn[p]), SpansOK(queue)',
         conn' = [conn EXCEPT ![p] = c], out' = out \/ out' = [out EXCEPT ![p] = <<>>]
  PROVE  DownloadInv'
PROOF
<1>1. ConnOK(conn[p]) /\ PendingOK(p, out[p], conn[p].asked)
  BY DEF DownloadInv
<1>2. ConnOK(c) /\ c.asked = conn[p].asked
  BY <1>1, SameOK
<1>3. PICK s : out' = [out EXCEPT ![p] = s] /\ (s = out[p] \/ s = <<>>)
  BY DEF DownloadInv
<1>4. PendingOK(p, s, c.asked)
  BY <1>1, <1>2, <1>3, NothingPending
<1> QED
  BY <1>2, <1>3, <1>4, OneConnection

(* A handler that ends in request_missing_objects. *)
LEMMA EndDownload ==
  ASSUME DownloadInv, NEW p \in Peers, NEW c, NEW pending, NEW raised, ConnOK(c), PendingOK(p, pending, c.asked),
         EndWith(p, c, pending, raised)
  PROVE  DownloadInv'
PROOF
<1>1. PICK late, wedged \in BOOLEAN :
        LET r == RequestMissingObjects(p, c, c.force, target, late, wedged)
            d == [r.conn EXCEPT !.pc = "idle", !.force = FALSE,
                                !.callbacks = IF @ > MaxCallbacks THEN MaxCallbacks ELSE @]
        IN \/ /\ conn' = [conn EXCEPT ![p] = IF Open(p) THEN d ELSE Closing(d)]
              /\ queue' = r.queue
              /\ out' = [out EXCEPT ![p] = IF Open(p) THEN pending \o r.send ELSE <<>>]
           \/ /\ conn' = [conn EXCEPT ![p] = Closing(d)]
              /\ queue' = FlushSpans(r.queue, p, FALSE) /\ out' = [out EXCEPT ![p] = <<>>]
  BY Zenon DEF EndWith, Dropped
<1> DEFINE r == RequestMissingObjects(p, c, c.force, target, late, wedged)
           n == IF r.conn.callbacks > MaxCallbacks THEN MaxCallbacks ELSE r.conn.callbacks
           d == [r.conn EXCEPT !.pc = "idle", !.force = FALSE, !.callbacks = n]
<1>2. /\ ConnOK(r.conn) /\ c.asked \subseteq r.conn.asked /\ SpansOK(r.queue)
      /\ PendingOK(p, r.send, r.conn.asked)
  <2>1. SpansOK(queue)
    BY DEF DownloadInv
  <2>2. ResultOK(p, r, c.asked)
    BY <2>1, RequestMissingOK
  <2> QED
    BY <2>2 DEF ResultOK
<1>3. \/ /\ conn' = [conn EXCEPT ![p] = IF Open(p) THEN d ELSE Closing(d)]
         /\ queue' = r.queue
         /\ out' = [out EXCEPT ![p] = IF Open(p) THEN pending \o r.send ELSE <<>>]
      \/ /\ conn' = [conn EXCEPT ![p] = Closing(d)]
         /\ queue' = FlushSpans(r.queue, p, FALSE) /\ out' = [out EXCEPT ![p] = <<>>]
  <2>1. d = [r.conn EXCEPT !.pc = "idle", !.force = FALSE,
                           !.callbacks = IF @ > MaxCallbacks THEN MaxCallbacks ELSE @]
    <3> HIDE DEF r
    <3> QED BY <1>2 DEF ConnOK, IsConn
  <2> HIDE DEF d
  <2> QED BY <1>1, <2>1, Zenon
<1> HIDE DEF r, n
<1>4. SameHashes(d, r.conn)
  BY <1>2, HandlerUpdates, Zenon
<1> HIDE DEF d
<1>5. ConnOK(d) /\ d.asked = r.conn.asked
  BY <1>2, <1>4, SameOK
<1>6. ConnOK(Closing(d)) /\ Closing(d).asked = r.conn.asked
  <2>1. SameHashes(Closing(d), d)
    BY <1>5, HandlerUpdates, Zenon
  <2> QED
    BY <1>5, <2>1, SameOK, Zenon
<1>7. PendingOK(p, pending \o r.send, d.asked)
  <2>1. PendingOK(p, pending \o r.send, r.conn.asked)
    BY <1>2, MorePending, Zenon
  <2> QED
    BY <1>5, <2>1
<1>8. SpansOK(queue')
  <2>1. SpansOK(FlushSpans(r.queue, p, FALSE))
    BY <1>2, FlushKeepsSpans, Zenon
  <2>2. queue' = r.queue \/ queue' = FlushSpans(r.queue, p, FALSE)
    BY <1>3, Zenon
  <2> QED
    BY <1>2, <2>1, <2>2
<1>9. SpansOK(queue)'
  BY <1>8 DEF SpansOK, QueueOK, IsSpan, Carried, Filled, IsSeq
<1>10. PICK x, s : /\ conn' = [conn EXCEPT ![p] = x] /\ out' = [out EXCEPT ![p] = s]
                   /\ x = d \/ x = Closing(d)
                   /\ s = <<>> \/ (x = d /\ s = pending \o r.send)
  BY <1>3, Zenon
<1>11. ConnOK(x) /\ PendingOK(p, s, x.asked)
  BY <1>5, <1>6, <1>7, <1>10, NothingPending
<1> QED
  BY <1>9, <1>10, <1>11, OneConnection, Zenon

(* SpansOK of the next queue, in the form of the next state. *)
LEMMA SpansPrimed == ASSUME SpansOK(queue') PROVE SpansOK(queue)'
  BY DEF SpansOK, QueueOK, IsSpan, Carried, Filled, IsSeq

(* on_callback: a chain request goes out, the hashes that were left go. *)
LEMMA CallbackDownload == ASSUME DownloadInv, NEW p \in Peers, Callback(p) PROVE DownloadInv'
PROOF
<1> DEFINE n == conn[p].callbacks - 1
           c == [conn[p] EXCEPT !.callbacks = n]
           m == ChainRequest(p, {})
<1>1. ConnOK(conn[p]) /\ PendingOK(p, out[p], conn[p].asked)
  BY DEF DownloadInv
<1>2. SpansOK(queue)'
  <2>1. queue' = queue
    BY Zenon DEF Callback
  <2>2. SpansOK(queue')
    BY <2>1 DEF DownloadInv
  <2> QED BY <2>2, SpansPrimed
<1>3. \/ /\ conn' = [conn EXCEPT ![p] = [c EXCEPT !.needed = <<>>]]
         /\ out' = [out EXCEPT ![p] = Append(out[p], m)]
      \/ conn' = [conn EXCEPT ![p] = [c EXCEPT !.state = "synchronizing", !.pc = "try"]] /\ out' = out
      \/ conn' = [conn EXCEPT ![p] = c] /\ out' = out
  <2>1. c = [conn[p] EXCEPT !.callbacks = @ - 1]
    OBVIOUS
  <2>2. Open(p)
    BY Zenon DEF Callback
  <2>3. Send(p, m) => out' = [out EXCEPT ![p] = Append(out[p], m)]
    BY <1>1, <2>2 DEF Send, DownloadInv
  <2> HIDE DEF c, m
  <2> QED BY <2>1, <2>3, Zenon DEF Callback, m
<1>4. CASE conn' = [conn EXCEPT ![p] = [c EXCEPT !.state = "synchronizing", !.pc = "try"]] /\ out' = out
  <2> DEFINE d == [conn[p] EXCEPT !.callbacks = n, !.state = "synchronizing", !.pc = "try"]
  <2>1. conn' = [conn EXCEPT ![p] = d]
    BY <1>4
  <2> HIDE DEF n
  <2>2. SameHashes(d, conn[p])
    BY <1>1, HandlerUpdates, Zenon
  <2> HIDE DEF d
  <2> QED BY <1>2, <1>4, <2>1, <2>2, SameConnection, Zenon
<1>5. CASE conn' = [conn EXCEPT ![p] = c] /\ out' = out
  <2> HIDE DEF n
  <2>1. SameHashes(c, conn[p])
    BY <1>1, HandlerUpdates, Zenon
  <2> QED BY <1>2, <1>5, <2>1, SameConnection, Zenon
<1>6. CASE /\ conn' = [conn EXCEPT ![p] = [c EXCEPT !.needed = <<>>]]
           /\ out' = [out EXCEPT ![p] = Append(out[p], m)]
  <2> DEFINE d == [c EXCEPT !.needed = <<>>]
  <2> HIDE DEF n
  <2>1. SameHashes(c, conn[p])
    BY <1>1, HandlerUpdates, Zenon
  <2> HIDE DEF c
  <2>2. ConnOK(c) /\ c.asked = conn[p].asked
    BY <1>1, <2>1, SameOK, Zenon
  <2>3. IsSeq(<<>>)
    BY NothingPending DEF PendingOK
  <2>4. ConnOK(d) /\ d.asked = conn[p].asked
    BY <2>2, <2>3, NeededUpdate, Zenon
  <2> HIDE DEF d
  <2>5. PendingOK(p, <<m>>, d.asked)
    BY ChainRequestOK, OnePending
  <2>6. PendingOK(p, out[p] \o <<m>>, d.asked)
    BY <1>1, <2>4, <2>5, MorePending
  <2>7. Append(out[p], m) = out[p] \o <<m>>
    <3>1. out[p] \in Seq(ToSet(out[p]) \cup {m})
      BY <1>1, SeqMonotonic DEF PendingOK, IsSeq
    <3> QED BY <3>1, AppendIsConcat
  <2>8. conn' = [conn EXCEPT ![p] = d]
    BY <1>6 DEF d
  <2> HIDE DEF m
  <2> QED BY <1>2, <1>6, <2>4, <2>6, <2>7, <2>8, OneConnection, Zenon
<1> QED
  <2> HIDE DEF c, m
  <2> QED BY <1>3, <1>4, <1>5, <1>6, Zenon

(* handle_response_chain_entry: the hashes that the peer sent are left.     *)
LEMMA ChainEntryDownload == ASSUME DownloadInv, NEW p \in Peers, HandleChainEntry(p) PROVE DownloadInv'
PROOF
<1> DEFINE m == Head(out[p])
           chain == ChainOf(p)
           end == IF m.start + BLOCKS_IDS_SYNCHRONIZING_DEFAULT_COUNT < Len(chain)
                  THEN m.start + BLOCKS_IDS_SYNCHRONIZING_DEFAULT_COUNT ELSE Len(chain)
           ids == SubSeq(chain, m.start + 1, end)
           a == [conn[p] EXCEPT !.waiting = FALSE, !.remote = Len(chain)]
           b == [a EXCEPT !.last = end - 1]
           c == [b EXCEPT !.needed = ids]
<1>1. ConnOK(conn[p]) /\ PendingOK(p, out[p], conn[p].asked) /\ out[p] # <<>>
  BY Zenon DEF DownloadInv, HandleChainEntry
<1>2. RequestOK(p, m, conn[p].asked) /\ PendingOK(p, Tail(out[p]), conn[p].asked)
  BY <1>1, LessPending
<1>3. m.start \in Int /\ Len(chain) \in Nat
  <2>1. m.start \in Int
    BY <1>2 DEF RequestOK
  <2>2. chain \in Seq(ToSet(chain))
    BY BlockSyncAssumption
  <2> QED BY <2>1, <2>2, LenProperties
<1> HIDE DEF m, chain
<1>4. end \in Int
  BY <1>3, BlockSyncAssumption
<1> HIDE DEF end
<1>5. IsSeq(ids)
  BY <1>3, <1>4, CutIsSeq
<1>6. \E raised : EndWith(p, c, Tail(out[p]), raised)
  BY Zenon DEF HandleChainEntry, m, chain, end
<1> HIDE DEF ids
<1>7. ConnOK(a) /\ a.asked = conn[p].asked
  <2>1. SameHashes(a, conn[p])
    BY <1>1, HandlerUpdates, Zenon
  <2> QED BY <1>1, <2>1, SameOK, Zenon
<1> HIDE DEF a
<1>8. ConnOK(b) /\ b.asked = conn[p].asked
  <2> DEFINE x == end - 1
  <2>1. IsConn(a) /\ IsSeq(a.needed) /\ x \in Int
    BY <1>4, <1>7 DEF ConnOK
  <2>2. b = [a EXCEPT !.last = x]
    OBVIOUS
  <2> HIDE DEF x, b
  <2>3. IsConn(b) /\ b.needed = a.needed /\ b.asked = a.asked /\ b.last = x
    BY <2>1, <2>2, HashUpdates, Zenon
  <2> QED BY <1>7, <2>1, <2>3 DEF ConnOK
<1> HIDE DEF b
<1>9. ConnOK(c) /\ c.asked = conn[p].asked
  BY <1>5, <1>8, NeededUpdate, Zenon
<1> HIDE DEF c
<1> QED
  BY <1>2, <1>6, <1>9, EndDownload

(* handle_response_get_objects: the answer that is kept has blocks of the  *)
(* peer's chain, and so have those to requests that were sent again.       *)
LEMMA ObjectsDownload == ASSUME DownloadInv, NEW p \in Peers, HandleObjects(p) PROVE DownloadInv'
PROOF
<1> DEFINE m == Head(out[p])
           sent == ToSet(m.blocks) \cap ToSet(ChainOf(p))
           n == Len(ChainOf(p))
           c == [conn[p] EXCEPT !.waiting = FALSE, !.remote = n]
           l == Last(m.blocks)
           d == [c EXCEPT !.asked = {}]
           e == [d EXCEPT !.lastKnown = l]
           f == [e EXCEPT !.pc = "try"]
<1>1. ConnOK(conn[p]) /\ PendingOK(p, out[p], conn[p].asked) /\ out[p] # <<>> /\ m.kind = "objects"
  BY Zenon DEF DownloadInv, HandleObjects
<1>2. RequestOK(p, m, conn[p].asked) /\ PendingOK(p, Tail(out[p]), conn[p].asked)
  BY <1>1, LessPending
<1>3. \/ conn' = [conn EXCEPT ![p] = Closing(c)] /\ queue' = FlushSpans(queue, p, FALSE) /\ out' = [out EXCEPT ![p] = <<>>]
      \/ /\ sent = conn[p].asked /\ conn' = [conn EXCEPT ![p] = f]
         /\ queue' = AddFilled(queue, Height(m.blocks[1]), m.blocks, p)
         /\ out' = [out EXCEPT ![p] = Tail(out[p])]
  BY Zenon DEF HandleObjects, Dropped
<1> HIDE DEF m, n
<1>4. ConnOK(c) /\ c.asked = conn[p].asked /\ SameHashes(c, conn[p])
  <2>1. SameHashes(c, conn[p])
    BY <1>1, HandlerUpdates, Zenon
  <2> QED BY <1>1, <2>1, SameOK, Zenon
<1> HIDE DEF c
<1>5. CASE conn' = [conn EXCEPT ![p] = Closing(c)] /\ queue' = FlushSpans(queue, p, FALSE) /\ out' = [out EXCEPT ![p] = <<>>]
  <2>1. SameHashes(Closing(c), c)
    BY <1>4, HandlerUpdates, Zenon
  <2>2. SameHashes(Closing(c), conn[p])
    BY <1>4, <2>1, SameSame, Zenon
  <2>3. SpansOK(queue')
    BY <1>5, FlushKeepsSpans DEF DownloadInv
  <2>4. SpansOK(queue)'
    BY <2>3, SpansPrimed
  <2> QED BY <1>5, <2>2, <2>4, SameConnection, Zenon
<1>6. CASE /\ sent = conn[p].asked /\ conn' = [conn EXCEPT ![p] = f]
           /\ queue' = AddFilled(queue, Height(m.blocks[1]), m.blocks, p)
           /\ out' = [out EXCEPT ![p] = Tail(out[p])]
  <2>1. /\ m.blocks # <<>> /\ IsSeq(m.blocks) /\ conn[p].asked \subseteq ToSet(ChainOf(p))
        /\ ToSet(m.blocks) \subseteq ToSet(ChainOf(p))
    BY <1>1, <1>2, <1>6 DEF RequestOK
  <2>2. Height(m.blocks[1]) \in Nat
    <3>1. m.blocks[1] \in ToSet(m.blocks)
      BY <2>1, ElementOfSeq, EmptySeq, LenProperties DEF IsSeq
    <3>2. PICK i \in DOMAIN ChainOf(p) : m.blocks[1] = ChainOf(p)[i]
      BY <2>1, <3>1 DEF ToSet
    <3>3. Height(m.blocks[1]) = i - 1
      BY <3>2, BlockSyncAssumption
    <3>4. i \in Nat \ {0}
      <4>1. ChainOf(p) \in Seq(ToSet(ChainOf(p)))
        BY BlockSyncAssumption
      <4>2. DOMAIN ChainOf(p) = 1..Len(ChainOf(p)) /\ Len(ChainOf(p)) \in Nat
        BY <4>1, LenProperties
      <4> QED BY <4>2
    <3> QED BY <3>3, <3>4
  <2>3. SpansOK(queue')
    BY <1>6, <2>1, <2>2, AddFilledKeepsSpans DEF DownloadInv
  <2>4. SpansOK(queue)'
    BY <2>3, SpansPrimed
  <2>5. ConnOK(d) /\ d.asked = {}
    <3>1. IsConn(c) /\ IsSeq(c.needed) /\ c.last \in Int
      BY <1>4 DEF ConnOK
    <3>2. IsConn(d) /\ d.needed = c.needed /\ d.asked = {} /\ d.last = c.last
      BY <3>1, HashUpdates, Zenon
    <3> HIDE DEF d
    <3> QED BY <3>1, <3>2 DEF ConnOK
  <2> HIDE DEF d, l
  <2>6. SameHashes(f, d)
    <3>1. IsConn(d)
      BY <2>5 DEF ConnOK
    <3>2. SameHashes(e, d)
      BY <3>1, ConnUpdates, Zenon
    <3> HIDE DEF e
    <3>3. SameHashes(f, e)
      BY <3>2, ConnUpdates, Zenon DEF SameHashes
    <3> HIDE DEF f
    <3> QED BY <3>2, <3>3, SameSame, Zenon
  <2>7. ConnOK(f) /\ f.asked = {}
    <3> HIDE DEF f
    <3> QED BY <2>5, <2>6, SameOK
  <2> HIDE DEF e, f
  <2>8. PendingOK(p, Tail(out[p]), f.asked)
    BY <1>2, <2>1 DEF PendingOK, RequestOK
  <2> QED BY <1>6, <2>4, <2>7, <2>8, OneConnection, Zenon
<1> QED
  <2> HIDE DEF f
  <2> QED BY <1>3, <1>5, <1>6, Zenon

(* A step that keeps the hashes of every connection. *)
LEMMA SameConnections ==
  ASSUME DownloadInv, SpansOK(queue)', conn' = [o \in Peers |-> conn'[o]], out' = [o \in Peers |-> out'[o]],
         \A o \in Peers : SameHashes(conn'[o], conn[o]) /\ (out'[o] = out[o] \/ out'[o] = <<>>)
  PROVE  DownloadInv'
PROOF
<1>1. ASSUME NEW o \in Peers PROVE ConnOK(conn'[o]) /\ PendingOK(o, out'[o], conn'[o].asked)
  <2>1. ConnOK(conn[o]) /\ PendingOK(o, out[o], conn[o].asked)
    BY DEF DownloadInv
  <2>2. ConnOK(conn'[o]) /\ conn'[o].asked = conn[o].asked
    BY <2>1, SameOK
  <2> QED BY <2>1, <2>2, NothingPending
<1> QED
  BY <1>1 DEF DownloadInv, ConnOK, IsConn, PendingOK, RequestOK, IsSeq

(* A span that does not verify is flushed with its connection's others. *)
LEMMA AddBlocksDownload == ASSUME DownloadInv, NEW p \in Peers, AddBlocks(p) PROVE DownloadInv'
PROOF
<1> DEFINE rest == RemoveSpans(queue, span.conn, span.start)
           s == Culprit(p)
<1>1. SpansOK(rest) /\ SpansOK(FlushSpans(rest, s, TRUE))
  <2>1. SpansOK(rest)
    BY FlushKeepsSpans DEF DownloadInv
  <2> HIDE DEF rest
  <2> QED BY <2>1, FlushKeepsSpans, Zenon
<1>2. \/ queue' = rest /\ out' = out /\ \E pc : conn' = [conn EXCEPT ![p].pc = pc]
      \/ /\ s \in Live /\ queue' = FlushSpans(rest, s, TRUE) /\ out' = [out EXCEPT ![s] = <<>>]
         /\ conn' = [conn EXCEPT ![s] = Closing(@), ![p].pc = "idle"]
  BY Zenon DEF AddBlocks, Dropped, Goto
<1> HIDE DEF rest, s
<1>3. SpansOK(queue)'
  <2>1. SpansOK(queue')
    BY <1>1, <1>2, Zenon
  <2> QED BY <2>1, SpansPrimed
<1>4. \A o \in Peers : ConnOK(conn[o])
  BY DEF DownloadInv
<1>5. CASE queue' = rest /\ out' = out /\ \E pc : conn' = [conn EXCEPT ![p].pc = pc]
  <2>1. PICK pc : conn' = [conn EXCEPT ![p] = [conn[p] EXCEPT !.pc = pc]]
    BY <1>5
  <2>2. SameHashes([conn[p] EXCEPT !.pc = pc], conn[p])
    BY <1>4, HandlerUpdates, Zenon
  <2> QED BY <1>3, <1>5, <2>1, <2>2, SameConnection, Zenon
<1>6. CASE /\ s \in Live /\ queue' = FlushSpans(rest, s, TRUE) /\ out' = [out EXCEPT ![s] = <<>>]
           /\ conn' = [conn EXCEPT ![s] = Closing(@), ![p].pc = "idle"]
  <2>1. s \in Peers
    BY <1>6 DEF Live
  <2> DEFINE k == [conn EXCEPT ![s] = Closing(conn[s])]
  <2>2. k = [o \in Peers |-> k[o]] /\ \A o \in Peers : k[o] = IF o = s THEN Closing(conn[s]) ELSE conn[o]
    BY DEF DownloadInv
  <2>3. conn' = [k EXCEPT ![p] = [k[p] EXCEPT !.pc = "idle"]]
    BY <1>6, <2>1 DEF DownloadInv
  <2> HIDE DEF k
  <2>4. ASSUME NEW o \in Peers PROVE SameHashes(k[o], conn[o]) /\ ConnOK(k[o])
    <3>1. SameHashes(k[o], conn[o])
      BY <1>4, <2>2, HandlerUpdates
    <3> QED BY <1>4, <3>1, SameOK, Zenon
  <2>5. SameHashes([k[p] EXCEPT !.pc = "idle"], k[p])
    BY <2>4, HandlerUpdates, Zenon
  <2>6. SameHashes([k[p] EXCEPT !.pc = "idle"], conn[p])
    BY <2>4, <2>5, SameSame, Zenon
  <2>7. /\ conn' = [o \in Peers |-> conn'[o]]
        /\ \A o \in Peers : conn'[o] = IF o = p THEN [k[p] EXCEPT !.pc = "idle"] ELSE k[o]
    BY <2>2, <2>3
  <2>8. /\ out' = [o \in Peers |-> out'[o]]
        /\ \A o \in Peers : out'[o] = out[o] \/ out'[o] = <<>>
    BY <1>6 DEF DownloadInv
  <2>9. \A o \in Peers : SameHashes(conn'[o], conn[o])
    BY <2>4, <2>6, <2>7
  <2> QED BY <1>3, <2>7, <2>8, <2>9, SameConnections
<1> QED
  BY <1>2, <1>5, <1>6, Zenon

(* The head of the loop of try_add_next_blocks removes spans, or hashes.   *)
LEMMA NextBlocksDownload == ASSUME DownloadInv, NEW p \in Peers, NextBlocks(p) PROVE DownloadInv'
PROOF
<1>1. ConnOK(conn[p]) /\ PendingOK(p, out[p], conn[p].asked) /\ SpansOK(queue)
  BY DEF DownloadInv
<1>2. /\ UNCHANGED queue \/ \E c, h : queue' = RemoveSpans(queue, c, h)
      /\ out' = out
      /\ \/ \E pc : conn' = [conn EXCEPT ![p].pc = pc]
         \/ conn' = conn
         \/ conn' = [conn EXCEPT ![p].pc = "request", ![p].needed = <<>>, ![p].last = 0]
  BY Zenon DEF NextBlocks, Goto
<1>3. SpansOK(queue)'
  <2>1. SpansOK(queue')
    BY <1>1, <1>2, FlushKeepsSpans
  <2> QED BY <2>1, SpansPrimed
<1>4. CASE \E pc : conn' = [conn EXCEPT ![p].pc = pc]
  <2>1. PICK pc : conn' = [conn EXCEPT ![p] = [conn[p] EXCEPT !.pc = pc]]
    BY <1>4
  <2>2. SameHashes([conn[p] EXCEPT !.pc = pc], conn[p])
    BY <1>1, HandlerUpdates, Zenon
  <2> QED BY <1>2, <1>3, <2>1, <2>2, SameConnection, Zenon
<1>5. CASE conn' = conn
  <2>1. conn' = [conn EXCEPT ![p] = conn[p]]
    BY <1>5 DEF DownloadInv
  <2>2. SameHashes(conn[p], conn[p])
    BY <1>1 DEF ConnOK, SameHashes
  <2> QED BY <1>2, <1>3, <2>1, <2>2, SameConnection, Zenon
<1>6. CASE conn' = [conn EXCEPT ![p].pc = "request", ![p].needed = <<>>, ![p].last = 0]
  <2> DEFINE a == [conn[p] EXCEPT !.pc = "request"]
             b == [a EXCEPT !.needed = <<>>]
             c == [b EXCEPT !.last = 0]
  <2>1. conn' = [conn EXCEPT ![p] = c]
    BY <1>6 DEF DownloadInv
  <2>2. SameHashes(a, conn[p])
    BY <1>1, HandlerUpdates, Zenon
  <2> HIDE DEF a
  <2>3. ConnOK(a) /\ a.asked = conn[p].asked
    BY <1>1, <2>2, SameOK, Zenon
  <2>4. IsSeq(<<>>)
    BY NothingPending DEF PendingOK
  <2>5. ConnOK(b) /\ b.asked = conn[p].asked
    BY <2>3, <2>4, NeededUpdate, Zenon
  <2> HIDE DEF b
  <2>6. IsConn(c) /\ c.needed = b.needed /\ c.asked = b.asked /\ c.last = 0
    <3>1. IsConn(b)
      BY <2>5 DEF ConnOK
    <3> QED BY <3>1, HashUpdates, Zenon
  <2> HIDE DEF c
  <2>7. ConnOK(c) /\ c.asked = conn[p].asked
    BY <2>5, <2>6 DEF ConnOK
  <2>8. out' = [out EXCEPT ![p] = out[p]] /\ PendingOK(p, out[p], c.asked)
    BY <1>1, <1>2, <2>7 DEF DownloadInv
  <2> QED BY <1>3, <2>1, <2>7, <2>8, OneConnection, Zenon
<1> QED
  BY <1>2, <1>4, <1>5, <1>6, Zenon

(* The steps that only touch the state of one connection, or close it. *)
LEMMA OthersDownload ==
  ASSUME DownloadInv, NEW p \in Peers,
         \/ TryLock(p) \/ StopAdding(p) \/ SyncData(p) \/ CheckStandbyPeer(p) \/ KickIdlePeer(p)
         \/ Close(p) \/ OnConnectionClose(p) \/ DeleteConnection(p)
  PROVE  DownloadInv'
PROOF
<1> DEFINE c == conn[p]
<1>1. ConnOK(c) /\ SpansOK(queue)
  BY DEF DownloadInv
<1>2. SpansOK(queue)'
  <2>1. queue' = queue \/ queue' = FlushSpans(queue, p, FALSE)
    BY Zenon DEF TryLock, StopAdding, SyncData, CheckStandbyPeer, KickIdlePeer, Close, OnConnectionClose,
                 DeleteConnection
  <2>2. SpansOK(queue')
    BY <1>1, <2>1, FlushKeepsSpans
  <2> QED BY <2>2, SpansPrimed
<1>3. out' = out \/ out' = [out EXCEPT ![p] = <<>>]
  BY Zenon DEF TryLock, StopAdding, SyncData, CheckStandbyPeer, KickIdlePeer, Close, OnConnectionClose,
               DeleteConnection
<1>4. \E d : SameHashes(d, c) /\ conn' = [conn EXCEPT ![p] = d]
  <2>1. CASE TryLock(p)
    <3>1. PICK pc : conn' = [conn EXCEPT ![p] = [c EXCEPT !.pc = pc]]
      BY <2>1 DEF TryLock, Goto
    <3> QED BY <1>1, <3>1, HandlerUpdates, Zenon
  <2>2. CASE StopAdding(p)
    <3>1. PICK f : conn' = [conn EXCEPT ![p].pc = "request", ![p].force = f]
      BY <2>2, Zenon DEF StopAdding
    <3>2. conn' = [conn EXCEPT ![p] = [c EXCEPT !.pc = "request", !.force = f]]
      BY <3>1 DEF DownloadInv
    <3> QED BY <1>1, <3>2, HandlerUpdates, Zenon
  <2>3. CASE SyncData(p)
    <3>1. \E r, s, n : \/ conn' = [conn EXCEPT ![p] = [c EXCEPT !.remote = r, !.state = s]]
                       \/ conn' = [conn EXCEPT ![p] = [c EXCEPT !.remote = r, !.state = s, !.callbacks = n]]
      BY <2>3, Zenon DEF SyncData
    <3> QED BY <1>1, <3>1, HandlerUpdates, Zenon
  <2>4. CASE CheckStandbyPeer(p)
    <3>1. PICK n : conn' = [conn EXCEPT ![p] = [c EXCEPT !.callbacks = n]]
      BY <2>4 DEF CheckStandbyPeer
    <3> QED BY <1>1, <3>1, HandlerUpdates, Zenon
  <2>5. CASE KickIdlePeer(p)
    <3> DEFINE n == c.callbacks + 1
    <3>1. conn' = [conn EXCEPT ![p].waiting = FALSE, ![p].state = "standby", ![p].callbacks = @ + 1]
      BY <2>5 DEF KickIdlePeer
    <3>2. conn' = [conn EXCEPT ![p] = [c EXCEPT !.waiting = FALSE, !.state = "standby", !.callbacks = n]]
      BY <1>1, <3>1 DEF DownloadInv, ConnOK, IsConn
    <3> HIDE DEF n
    <3> QED BY <1>1, <3>2, HandlerUpdates, Zenon
  <2>6. CASE Close(p)
    <3>1. conn' = [conn EXCEPT ![p] = Closing(c)]
      BY <2>6 DEF Close
    <3> QED BY <1>1, <3>1, HandlerUpdates, Zenon
  <2>7. CASE OnConnectionClose(p)
    <3>1. conn' = [conn EXCEPT ![p].up = "gone", ![p].live = FALSE]
      BY <2>7 DEF OnConnectionClose
    <3>2. conn' = [conn EXCEPT ![p] = [c EXCEPT !.up = "gone", !.live = FALSE]]
      BY <3>1 DEF DownloadInv
    <3> QED BY <1>1, <3>2, HandlerUpdates, Zenon
  <2>8. CASE DeleteConnection(p)
    <3> DEFINE d == Closing(c)
    <3>1. conn' = [conn EXCEPT ![p] = [d EXCEPT !.live = FALSE]]
      BY <2>8 DEF DeleteConnection
    <3>2. SameHashes(d, c)
      BY <1>1, HandlerUpdates, Zenon
    <3> HIDE DEF d, c
    <3>3. SameHashes([d EXCEPT !.live = FALSE], d)
      BY <3>2, ConnUpdates, Zenon DEF SameHashes
    <3>4. SameHashes([d EXCEPT !.live = FALSE], c)
      BY <3>2, <3>3, SameSame, Zenon
    <3> QED BY <3>1, <3>4
  <2> QED
    BY <2>1, <2>2, <2>3, <2>4, <2>5, <2>6, <2>7, <2>8
<1> QED
  BY <1>2, <1>3, <1>4, SameConnection

(* HaveIsDownloaded for any peers, chains, span sizes and bounds: a hash   *)
(* of have_blocks, which every connection then skips, belongs to a span    *)
(* that was downloaded, through any interleaving of the handlers, of       *)
(* repeated requests, and of connections that close.                       *)
THEOREM HaveStaysDownloaded == Spec => []HaveIsDownloaded
PROOF
<1>1. Init => DownloadInv
  <2> SUFFICES ASSUME Init PROVE DownloadInv
    OBVIOUS
  <2>1. SpansOK(queue)
    BY DEF Init, EmptyQueue, SpansOK, QueueOK, Carried
  <2>2. IsSeq(<<>>)
    BY NothingPending DEF PendingOK
  <2>3. ASSUME NEW p \in Peers PROVE ConnOK(conn[p]) /\ PendingOK(p, out[p], conn[p].asked)
    <3>1. ConnOK(conn[p])
      <4> DEFINE d == [up |-> "open", live |-> TRUE, state |-> "before_handshake", needed |-> <<>>, asked |-> {},
                       remote |-> 0, last |-> 0, waiting |-> FALSE, lastKnown |-> NoHash,
                       callbacks |-> 0, pc |-> "idle", force |-> FALSE]
      <4>1. conn[p] = d
        BY DEF Init
      <4>2. ConnOK(d)
        BY <2>2 DEF ConnOK, IsConn
      <4> QED BY <4>1, <4>2
    <3>2. out[p] = <<>>
      BY DEF Init
    <3> QED BY <3>1, <3>2, NothingPending
  <2>4. conn = [p \in Peers |-> conn[p]] /\ out = [p \in Peers |-> out[p]]
    BY DEF Init
  <2> QED BY <2>1, <2>3, <2>4 DEF DownloadInv
<1>2. DownloadInv /\ [Next]_vars => DownloadInv'
  <2> SUFFICES ASSUME DownloadInv, [Next]_vars PROVE DownloadInv'
    OBVIOUS
  <2>1. CASE UNCHANGED vars
    <3>1. queue' = queue /\ conn' = conn /\ out' = out
      BY <2>1 DEF vars
    <3> QED BY <3>1 DEF DownloadInv, SpansOK, QueueOK, IsSpan, Carried, Filled, IsSeq, ConnOK, IsConn, PendingOK, RequestOK
  <2>2. ASSUME NEW p \in Peers, BackToDownload(p) PROVE DownloadInv'
    <3>1. ConnOK(conn[p]) /\ PendingOK(p, out[p], conn[p].asked)
      BY DEF DownloadInv
    <3>2. EndWith(p, conn[p], out[p], target)
      BY <2>2, Zenon DEF BackToDownload
    <3> QED BY <3>1, <3>2, EndDownload
  <2> QED
    BY <2>1, <2>2, CallbackDownload, ChainEntryDownload, ObjectsDownload, AddBlocksDownload, NextBlocksDownload,
       OthersDownload DEF Next, Step
<1>3. DownloadInv => HaveIsDownloaded
  BY DEF DownloadInv, SpansOK, HaveIsDownloaded, Carried
<1> QED
  BY <1>1, <1>2, <1>3, PTL DEF Spec
=============================================================================
