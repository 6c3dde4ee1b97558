------------------------------ MODULE BlockSync ------------------------------
(***************************************************************************)
(* Block synchronisation of one node with its connections                  *)
(* (t_cryptonote_protocol_handler).  Every connection's handlers run one   *)
(* at a time, on its strand; handlers of different connections run at once *)
(* and meet at the block queue, at the chain and at m_sync_lock, which is  *)
(* only ever tried.  try_add_next_blocks is therefore split where another  *)
(* handler may come in between: taking the lock, reading the next span,    *)
(* handing its blocks to the core, and letting the lock go.                *)
(*                                                                         *)
(* A peer answers a request with blocks of its own chain, which does not   *)
(* grow; its answer and our handler of it are one step.  Peers are         *)
(* unpruned and outgoing, and no list of precomputed hashes is used        *)
(* (prevalidate_block_hashes accepts every hash).                          *)
(***************************************************************************)
EXTENDS BlockQueue

CONSTANTS
    Peers,
    ChainOf(_),             \* the blocks of a peer, from height 0
    Height(_),              \* the height in a block's miner transaction
    Parent(_),              \* prev_id
    Invalid,                \* blocks that fail verification
    SYNC_SIZE,              \* get_block_sync_size
    BLOCKS_IDS_SYNCHRONIZING_DEFAULT_COUNT,
    BLOCK_QUEUE_NSPANS_THRESHOLD,
    BLOCK_QUEUE_FORCE_DOWNLOAD_NEAR_BLOCKS,
    NoHash,                 \* crypto::null_hash
    MaxFaults,              \* closed connections and idle kicks
    MaxCallbacks            \* queued callbacks of one connection

ASSUME BlockSyncAssumption ==
    /\ SYNC_SIZE \in Nat \ {0}
    /\ BLOCKS_IDS_SYNCHRONIZING_DEFAULT_COUNT \in Nat \ {0}
    /\ \A p \in Peers : /\ ChainOf(p) \in Seq(ToSet(ChainOf(p))) \ {<<>>}
                       /\ \A i \in DOMAIN ChainOf(p) : Height(ChainOf(p)[i]) = i - 1
    /\ \A p, q \in Peers : ChainOf(p)[1] = ChainOf(q)[1]

VARIABLES
    conn,           \* cryptonote_connection_context, and where its handler is
    out,            \* requests a peer has not answered
    queue,          \* m_block_queue
    main,           \* the node's main chain, from height 0
    known,          \* the blocks of the main and of the alternative chains
    bad,            \* m_invalid_blocks
    target,         \* m_target_blockchain_height
    synchronized,   \* m_synchronized
    holder,         \* who holds m_sync_lock
    span,           \* the span that the holder is adding
    forsaken,       \* connections whose handler returned after another's bad span
    faults

vars == <<conn, out, queue, main, known, bad, target, synchronized, holder, span, forsaken, faults>>

chainVars == <<main, known, bad>>

Have(b) == b \in known \cup bad   \* have_block

Live == {p \in Peers : conn[p].live}       \* m_connects, for_each_connection

Open(p) == conn[p].up = "open"

Top == Len(main)    \* get_current_blockchain_height

Init ==
    /\ conn = [p \in Peers |->
                 [up |-> "open", live |-> TRUE, state |-> "before_handshake", needed |-> <<>>, asked |-> {},
                  remote |-> 0, last |-> 0, waiting |-> FALSE, lastKnown |-> NoHash,
                  callbacks |-> 0, pc |-> "idle", force |-> FALSE]]
    /\ out = [p \in Peers |-> <<>>]
    /\ queue = EmptyQueue
    /\ main = <<ChainOf(CHOOSE p \in Peers : TRUE)[1]>>
    /\ known = {main[1]}
    /\ bad = {}
    /\ target = 0
    /\ synchronized = FALSE
    /\ holder = NoHash
    /\ span = NoSpan
    /\ forsaken = {}
    /\ faults = 0

-----------------------------------------------------------------------------
(* Connections                                                             *)

(* The target height once a connection is closed: the best of the others. *)
TargetWithout(p) ==
    LET heights == {conn[o].remote : o \in {o \in Live \ {p} : conn[o].state # "before_handshake"}}
        best == IF heights = {} THEN 0 ELSE CHOOSE h \in heights : \A g \in heights : g <= h
    IN IF best < target THEN best ELSE target

(* drop_connection: the queue q loses spans of the connection at once; the *)
(* connection stays known until the handler that it may be running ends.   *)
Dropped(p, q, all) ==
    /\ queue' = FlushSpans(q, p, all)
    /\ out' = [out EXCEPT ![p] = <<>>]

Closing(c) == [c EXCEPT !.up = IF @ = "open" THEN "closing" ELSE @, !.callbacks = 0]

(* process_payload_sync_data: the target after a peer's sync data. *)
HandshakeTarget(p) ==
    LET claimed == Len(ChainOf(p))
        current == IF target = 0 THEN Top ELSE target
    IN IF claimed > current THEN claimed ELSE target

(* process_payload_sync_data, at the handshake and at every timed sync. *)
SyncData(p) ==
    LET c == conn[p]
        initial == c.state = "before_handshake"
        d == [c EXCEPT !.remote = Len(ChainOf(p))]
    IN
    /\ Open(p) /\ c.pc = "idle"
    /\ c.state # "synchronizing"
    /\ IF Have(Last(ChainOf(p)))
       THEN /\ conn' = [conn EXCEPT ![p] = [d EXCEPT !.state = "normal"]]
            /\ synchronized' = (synchronized \/ (initial /\ (target = 0 \/ target = Top)))
            /\ UNCHANGED target
       ELSE /\ c.callbacks < MaxCallbacks
            /\ conn' = [conn EXCEPT ![p] = [d EXCEPT !.state = "synchronizing", !.callbacks = @ + 1]]
            /\ target' = HandshakeTarget(p)
            /\ UNCHANGED synchronized
    /\ UNCHANGED <<chainVars, out, queue, holder, span, forsaken, faults>>

(* NOTIFY_REQUEST_CHAIN carries our main chain from the top down, after an *)
(* optional hash; the peer starts at the first one that it has, at the     *)
(* latest at the genesis block, which every chain has.                     *)
ChainRequest(p, ids) ==
    [kind |-> "chain", blocks |-> <<>>,
     start |-> LET shared == {0} \cup {h \in 1..Len(ChainOf(p)) - 1 : ChainOf(p)[h + 1] \in ToSet(main)}
                   first == {h \in 0..Len(ChainOf(p)) - 1 : ChainOf(p)[h + 1] \in ids}
               IN IF first # {} THEN CHOOSE h \in first : TRUE
                  ELSE CHOOSE h \in shared : \A g \in shared : g <= h]

Send(p, m) == out' = [out EXCEPT ![p] = IF Open(p) THEN Append(@, m) ELSE @]

(* on_callback *)
Callback(p) ==
    LET c == [conn[p] EXCEPT !.callbacks = @ - 1] IN
    /\ Open(p) /\ conn[p].pc = "idle" /\ conn[p].callbacks > 0
    /\ \/ /\ c.state = "synchronizing"
          /\ conn' = [conn EXCEPT ![p] = [c EXCEPT !.needed = <<>>]]
          /\ Send(p, ChainRequest(p, {}))
       \/ /\ c.state = "standby"
          /\ conn' = [conn EXCEPT ![p] = [c EXCEPT !.state = "synchronizing", !.pc = "try"]]
          /\ UNCHANGED out
       \/ /\ c.state = "normal"
          /\ conn' = [conn EXCEPT ![p] = c]
          /\ UNCHANGED out
    /\ UNCHANGED <<chainVars, queue, target, synchronized, holder, span, forsaken, faults>>

(* kick_idle_peers, from the idle thread: the peer has not answered for    *)
(* IDLE_PEER_KICK_TIME.                                                    *)
KickIdlePeer(p) ==
    /\ Open(p) /\ conn[p].state = "synchronizing" /\ conn[p].waiting
    /\ conn[p].callbacks < MaxCallbacks
    /\ faults < MaxFaults
    /\ faults' = faults + 1
    /\ conn' = [conn EXCEPT ![p].waiting = FALSE, ![p].state = "standby", ![p].callbacks = @ + 1]
    /\ UNCHANGED <<chainVars, out, queue, target, synchronized, holder, span, forsaken>>

(* check_standby_peers, from the idle thread. *)
CheckStandbyPeer(p) ==
    /\ Open(p) /\ conn[p].state = "standby" /\ conn[p].callbacks < MaxCallbacks
    /\ conn' = [conn EXCEPT ![p].callbacks = @ + 1]
    /\ UNCHANGED <<chainVars, out, queue, target, synchronized, holder, span, forsaken, faults>>

(* The peer, or a timeout, closes the connection. *)
Close(p) ==
    /\ Open(p)
    /\ faults < MaxFaults
    /\ faults' = faults + 1
    /\ conn' = [conn EXCEPT ![p] = Closing(@)]
    /\ out' = [out EXCEPT ![p] = <<>>]
    /\ UNCHANGED <<chainVars, queue, target, synchronized, holder, span, forsaken>>

(* on_connection_close, once no handler of the connection runs. *)
OnConnectionClose(p) ==
    /\ conn[p].up = "closing" /\ conn[p].pc = "idle"
    /\ conn' = [conn EXCEPT ![p].up = "gone", ![p].live = FALSE]
    /\ target' = TargetWithout(p)
    /\ queue' = FlushSpans(queue, p, FALSE)
    /\ UNCHANGED <<chainVars, out, synchronized, holder, span, forsaken, faults>>

(* delete_connections, for a lower peer limit: on_connection_close runs    *)
(* first, under a handler that may be running, and once more at the end.   *)
DeleteConnection(p) ==
    /\ Open(p)
    /\ faults < MaxFaults
    /\ faults' = faults + 1
    /\ conn' = [conn EXCEPT ![p] = [Closing(@) EXCEPT !.live = FALSE]]
    /\ out' = [out EXCEPT ![p] = <<>>]
    /\ target' = TargetWithout(p)
    /\ queue' = FlushSpans(queue, p, FALSE)
    /\ UNCHANGED <<chainVars, synchronized, holder, span, forsaken>>

-----------------------------------------------------------------------------
(* request_missing_objects                                                 *)

(* skip_unneeded_hashes; the last hash, when it goes too, is remembered. *)
SkipUnneeded(c, q, checkQueue) ==
    LET skippable(b) == Have(b) \/ (checkQueue /\ b \in q.have)
        keep == {i \in DOMAIN c.needed : ~skippable(c.needed[i])}
        skip == IF keep = {} THEN Len(c.needed)
                ELSE (CHOOSE i \in keep : \A j \in keep : i <= j) - 1
    IN [c EXCEPT !.needed = SubSeq(@, skip + 1, Len(@)),
                 !.lastKnown = IF keep = {} /\ c.needed # <<>> THEN Last(c.needed) ELSE @]

(* should_download_next_span; late stands for the times and speeds that it *)
(* compares.                                                               *)
ShouldDownloadNextSpan(c, q, late) ==
    LET next == SpanAt(q, Top) IN
    /\ c.remote > Top
    /\ next = NoSpan \/ (~Filled(next) /\ late)

(* The test, past "skip:", for a span to add instead.  "filled" is passed  *)
(* by value, so it is still false when it is read.                         *)
ResumesAdding(q) == LET filled == FALSE IN NextSpan(q, filled) # NoSpan /\ filled

(* Mutant of Reached: the height of the node itself is not compared. *)
MutantReached(c, tgt) == c.remote >= tgt

(* The node has reached the target, as a peer that is not behind it sees.  *)
Reached(c, tgt) == c.remote >= tgt /\ Top >= tgt

(* The tail of request_missing_objects, from "skip:" on. *)
AskOrRest(p, c0, q, e) ==
    LET c == [c0 EXCEPT !.needed = <<>>]
        resumes == Top < e.target /\ holder = NoHash /\ ResumesAdding(q)
        ids == IF c.lastKnown = NoHash THEN {} ELSE {c.lastKnown}
        done == c.last = c.remote - 1 /\ c.asked = {}
    IN IF resumes
       THEN [e EXCEPT !.queue = q, !.conn = [c EXCEPT !.state = "standby", !.callbacks = @ + 1]]
       ELSE IF c.last + 1 < c.remote
       THEN [e EXCEPT !.queue = q, !.conn = [c EXCEPT !.waiting = TRUE],
                      !.send = <<ChainRequest(p, ids)>>]
       ELSE IF done
       THEN [e EXCEPT !.queue = q, !.conn = [c EXCEPT !.state = "normal"], !.synced = Reached(c, e.target)]
       ELSE [e EXCEPT !.queue = q, !.conn = c, !.ok = FALSE]

(* Ask for the blocks of a span. *)
AskFor(c, q, hashes, e) ==
    [e EXCEPT !.queue = q,
              !.conn = [c EXCEPT !.asked = @ \cup ToSet(hashes), !.waiting = TRUE],
              !.send = <<[kind |-> "objects", blocks |-> hashes, start |-> 0]>>]

(* Choose what to download: the next span again when it is forced or when  *)
(* nothing else can be reserved, otherwise the first hashes nobody asked.  *)
Download(p, c, q, force, e) ==
    LET again == NextSpanIfScheduled(q)
        d == SkipUnneeded(c, q, FALSE)
        r == ReserveSpan(q, d.last, SYNC_SIZE, p, d.needed)
        skip == r.span.start - (d.last - Len(d.needed) + 1)
        left(x, hashes) == [x EXCEPT !.needed = Without(@, ToSet(hashes))]
    IN IF force /\ again # NoSpan THEN AskFor(c, q, again.hashes, e)
       ELSE IF c.last + 1 < Len(c.needed) THEN AskOrRest(p, [c EXCEPT !.last = 0], q, e)
       ELSE IF r.span # NoSpan
       THEN AskFor([d EXCEPT !.needed = SubSeq(@, skip + r.span.n + 1, Len(@))],
                   r.queue, r.span.hashes, e)
       ELSE IF ~force /\ again # NoSpan THEN AskFor(left(d, again.hashes), q, again.hashes, e)
       ELSE AskOrRest(p, d, q, e)

(* request_missing_objects: the connection, the queue, what is sent,       *)
(* whether the node calls itself synchronised, and the value returned.     *)
(* late and wedged stand for the times compared on the way.                *)
RequestMissingObjects(p, c0, force, tgt, late, wedged) ==
    LET q == FlushStaleSpans(queue, Live)
        c == SkipUnneeded(c0, q, TRUE)
        e == [conn |-> c0, queue |-> q, send |-> <<>>, synced |-> FALSE, ok |-> TRUE,
              target |-> tgt]
        needed == NextNeededHeight(q, Top)
        nextBlock == IF c.needed = <<>> THEN needed ELSE c.last - Len(c.needed) + 1
        near(h) == h < Top + BLOCK_QUEUE_FORCE_DOWNLOAD_NEAR_BLOCKS
        main_ == near(nextBlock) \/ near(needed)
        proceed == main_ \/ NumFilledSpans(q) < BLOCK_QUEUE_NSPANS_THRESHOLD
        forced == force \/ (main_ /\ ShouldDownloadNextSpan(c, q, late))
        going == IF force THEN c0 ELSE [c EXCEPT !.state = "synchronizing"]
        ready == Filled(SpanAt(q, Top))
    IN IF forced \/ proceed
       THEN IF going.needed # <<>> \/ forced THEN Download(p, going, q, forced, e)
            ELSE AskOrRest(p, going, q, e)
       ELSE IF holder = NoHash /\ ready
       THEN [e EXCEPT !.conn = [c EXCEPT !.state = "standby", !.callbacks = @ + 1]]
       ELSE IF holder = NoHash /\ wedged
       THEN [e EXCEPT !.conn = c, !.ok = FALSE]
       ELSE [e EXCEPT !.conn = [c EXCEPT !.state = "standby"]]

(* The handler's last call: request_missing_objects, and drop_connection   *)
(* when it fails.  Requests not answered yet are pending; raised is the    *)
(* target height that a success leaves.                                    *)
EndWith(p, c, pending, raised) ==
    \E late, wedged \in BOOLEAN :
        LET r == RequestMissingObjects(p, c, c.force, target, late, wedged)
            d == [r.conn EXCEPT !.pc = "idle", !.force = FALSE,
                                !.callbacks = IF @ > MaxCallbacks THEN MaxCallbacks ELSE @]
        IN /\ synchronized' = (synchronized \/ r.synced)
           /\ \/ /\ r.ok
                 /\ conn' = [conn EXCEPT ![p] = IF Open(p) THEN d ELSE Closing(d)]
                 /\ queue' = r.queue
                 /\ out' = [out EXCEPT ![p] = IF Open(p) THEN pending \o r.send ELSE <<>>]
                 /\ target' = raised
              \/ /\ ~r.ok
                 /\ conn' = [conn EXCEPT ![p] = Closing(d)]
                 /\ Dropped(p, r.queue, FALSE)
                 /\ UNCHANGED target

-----------------------------------------------------------------------------
(* Handlers of the answers                                                 *)

(* handle_response_chain_entry.  The target is raised after the request. *)
HandleChainEntry(p) ==
    LET m == Head(out[p])
        chain == ChainOf(p)
        end == IF m.start + BLOCKS_IDS_SYNCHRONIZING_DEFAULT_COUNT < Len(chain)
               THEN m.start + BLOCKS_IDS_SYNCHRONIZING_DEFAULT_COUNT ELSE Len(chain)
        ids == SubSeq(chain, m.start + 1, end)
        c == [conn[p] EXCEPT !.waiting = FALSE, !.remote = Len(chain), !.last = end - 1,
                             !.needed = ids]
    IN
    /\ Open(p) /\ conn[p].pc = "idle"
    /\ out[p] # <<>> /\ m.kind = "chain"
    /\ EndWith(p, c, Tail(out[p]), IF Len(chain) > target THEN Len(chain) ELSE target)
    /\ UNCHANGED <<chainVars, holder, span, forsaken, faults>>

(* handle_response_get_objects, up to try_add_next_blocks.  The peer sends *)
(* the blocks that it has.  Unless they are the ones asked for, all of     *)
(* them (one missing, or one more asked for since, is enough), the         *)
(* connection is dropped; so the blocks that are kept are the requested.   *)
HandleObjects(p) ==
    LET m == Head(out[p])
        sent == ToSet(m.blocks) \cap ToSet(ChainOf(p))
        wrong == sent # conn[p].asked
        c == [conn[p] EXCEPT !.waiting = FALSE, !.remote = Len(ChainOf(p))]
    IN
    /\ Open(p) /\ conn[p].pc = "idle"
    /\ out[p] # <<>> /\ m.kind = "objects"
    /\ target' = IF Len(ChainOf(p)) > target THEN Len(ChainOf(p)) ELSE target
    /\ \/ /\ wrong
          /\ conn' = [conn EXCEPT ![p] = Closing(c)]
          /\ Dropped(p, queue, FALSE)
       \/ /\ ~wrong
          /\ conn' = [conn EXCEPT ![p] = [c EXCEPT !.asked = {}, !.lastKnown = Last(m.blocks), !.pc = "try"]]
          /\ queue' = AddFilled(queue, Height(m.blocks[1]), m.blocks, p)
          /\ out' = [out EXCEPT ![p] = Tail(@)]
    /\ UNCHANGED <<chainVars, synchronized, holder, span, forsaken, faults>>

-----------------------------------------------------------------------------
(* try_add_next_blocks                                                     *)

Goto(p, pc) == conn' = [conn EXCEPT ![p].pc = pc]

(* The sync lock is tried; without it the handler goes back to download. *)
TryLock(p) ==
    /\ conn[p].pc = "try"
    /\ \/ holder = NoHash /\ holder' = p /\ Goto(p, "next")
       \/ holder # NoHash /\ UNCHANGED holder /\ Goto(p, "request")
    /\ UNCHANGED <<chainVars, out, queue, target, synchronized, span, forsaken, faults>>

(* The head of the loop: get_next_span and the checks on the span. *)
NextBlocks(p) ==
    LET s == NextSpan(queue, TRUE)
        old == Have(Last(s.blocks))
        parent == Parent(s.blocks[1])
    IN
    /\ conn[p].pc = "next"
    /\ \/ /\ s = NoSpan
          /\ Goto(p, "stop")
          /\ UNCHANGED <<queue, holder, span>>
       \/ /\ s # NoSpan /\ old
          /\ queue' = RemoveSpans(queue, s.conn, s.start)
          /\ UNCHANGED <<conn, holder, span>>
       \/ /\ s # NoSpan /\ ~old /\ Have(parent)
          /\ span' = s
          /\ Goto(p, "add")
          /\ UNCHANGED <<queue, holder>>
       \/ /\ s # NoSpan /\ ~old /\ ~Have(parent) /\ parent \in queue.requested
          /\ Goto(p, "stop")
          /\ UNCHANGED <<queue, holder, span>>
       \/ /\ s # NoSpan /\ ~old /\ ~Have(parent) /\ parent \notin queue.requested
          /\ s.start > Top
          /\ holder' = NoHash
          /\ Goto(p, "request")
          /\ UNCHANGED <<queue, span>>
       \/ /\ s # NoSpan /\ ~old /\ ~Have(parent) /\ parent \notin queue.requested
          /\ s.start <= Top
          /\ queue' = RemoveSpans(queue, s.conn, s.start)
          /\ holder' = NoHash
          /\ conn' = [conn EXCEPT ![p].pc = "request", ![p].needed = <<>>, ![p].last = 0]
          /\ UNCHANGED span
    /\ UNCHANGED <<chainVars, out, target, synchronized, forsaken, faults>>

(* handle_incoming_block for the blocks of a span, until one fails.  A     *)
(* block whose parent is in neither chain is an orphan, one that would not *)
(* lengthen the chain is an alternative block, and one that fails as the   *)
(* new top takes the alternative blocks under it along.                    *)
HandleBlock(a, b) ==
    IF a.failed # NoHash \/ b \in a.known \cup bad THEN a
    ELSE IF Parent(b) \notin a.known THEN [a EXCEPT !.failed = b]
    ELSE IF Height(b) < Len(a.main) THEN [a EXCEPT !.known = @ \cup {b}]
    ELSE IF b \in Invalid THEN [a EXCEPT !.failed = b, !.known = @ \ Invalid]
    ELSE [a EXCEPT !.main = Append(@, b), !.known = @ \cup {b}]

(* Mutant of Culprit: the connection whose handler adds the block pays. *)
MutantCulprit(p) == p

(* The connection that pays for a bad block: the one that the span is of,  *)
(* not the one whose handler is adding it.                                 *)
Culprit(p) == span.conn

(* The blocks of the span go to the core.  A block that fails drops the    *)
(* connection that the span came from; the handler then just returns.      *)
(* Some of the checks also record the block as invalid.                    *)
AddBlocks(p) ==
    LET a == FoldLeft(HandleBlock, [main |-> main, known |-> known, failed |-> NoHash], span.blocks)
        s == Culprit(p)
        rest == RemoveSpans(queue, span.conn, span.start)
    IN
    /\ conn[p].pc = "add"
    /\ main' = a.main
    /\ known' = a.known
    /\ \E marked \in {{}, {a.failed} \cap Invalid} : bad' = bad \cup (known \ a.known) \cup marked
    /\ span' = NoSpan
    /\ \/ /\ a.failed = NoHash
          /\ queue' = rest
          /\ Goto(p, "next")
          /\ UNCHANGED <<out, target, holder, forsaken>>
       \/ /\ a.failed # NoHash /\ s \in Live
          /\ Dropped(s, rest, TRUE)
          /\ UNCHANGED target
          /\ holder' = NoHash
          /\ conn' = [conn EXCEPT ![s] = Closing(@), ![p].pc = "idle"]
          /\ forsaken' = forsaken \cup {p}
       \/ /\ a.failed # NoHash /\ s \notin Live
          /\ queue' = rest
          /\ holder' = NoHash
          /\ Goto(p, "idle")
          /\ forsaken' = forsaken \cup {p}
          /\ UNCHANGED <<out, target>>
    /\ UNCHANGED <<synchronized, faults>>

(* Mutant of StopAdding: the handler does not go back to download. *)
MutantStopAdding(p) ==
    /\ conn[p].pc = "stop"
    /\ holder' = NoHash
    /\ Goto(p, "idle")
    /\ UNCHANGED <<chainVars, out, queue, target, synchronized, span, forsaken, faults>>

(* The lock goes, after a look at whether the next span is to be asked. *)
StopAdding(p) ==
    /\ conn[p].pc = "stop"
    /\ holder' = NoHash
    /\ \E late \in BOOLEAN :
         conn' = [conn EXCEPT ![p].pc = "request",
                              ![p].force = ShouldDownloadNextSpan(conn[p], queue, late)]
    /\ UNCHANGED <<chainVars, out, queue, target, synchronized, span, forsaken, faults>>

(* "skip:" of try_add_next_blocks. *)
BackToDownload(p) ==
    /\ conn[p].pc = "request"
    /\ EndWith(p, conn[p], out[p], target)
    /\ UNCHANGED <<chainVars, holder, span, forsaken, faults>>

Step(p) ==
    \/ Callback(p) \/ HandleChainEntry(p) \/ HandleObjects(p) \/ OnConnectionClose(p)
    \/ TryLock(p) \/ NextBlocks(p) \/ AddBlocks(p) \/ StopAdding(p) \/ BackToDownload(p)

Next == \E p \in Peers : \/ Step(p) \/ SyncData(p) \/ CheckStandbyPeer(p)
                         \/ KickIdlePeer(p) \/ Close(p) \/ DeleteConnection(p)

Spec == Init /\ [][Next]_vars

(* A handler of the connection can run. *)
Ready(p) ==
    \/ conn[p].pc # "idle" \/ conn[p].up = "closing"
    \/ Open(p) /\ (out[p] # <<>> \/ conn[p].callbacks > 0)

(* The network threads run every handler that is ready and peers answer;   *)
(* timed sync comes round every minute and the standby check ten times a   *)
(* second.                                                                 *)
FairSpec ==
    /\ Spec
    /\ \A p \in Peers : /\ []<>~Ready(p) \/ []<><<Step(p)>>_vars
                        /\ WF_vars(SyncData(p))
                        /\ WF_vars(CheckStandbyPeer(p))

-----------------------------------------------------------------------------
(* Properties                                                              *)

(* reserve_span skips every hash of requested_hashes: one that no span of  *)
(* the queue carries would never be asked of anybody again.  Whatever      *)
(* order connections schedule, download, add, close and are dropped in,    *)
(* each such hash belongs to a span.                                       *)
RequestsAreQueued == queue.requested \subseteq UNION {ToSet(s.hashes) : s \in queue.spans}

(* skip_unneeded_hashes skips every hash of have_blocks: each belongs to a *)
(* downloaded span (which, when peers are on two branches, may hold        *)
(* another block of that height).                                          *)
HaveIsDownloaded ==
    queue.have \subseteq UNION {ToSet(s.hashes) : s \in {s \in queue.spans : Filled(s)}}

(* A connection that was closed leaves no scheduled span behind that the   *)
(* others would wait for: a span still to be downloaded belongs to a       *)
(* connection whose close is yet to be handled, or to one that is open and *)
(* has yet to answer a request for exactly its blocks.                     *)
ScheduledAreAsked ==
    \A s \in queue.spans :
        \/ Filled(s)
        \/ conn[s.conn].up = "closing"
        \/ Open(s.conn) /\ \E m \in ToSet(out[s.conn]) : m.kind = "objects" /\ m.blocks = s.hashes

(* Peers whose chain is valid throughout. *)
Honest == {p \in Peers : ToSet(ChainOf(p)) \cap Invalid = {}}

(* A block that fails verification costs the connection that the block was *)
(* downloaded from, never one whose blocks are all valid, even though the  *)
(* handler that meets the failure is often another connection's.           *)
OnlyTheCulpritIsBlamed ==
    [][\A h, p \in Peers : /\ conn[h].pc = "add" /\ conn'[h].pc = "idle"
                          /\ Open(p) /\ conn'[p].up = "closing" => p \notin Honest]_vars

(* The node calls itself synchronised (m_synchronized) only when its chain *)
(* is as long as that of every connection it is in touch with.             *)
SynchronizedMeansCaughtUp ==
    [][synchronized' /\ ~synchronized =>
         \A p \in Live : conn[p].state \in {"synchronizing", "standby"} => conn'[p].remote <= Len(main')]_vars

CaughtUp == \A p \in Live \cap Honest : Len(ChainOf(p)) <= Top

(* A downloaded span is in the queue, and nobody is adding blocks. *)
SpanLeft == holder = NoHash /\ \E s \in queue.spans : Filled(s)

(* A downloaded span goes because its parent is unknown (NextBlocks). *)
Discarded == \E p \in Peers : conn[p].pc = "next" /\ conn'[p].pc = "request" /\ queue' # queue

(* The node catches up with every valid chain of a connection that stays,  *)
(* except in the three ways it has of stopping short: a downloaded span    *)
(* left in the queue by handlers that all found the lock taken, a          *)
(* connection whose handler returned after another one's block had failed, *)
(* and spans of two branches that take each other's place at a height and  *)
(* are discarded for ever.                                                 *)
SyncsOrStalls ==
    \/ <>[]CaughtUp
    \/ <>[](SpanLeft \/ forsaken \cap Live \cap Honest # {})
    \/ []<><<Discarded>>_vars

(* The node catches up with every connection that stays. *)
Syncs == <>[]CaughtUp

=============================================================================
