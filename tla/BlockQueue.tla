------------------------------ MODULE BlockQueue ------------------------------
(***************************************************************************)
(* block_queue: the spans of blocks that the synchronising connections     *)
(* have scheduled or downloaded.  The queue is a record of the set of      *)
(* spans (a std::set ordered, and made unique, by start height) and of the *)
(* two hash sets kept beside it.  Every operation takes the queue's own    *)
(* mutex, so each one is an operator from a queue to a queue.              *)
(*                                                                         *)
(* Peers are unpruned (pruning seed 0), so has_unpruned_block is always    *)
(* true and the stripe arithmetic disappears.  Rates, sizes and times are  *)
(* left out: the callers that compare a time choose its outcome.           *)
(***************************************************************************)
EXTENDS Naturals, Sequences, FiniteSets, SequencesExt

EmptyQueue == [spans |-> {}, requested |-> {}, have |-> {}]

NoSpan == [start |-> 0, n |-> 0, hashes |-> <<>>, blocks |-> <<>>, conn |-> "none"]

Filled(s) == s.blocks # <<>>

(* The hashes of a sequence that are not in a set, in their order. *)
Without(hashes, S) ==
    LET left == {i \in DOMAIN hashes : hashes[i] \notin S}
        nth(k) == CHOOSE i \in left : Cardinality({j \in left : j <= i}) = k
    IN [k \in 1..Cardinality(left) |-> hashes[nth(k)]]

(* The first span in height order among those of a set, or NoSpan. *)
First(S) == IF S = {} THEN NoSpan
            ELSE CHOOSE s \in S : \A t \in S : s.start <= t.start

(* std::set::insert: a span that starts where another does is not inserted. *)
Insert(q, s) == IF \E t \in q.spans : t.start = s.start THEN q
                ELSE [q EXCEPT !.spans = @ \cup {s}]

(* Mutant of EraseBlocks: the hashes of the span stay in both sets. *)
MutantEraseBlocks(q, S) == [q EXCEPT !.spans = @ \ S]

(* Mutant of EraseBlocks: the hashes of the span stay in have_blocks. *)
MutantEraseRequests(q, S) ==
    LET gone == UNION {ToSet(s.hashes) : s \in S} IN
    [q EXCEPT !.spans = @ \ S, !.requested = @ \ gone]

(* erase_block, for every span of a set. *)
EraseBlocks(q, S) ==
    LET gone == UNION {ToSet(s.hashes) : s \in S} IN
    [spans |-> q.spans \ S, requested |-> q.requested \ gone, have |-> q.have \ gone]

(* Mutant of FlushSpans: nothing is flushed. *)
MutantFlushSpans(q, c, all) == q

FlushSpans(q, c, all) == EraseBlocks(q, {s \in q.spans : s.conn = c /\ (all \/ ~Filled(s))})

FlushStaleSpans(q, live) == EraseBlocks(q, {s \in q.spans : ~Filled(s) /\ s.conn \notin live})

RemoveSpans(q, c, height) == EraseBlocks(q, {s \in q.spans : s.conn = c /\ s.start <= height})

SetSpanHashes(q, height, c, hashes) ==
    LET S == {s \in q.spans : s.start = height /\ s.conn = c}
        e == EraseBlocks(q, S)
    IN IF S = {} THEN q
       ELSE [spans |-> e.spans \cup {[s EXCEPT !.hashes = hashes] : s \in S},
             requested |-> e.requested \cup ToSet(hashes), have |-> e.have]

(* add_blocks of downloaded blocks: the span they were scheduled as hands   *)
(* over its hashes, whichever connection scheduled it.                      *)
AddFilled(q, height, blocks, c) ==
    LET old == {s \in q.spans : s.start = height}
        hashes == First(old).hashes
        r == EraseBlocks(q, old)
        i == Insert(r, [start |-> height, n |-> Len(blocks), hashes |-> <<>>,
                        blocks |-> blocks, conn |-> c])
    IN IF old = {} THEN i
       ELSE SetSpanHashes([spans |-> i.spans, requested |-> i.requested \cup ToSet(hashes),
                           have |-> i.have \cup ToSet(hashes)],
                          height, c, hashes)

(* The hashes past the leading ones that were requested already. *)
NotRequested(q, hashes) ==
    LET todo == {i \in DOMAIN hashes : hashes[i] \notin q.requested}
        skip == IF todo = {} THEN Len(hashes)
                ELSE (CHOOSE i \in todo : \A j \in todo : i <= j) - 1
    IN SubSeq(hashes, skip + 1, Len(hashes))

(* reserve_span: the span it returns ([n |-> 0] when there is none) and the *)
(* queue it leaves.  Only leading requested hashes are skipped: the span    *)
(* may run over hashes another span has.                                    *)
ReserveSpan(q, last, max, c, hashes) ==
    LET rest == NotRequested(q, hashes)
        take == SubSeq(rest, 1, IF Len(rest) < max THEN Len(rest) ELSE max)
        start == last - Len(rest) + 1
        span == [start |-> start, n |-> Len(take), hashes |-> <<>>, blocks |-> <<>>, conn |-> c]
    IN IF hashes = <<>> \/ Len(hashes) > last \/ take = <<>>
       THEN [span |-> NoSpan, queue |-> q]
       ELSE [span |-> [span EXCEPT !.hashes = take],
             queue |-> SetSpanHashes(Insert(q, span), start, c, take)]

(* get_next_span_if_scheduled: the first span, when it is not filled. *)
NextSpanIfScheduled(q) == IF Filled(First(q.spans)) THEN NoSpan ELSE First(q.spans)

(* get_next_span: the first filled span, or the first one of either sort    *)
(* when "filled" is false.                                                  *)
NextSpan(q, filled) == First({s \in q.spans : filled => Filled(s)})

(* has_next_span(height): the first span, when it starts by that height. *)
SpanAt(q, height) == IF First(q.spans).start > height THEN NoSpan ELSE First(q.spans)

NumFilledSpans(q) == Cardinality({s \in q.spans : Filled(s)})

(* get_next_needed_height: past the spans that continue the chain without a *)
(* gap, unless the first of them is still to be downloaded.                 *)
NextNeededHeight(q, height) ==
    LET ahead == {s \in q.spans : s.start + s.n > height}
        next(acc, s) == IF acc.stop \/ s.start # acc.at \/ (acc.at = height /\ ~Filled(s))
                        THEN [acc EXCEPT !.stop = TRUE]
                        ELSE [acc EXCEPT !.at = s.start + s.n]
        ordered == SetToSortSeq(ahead, LAMBDA s, t : s.start < t.start)
    IN FoldLeft(next, [at |-> height, stop |-> FALSE], ordered).at

=============================================================================
