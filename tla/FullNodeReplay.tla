---------------------------- MODULE FullNodeReplay ----------------------------
(***************************************************************************)
(* What the full node list promises: it is a function of the main chain.   *)
(* Replayed applies the blocks of the chain, oldest first, to an empty     *)
(* list; the daemon's list must agree with it whatever blocks it had to    *)
(* take back and whenever it was restarted.                                *)
(***************************************************************************)
EXTENDS FullNodeList

\* The list after the block at height h.  Rollback events play no part, and
\* swarm ids are left alone: they depend on the order of an unordered_map.
BlockApplied(s, h) ==
  LET blk      == Block(h)
      advanced == AdvancedList([s EXCEPT !.height = @ + 1], blk, h)
      after_tx[i \in 0..Len(blk.txs)] ==
        IF i = 0 THEN advanced ELSE ProcessedTx(after_tx[i - 1], blk.txs[i], h, i - 1)
  IN  [UpdateQuorums(after_tx[Len(blk.txs)], blk, h) EXCEPT !.events = <<>>]

Replayed ==
  LET upto[h \in HF9_HEIGHT..Height] ==
        IF h = HF9_HEIGHT THEN Cleared ELSE BlockApplied(upto[h - 1], h - 1)
  IN  upto[Height]

\* Infos but for the swarm id.
Unswarmed(infos) ==
  [n \in Nodes |-> IF infos[n] = None THEN None ELSE [infos[n] EXCEPT !.swarm_id = QUEUE_SWARM_ID]]

\* Between blocks the list is the one the main chain determines, after any mix
\* of new blocks, reorganisations, crashes and restarts: the detached hook
\* "Revert[s] all changes" of the blocks that were popped.
ListIsReplay ==
  pc = "idle" /\ Height >= HF9_HEIGHT =>
    LET r == Replayed
    IN  /\ Unswarmed(state.infos) = Unswarmed(r.infos)
        /\ state.blacklist = r.blacklist
        /\ state.height = r.height
        /\ \A h \in DOMAIN state.quorums \cap DOMAIN r.quorums : state.quorums[h] = r.quorums[h]
==============================================================================
