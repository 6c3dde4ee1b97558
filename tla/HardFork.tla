------------------------------- MODULE HardFork -------------------------------
(***************************************************************************)
(* The HardFork object (cryptonote_basic/hardfork.cpp): which block version *)
(* the next block must have.  It keeps a window of the votes (minor         *)
(* versions) of the last blocks, a count per version and the index of the   *)
(* fork in force; the version each block was added under is a table of the  *)
(* database, hf_versions, whose rows outlive the blocks.                    *)
(*                                                                          *)
(* Fork indices start at 1, block heights at 0.  All network schedules of   *)
(* the repository have threshold 0: a fork happens at its height whatever   *)
(* the votes are.                                                           *)
(***************************************************************************)
EXTENDS Naturals, Sequences, SequencesExt, FiniteSetsExt, Functions

CONSTANTS
  BlockIds,     \* the blocks of the network
  Block,        \* their headers and contents
  Versions,     \* block versions
  window_size,  \* votes that are counted
  UINT32        \* 2^32, the range of the counts

ASSUME HardForkAssumption ==
  /\ window_size \in Nat \ {0}
  /\ Versions \subseteq Nat
  /\ UINT32 \in Nat /\ UINT32 > window_size
  /\ \A b \in BlockIds : Block[b].major \in Versions /\ Block[b].minor \in Versions \cup {0}

\* Genesis and early blocks have minor version 0, which is a vote for 1.
get_block_vote(b) == IF Block[b].minor = 0 THEN 1 ELSE Block[b].minor

BlockAt(chain, h) == chain[h + 1]

\* What add_fork lets into the schedule.
IsSchedule(heights) ==
  /\ Len(heights) > 0
  /\ \A i \in DOMAIN heights : heights[i].threshold \in 0..100
  /\ \A i, j \in DOMAIN heights :
       i < j => heights[i].version < heights[j].version /\ heights[i].height < heights[j].height

current_version(hf) == hf.heights[hf.current_fork_index].version

get_effective_version(hf, v) ==
  IF v > Last(hf.heights).version THEN Last(hf.heights).version ELSE v

\* The last fork that has come and has enough votes of its own version or a later one.
get_voted_fork_index(hf, height) ==
  LET votes(n) == MapThenSumSet(LAMBDA m : hf.last_versions[hf.heights[m].version],
                                n..Len(hf.heights)) % UINT32
      threshold(n) == (window_size * hf.heights[n].threshold + 99) \div 100
  IN Max({hf.current_fork_index} \cup
         {n \in hf.current_fork_index + 1..Len(hf.heights) :
            height >= hf.heights[n].height /\ votes(n) >= threshold(n)})

Allows(hf, n, b) ==
  /\ Block[b].major = hf.heights[n].version
  /\ get_block_vote(b) >= hf.heights[n].version

check(hf, b) == Allows(hf, hf.current_fork_index, b)

check_for_height(hf, b, height) == Allows(hf, get_voted_fork_index(hf, height), b)

\* The fork in force once the block before `height` has been counted.
Advance(hf, height) == [hf EXCEPT !.current_fork_index = get_voted_fork_index(hf, height)]

Counted(hf, v) ==
  [hf EXCEPT !.versions = Append(@, v), !.last_versions[v] = (@ + 1) % UINT32]

DropOldest(hf) ==
  [hf EXCEPT !.versions = Tail(@),
             !.last_versions[Head(hf.versions)] = (@ + UINT32 - 1) % UINT32]

\* Votes that leave the window are taken off the counts, which are unsigned.
Shrink(hf) ==
  FoldLeft(LAMBDA f, i : DropOldest(f), hf,
           [i \in 1..(IF Len(hf.versions) < window_size THEN 0
                      ELSE Len(hf.versions) + 1 - window_size) |-> i])

\* HardFork::add: the new object and the rows of hf_versions.
add(hf, rows, b, height) ==
  IF ~check(hf, b) THEN [hf |-> hf, rows |-> rows]
  ELSE [hf |-> Advance(Counted(Shrink(hf), get_effective_version(hf, get_block_vote(b))), height + 1),
        rows |-> (height :> current_version(hf)) @@ rows]

NoVotes(hf) == [hf EXCEPT !.versions = <<>>, !.last_versions = [v \in Versions |-> 0]]

CountBlocks(hf, chain, first, last) ==
  FoldLeft(Counted, NoVotes(hf),
           [i \in 1..(last + 1 - first) |->
              get_effective_version(hf, get_block_vote(BlockAt(chain, first + i - 1)))])

\* init: the votes of the last window and the version of the top block.
init(heights, chain, rows) ==
  LET hf0 == NoVotes([heights |-> heights, versions |-> <<>>, last_versions |-> <<>>,
                      current_fork_index |-> 1])
      top == Len(chain) - 1
      first == IF Len(chain) > window_size THEN Len(chain) - window_size ELSE 0
      index == Min({n \in DOMAIN heights : heights[n].version = rows[top]} \cup {Len(heights)})
  IN IF chain = <<>> THEN hf0
     ELSE Advance([CountBlocks(hf0, chain, first, top) EXCEPT !.current_fork_index = index],
                  Len(chain))

\* reorganize_from_chain_height: recount up to the last block kept, then add the others.
reorganize(hf, chain, rows, chain_height) ==
  LET height == chain_height - 1
      first == IF height >= window_size - 1 THEN height - (window_size - 1) ELSE 0
      start_version == IF height = 0 THEN hf.heights[1].version ELSE rows[height]
      index == Max({1} \cup {n \in 1..hf.current_fork_index : hf.heights[n].version <= start_version})
      kept == Advance([CountBlocks(hf, chain, first, height) EXCEPT !.current_fork_index = index],
                      height + 1)
  IN IF chain_height = 0 \/ height >= Len(chain) THEN [hf |-> hf, rows |-> rows]
     ELSE FoldLeft(LAMBDA s, h : add(s.hf, s.rows, BlockAt(chain, h), h),
                   [hf |-> kept, rows |-> rows],
                   [i \in 1..(Len(chain) - 1 - height) |-> height + i])

\* on_block_popped(1), with the block already gone: the window slides back by the stored
\* version, the counts stay, and the fork is the one of the height before the new one.
on_block_popped(hf, chain, rows) ==
  [hf EXCEPT
     !.versions = <<rows[Len(chain)]>> \o Front(@),
     !.current_fork_index = Max({1} \cup {n \in DOMAIN hf.heights : Len(chain) - 1 >= hf.heights[n].height})]

\* The scheduled version of a height.
get_ideal_version(hf, height) ==
  LET due == {n \in 2..Len(hf.heights) : height >= hf.heights[n].height}
  IN IF due = {} THEN hf.heights[1].version ELSE hf.heights[Max(due)].version
==============================================================================
