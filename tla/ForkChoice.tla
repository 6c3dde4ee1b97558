------------------------------ MODULE ForkChoice ------------------------------
(***************************************************************************)
(* What the chain a node follows promises to those who look at its top      *)
(* block only: it moves to more work, or to a published checkpoint, and it  *)
(* moves back only when a checkpoint or a new release disowns it.           *)
(***************************************************************************)
EXTENDS Naturals, Sequences

CONSTANTS
  Blocks, Start,
  Branch(_),     \* the blocks from the genesis block up to a block
  Work(_),       \* the cumulative difficulty of a block
  Published      \* checkpoints, by height

VARIABLES
  tip,       \* the top block
  points,    \* the checkpoints that have been loaded
  release    \* the release of the daemon

Agrees(b, pts) ==
  \A h \in DOMAIN pts : h < Len(Branch(b)) => Branch(b)[h + 1] = pts[h]

Ancestors(b) == {Branch(b)[i] : i \in 1..Len(Branch(b))}

Init == tip = Start /\ points = <<>> /\ release = 1

\* More work wins, among the branches that agree with the checkpoints.
Adopt(b) ==
  /\ Work(b) > Work(tip) /\ Agrees(b, points)
  /\ tip' = b
  /\ UNCHANGED <<points, release>>

\* A block that is itself a checkpoint wins whatever its work.
AdoptCheckpoint(h) ==
  /\ Agrees(points[h], points)
  /\ tip' = points[h]
  /\ UNCHANGED <<points, release>>

\* A checkpoint is loaded: a branch that contradicts it is cut below it.
Publish(h) ==
  /\ points' = [i \in DOMAIN points \cup {h} |-> IF i = h THEN Published[h] ELSE points[i]]
  /\ IF Agrees(tip, points') THEN tip' = tip
     ELSE tip' \in Ancestors(tip) \ {tip} /\ Agrees(tip', points')
  /\ UNCHANGED release

\* A new release may disown the top of the chain.
Upgrade ==
  /\ release' = release + 1
  /\ tip' \in Ancestors(tip)
  /\ UNCHANGED points

Next ==
  \/ \E b \in Blocks : Adopt(b)
  \/ \E h \in DOMAIN points : AdoptCheckpoint(h)
  \/ \E h \in DOMAIN Published : Publish(h)
  \/ Upgrade

Spec == Init /\ [][Next]_<<tip, points, release>>
==============================================================================
