-------------------------- MODULE DeregisterVoting --------------------------
(***************************************************************************)
(* The voting of QuorumCop while blocks are mined, chains reorganise, votes *)
(* arrive late or never, and daemons restart.  The tested nodes are silent; *)
(* time stands still but for the two minutes between relays.                *)
(***************************************************************************)
EXTENDS QuorumCop

VoteNext ==
  \/ \E n \in Nodes : Mine(n) \/ RelayVotes(n) \/ RelayIntervalPasses(n) \/ Restart(n)
  \/ \E n, m \in Nodes : Adopt(n, m)
  \/ \E msg \in net : HandleVotes(msg) \/ Lose(msg)

VoteSpec == Init /\ [][VoteNext]_vars

\* A daemon relays its votes every two minutes.  Again and again a node has read what its
\* peer sent and has caught up with its chain: as one batch at a time is under way and the
\* chains are bounded, that is weak fairness of HandleVotes and of Adopt.
VoteFairness ==
  /\ \A n \in Nodes : WF_vars(RelayVotes(n)) /\ WF_vars(RelayIntervalPasses(n))
  /\ \A n \in Nodes : \A m \in Nodes \ {n} :
       /\ []<>(Height(node[n]) >= Height(node[m]))
       /\ []<>(\A msg \in net : msg.from # n \/ msg.to # m)

FairVoteSpec == VoteSpec /\ VoteFairness

-----------------------------------------------------------------------------

\* Nobody is voted off for the silence of somebody else: every vote in a mined deregister
\* transaction was cast against the node that the transaction kicks on this chain, although
\* a vote signs no more than a height and an index and the chain may have been reorganised
\* since (REORG_SAFETY_BUFFER_IN_BLOCKS).
KicksJustified ==
  \A n \in Nodes : LET s == node[n] IN
    \A i \in DOMAIN s.chain : \A tx \in s.chain[i].txs :
      /\ Cardinality({v.signer : v \in tx.votes}) >= MIN_VOTES_TO_KICK_FULL_NODE
      /\ \A v \in tx.votes : v.against = Target(s, tx)

\* A node is kicked by one block at most, however many heights it was voted off at, and
\* whatever went back to the pool in a reorganisation.
KickedOnce ==
  \A n \in Nodes : LET c == node[n].chain IN
    \A i, j \in DOMAIN c : i # j => c[i].kicked \cap c[j].kicked = {}

\* A node holds and relays only votes that it would accept itself, so that a peer with the
\* same chain never drops it for one.
PoolVotesHold ==
  \A n \in Nodes : \A v \in node[n].votes :
    ~Fatal(node[n], v)

\* Votes spread: again and again every peer has all the votes that a node holds (they got
\* there, or were used up or expired), whatever was lost or forgotten on the way.
VotesSpread ==
  \A n \in Nodes : \A m \in Nodes \ {n} : []<>(node[n].votes \subseteq node[m].votes)
==============================================================================
