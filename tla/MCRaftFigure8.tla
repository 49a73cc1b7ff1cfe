--------------------------- MODULE MCRaftFigure8 ---------------------------
(* Five servers that take turns in leading, the setting of TestFigure82C:    *)
(* the behaviours in which the terms pass as Turn says                        *)
EXTENDS Raft, FiniteSetsExt

Five == 1 .. 5

(* The commands given to the leader of term t are all t *)
Commands == 1 .. 4

NoSnapshots == -1

(* Who leads each term, whom its RequestVotes reach, to whom it sends, and   *)
(* up to which index it is given commands                                    *)
Turn == << [leader |-> 1, reached |-> {3, 4},    peers |-> {2},    last |-> 2],
           [leader |-> 3, reached |-> {1, 4, 5}, peers |-> {4},    last |-> 1],
           [leader |-> 1, reached |-> {2, 5},    peers |-> {2, 3}, last |-> 3],
           [leader |-> 3, reached |-> {4, 5},    peers |-> {4, 5}, last |-> 2] >>

Now == Max({currentTerm[i] : i \in Server})

(* A term ends when one peer has the leader's log *)
Done(turn) == \E p \in turn.peers : matchIndex[turn.leader][p] = turn.last

(* No request is lost, every vote is counted, and a leader is cut off when   *)
(* its turn is over                                                          *)
TakeTurns ==
  LET turn == Turn[Now'] IN
  /\ Now' # Now => Now = 0 \/ Done(Turn[Now])
  /\ \A i \in Server \ {turn.leader} :
       /\ ballot'[i] = None /\ applying'[i] = << >>
       /\ \A j \in Server : call'[i][j] = None
  /\ \A j \in Server : call'[turn.leader][j] # None => j \in turn.peers
  /\ log' # log =>
       LET new == log'[turn.leader] IN
       Len(new) <= turn.last + 1 /\ \A k \in 2 .. Len(new) : new[k].Command = new[k].Term
  /\ \A i \in Server : ballot[i] # None =>
       \/ state'[i] = "LEADER"
       \/ /\ ballot'[i] # ballot[i] /\ ballot'[i] # None
          /\ ballot'[i].waiting \cup {i} \cup turn.reached = Server
          /\ \A j \in Server : voteFor'[j] = i /\ currentTerm'[j] = ballot'[i].Term
               => j \in ballot'[i].votes \cup {i}
  /\ \A i, j \in Server : call[i][j] # None /\ call'[i][j] = None => reply[i][j] # None
=============================================================================
