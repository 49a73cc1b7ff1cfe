------------------------------- MODULE MCRaft -------------------------------
(* Instances of Raft for TLC *)
EXTENDS Raft, TLC

(* MaxRaftState of a service that never takes a snapshot *)
NoSnapshots == -1

Symmetry == Permutations(Server)

(* A bound: while an election runs, only steps of an election are taken, and *)
(* crashes                                                                   *)
PromptElections ==
  (\E i \in Server : ballot[i] # None) => ballot' # ballot \/ restarts' # restarts

(* Bounds of raft_log. A crash, or a request that is late because its sender *)
(* is in an earlier term than some other server, comes alone and in logs of  *)
(* one entry; and the first command of all is always the same one.           *)
OneFault ==
  restarts' > 0 \/ late' # {} =>
    /\ restarts' = 0 \/ late' = {}
    /\ \A i \in Server : Len(log'[i]) <= 2

LateIsOld ==
  \A m \in late' \ late : \E i \in Server : currentTerm[i] > m.Term

FirstCommand ==
  (\A i \in Server : log[i] = DummyLog) =>
    \A i \in Server : Len(log'[i]) = 2 => log'[i][2].Command = CHOOSE c \in Command : TRUE

(* A bound of raft_snapshot: the services of two servers apply commands *)
TwoServices ==
  Cardinality({i \in Server : lastApplied'[i] > 0 \/ applying'[i] # << >>}) <= 2

(* The behaviours of raft_late: all commands are started before any is sent; *)
(* nothing is lost; and one peer of the leader takes what it is sent at once, *)
(* and applies nothing                                                       *)
StartedFirst ==
  call' # call => \A i \in Server : state[i] = "LEADER" => LastLogIndex(i) = MaxIndex

NothingLost ==
  \A i, j \in Server :
    call[i][j] # None /\ call'[i][j] = None /\ reply[i][j] = None => late' # late

OnePeerIsQuick ==
  \E k \in Server :
    /\ state'[k] # "LEADER" /\ lastApplied'[k] = 0 /\ applying'[k] = << >>
    /\ \A i \in Server : call'[i][k] # InstallNext
    /\ \A m \in late' : m.to # k /\ m.rpc = "AppendEntries"
=============================================================================
