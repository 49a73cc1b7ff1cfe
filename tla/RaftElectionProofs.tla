------------------------- MODULE RaftElectionProofs -------------------------
(* Election safety of Raft, for any set of servers and any bounds.           *)
(* ElectionStep says what a step of Raft may do to the voters, the           *)
(* candidates and the leaders: every action is one, and ElectionStep         *)
(* preserves ElectionInv.                                                    *)
EXTENDS RaftTypeProofs, FiniteSetTheorems

(* A voter's disk follows its memory, and never takes back a vote *)
VoterStep ==
  \A v \in Server :
    /\ persisted'[v].voteFor = voteFor'[v]
    /\ persisted'[v].currentTerm <= currentTerm'[v]
    /\ persisted[v].currentTerm <= persisted'[v].currentTerm
    /\ persisted'[v].currentTerm = persisted[v].currentTerm =>
         persisted[v].voteFor \in {persisted'[v].voteFor, None}

(* In this step v gives i its vote of term t, after none to another *)
NewVote(v, i, t) ==
  /\ persisted'[v].currentTerm = t /\ persisted'[v].voteFor = i
  /\ \A k \in Server \ {i} : ~Stands(v, k, t)

BallotStep ==
  \A i \in Server : ballot'[i] # None =>
    /\ i \notin ballot'[i].waiting \cup ballot'[i].votes
    /\ \A v \in ballot'[i].votes \cup {i} :
         \/ NewVote(v, i, ballot'[i].Term)
         \/ /\ ballot[i] # None /\ ballot[i].Term = ballot'[i].Term
            /\ v \in Supporters(i)

(* A server leads because it did before, or because its ballot was won *)
LeaderStep ==
  \A i \in Server : state'[i] = "LEADER" =>
    /\ currentTerm'[i] = currentTerm[i]
    /\ state[i] = "LEADER" \/ (ballot[i] # None /\ WinsElection(i))

ElectionStep == VoterStep /\ BallotStep /\ LeaderStep

(* Terms are ordered: what elections need of it. *)
LEMMA TermOrder ==
  /\ \A a \in Nat : a <= a /\ ~(a > a) /\ a < a + 1 /\ a <= a + 1 /\ a # a + 1
  /\ \A a, b, c \in Nat : a <= b /\ b <= c => a <= c /\ (a = c => a = b)
  /\ \A a, b \in Nat : a > b => b <= a /\ a # b /\ ~(a <= b)
  /\ \A a, b \in Nat : a <= b => ~(a > b)
  /\ \A a, b \in Nat : b <= a /\ ~(a > b) => a = b
  /\ \A a, b \in Nat : ~(a < b) => b <= a
  /\ \A a, b \in Nat : a <= b /\ b <= a => a = b
  /\ \A a, b \in Nat : a >= b => b <= a
  OBVIOUS

(* A term after a is not before it, and terms are ordered transitively. *)
LEMMA LaterTerm ==
  ASSUME NEW a \in Nat, NEW b \in Nat
  PROVE  /\ b > a => a <= b
         /\ b >= a => a <= b /\ \A c \in Nat : c <= a => c <= b
  OBVIOUS

(* Half of the servers and one more are a majority of them, also when their *)
(* number is odd.                                                           *)
LEMMA HalfAndOne ==
  ASSUME NEW n \in Nat, NEW s \in Nat, n >= s \div 2
  PROVE  2 * (n + 1) > s
OBVIOUS

(* The fields of TypeOK that elections are about. *)
LEMMA VoteType ==
  ASSUME TypeOK
  PROVE  /\ \A v \in Server : /\ persisted[v].currentTerm \in Nat
                              /\ persisted[v].voteFor \in Server \cup {None}
                              /\ currentTerm[v] \in Nat
         /\ \A i \in Server : ballot[i] # None =>
              /\ ballot[i] \in Ballot
              /\ ballot[i].Term \in Nat
              /\ ballot[i].votes \subseteq Server
              /\ Supporters(i) \subseteq Server
<1>1. ASSUME NEW v \in Server
      PROVE  /\ persisted[v].currentTerm \in Nat
             /\ persisted[v].voteFor \in Server \cup {None}
             /\ currentTerm[v] \in Nat
  <2>1. persisted[v] \in PersistedState /\ currentTerm[v] \in Nat
    BY DEF TypeOK
  <2> QED
    BY <2>1, Zenon DEF PersistedState
<1>2. ASSUME NEW i \in Server, ballot[i] # None
      PROVE  /\ ballot[i] \in Ballot /\ ballot[i].Term \in Nat
             /\ ballot[i].votes \subseteq Server /\ Supporters(i) \subseteq Server
  <2>1. ballot[i] \in Ballot
    BY <1>2, Zenon DEF TypeOK
  <2> QED
    BY <2>1, Zenon DEF Ballot, Supporters
<1> QED
  BY <1>1, <1>2, Zenon

(* A step that leaves roles, votes, ballots and disks alone is an *)
(* ElectionStep.                                                  *)
LEMMA IdleStep ==
  ASSUME TypeOK, ElectionInv, UNCHANGED <<state, currentTerm, voteFor, ballot, persisted>>
  PROVE  ElectionStep
<1>1. VoterStep
  BY VoteType, TermOrder, Zenon DEF VoterStep, ElectionInv, DiskBehindMemory
<1>2. BallotStep
  BY DEF BallotStep, ElectionInv, OwnVoteOnce, Supporters
<1>3. LeaderStep
  BY Zenon DEF LeaderStep
<1> QED
  BY <1>1, <1>2, <1>3, Zenon DEF ElectionStep

(* After a persist() the disk of the server holds the term and the vote of *)
(* its memory, and other disks are as they were.                           *)
LEMMA PersistVotes ==
  ASSUME TypeOK, NEW i \in Server,
         Persist(i) \/ (\E data : PersistWithSnapshot(i, data))
  PROVE  /\ \A v \in Server \ {i} : persisted'[v] = persisted[v]
         /\ persisted'[i].currentTerm = currentTerm'[i]
         /\ persisted'[i].voteFor = voteFor'[i]
<1>1. \E p : /\ persisted' = [persisted EXCEPT ![i] = p]
            /\ p.currentTerm = currentTerm'[i] /\ p.voteFor = voteFor'[i]
  <2>1. CASE Persist(i)
    <3>1. PersistData(i).currentTerm = currentTerm'[i] /\ PersistData(i).voteFor = voteFor'[i]
      BY DEF PersistData
    <3> QED
      BY <2>1, <3>1, ZenonT(40) DEF Persist
  <2>2. ASSUME NEW data, PersistWithSnapshot(i, data)
        PROVE  \E p : /\ persisted' = [persisted EXCEPT ![i] = p]
                      /\ p.currentTerm = currentTerm'[i] /\ p.voteFor = voteFor'[i]
    <3> DEFINE p == [PersistData(i) EXCEPT !.snapshot = data]
    <3>1. p.currentTerm = currentTerm'[i] /\ p.voteFor = voteFor'[i]
      BY DEF PersistData
    <3>2. persisted' = [persisted EXCEPT ![i] = p]
      BY <2>2, Zenon DEF PersistWithSnapshot
    <3> HIDE DEF p
    <3> QED
      BY <3>1, <3>2, ZenonT(40)
  <2> QED
    BY <2>1, <2>2, Zenon
<1> QED
  BY <1>1, ZenonT(60) DEF TypeOK

(* A step of one server that keeps its vote, does not lower its term and *)
(* makes no leader is an ElectionStep, whether it persists or not.       *)
LEMMA QuietStep ==
  ASSUME TypeOK, TypeOK', ElectionInv, NEW i \in Server,
         UNCHANGED <<voteFor, ballot>>,
         \A v \in Server \ {i} : persisted'[v] = persisted[v] /\ currentTerm'[v] = currentTerm[v],
         currentTerm[i] <= currentTerm'[i],
         \/ persisted'[i] = persisted[i]
         \/ /\ persisted'[i].currentTerm = currentTerm'[i]
            /\ persisted'[i].voteFor = voteFor'[i],
         \A v \in Server : state'[v] = "LEADER" =>
           state[v] = "LEADER" /\ currentTerm'[v] = currentTerm[v]
  PROVE  ElectionStep
<1>1. ASSUME NEW v \in Server
      PROVE  /\ persisted'[v].voteFor = voteFor'[v]
             /\ persisted'[v].currentTerm <= currentTerm'[v]
             /\ persisted[v].currentTerm <= persisted'[v].currentTerm
             /\ persisted'[v].voteFor = persisted[v].voteFor
  <2>1. /\ persisted[v].currentTerm \in Nat /\ currentTerm[v] \in Nat /\ currentTerm'[v] \in Nat
    BY VoteType, ZenonT(40) DEF TypeOK
  <2>2. persisted[v].voteFor = voteFor[v] /\ persisted[v].currentTerm <= currentTerm[v]
    BY DEF ElectionInv, DiskBehindMemory
  <2>3. CASE v = i /\ persisted'[i] # persisted[i]
    BY <2>1, <2>2, <2>3, TermOrder, ZenonT(40)
  <2>4. CASE persisted'[v] = persisted[v]
    <3>1. currentTerm[v] <= currentTerm'[v]
      BY <2>1, TermOrder, Zenon
    <3> QED
      BY <2>1, <2>2, <2>4, <3>1, TermOrder, Zenon
  <2> QED
    BY <2>3, <2>4, ZenonT(60)
<1>2. VoterStep
  BY <1>1, Zenon DEF VoterStep
<1>3. BallotStep
  BY DEF BallotStep, ElectionInv, OwnVoteOnce, Supporters
<1>4. LeaderStep
  BY Zenon DEF LeaderStep
<1> QED
  BY <1>2, <1>3, <1>4, Zenon DEF ElectionStep

(* A server that adopts a later term becomes a follower, one that does not *)
(* stays as it is.                                                         *)
LEMMA NewerTerm ==
  ASSUME TypeOK, NEW i \in Server, NEW t \in Nat,
         currentTerm' = [currentTerm EXCEPT ![i] = IF t > currentTerm[i] THEN t ELSE @],
         state' = [state EXCEPT ![i] = IF t > currentTerm[i] THEN "FOLLOWER" ELSE @]
  PROVE  /\ \A v \in Server \ {i} : currentTerm'[v] = currentTerm[v] /\ state'[v] = state[v]
         /\ currentTerm[i] <= currentTerm'[i]
         /\ state'[i] = "LEADER" => state[i] = "LEADER" /\ currentTerm'[i] = currentTerm[i]
<1>1. /\ currentTerm \in [Server -> Nat]
      /\ state \in [Server -> {"FOLLOWER", "CANDIDATE", "LEADER"}]
  BY Zenon DEF TypeOK
<1>2. \A v \in Server \ {i} : currentTerm'[v] = currentTerm[v] /\ state'[v] = state[v]
  BY <1>1, Zenon
<1>3. CASE t > currentTerm[i]
  <2>1. currentTerm'[i] = t /\ state'[i] = "FOLLOWER" /\ currentTerm[i] \in Nat
    BY <1>1, <1>3, Zenon
  <2>2. currentTerm[i] <= t
    BY <1>3, <2>1, LaterTerm, Zenon
  <2>3. state'[i] # "LEADER"
    BY <2>1, Zenon
  <2> QED
    BY <1>2, <2>1, <2>2, <2>3, ZenonT(60)
<1>4. CASE ~(t > currentTerm[i])
  <2>1. currentTerm'[i] = currentTerm[i] /\ state'[i] = state[i] /\ currentTerm[i] \in Nat
    BY <1>1, <1>4, Zenon
  <2> QED
    BY <1>2, <2>1, TermOrder, Zenon
<1> QED
  BY <1>3, <1>4, Zenon

(* Start and taking a snapshot are ElectionSteps. *)
LEMMA StartStep ==
  ASSUME TypeOK, TypeOK', ElectionInv, NEW i \in Server,
         \/ \E c \in Command : Start(i, c)
         \/ SaveSnapshot(i) /\ SaveStateAndSnapshot(i, serving[i], sm[i])
  PROVE  ElectionStep
<1>1. /\ UNCHANGED <<state, currentTerm, voteFor, ballot>>
      /\ Persist(i) \/ (\E data : PersistWithSnapshot(i, data))
  BY Zenon DEF Start, SaveSnapshot, SaveStateAndSnapshot, roleVars
<1>2. currentTerm[i] <= currentTerm'[i]
  BY <1>1, VoteType, TermOrder, Zenon
<1> QED
  BY <1>1, <1>2, PersistVotes, QuietStep, Zenon

(* Stepping down on an answer is an ElectionStep, also where *)
(* InstallSnapshotToPeers does not persist the new term.     *)
LEMMA StepDownStep ==
  ASSUME TypeOK, TypeOK', ElectionInv, NEW i \in Server, NEW j \in Server,
         \/ AppendEntriesReplied(i, j) /\ AppendEntriesStepDown(i, j)
         \/ InstallSnapshotFinish(i, j)
  PROVE  ElectionStep
<1>1. /\ UNCHANGED <<voteFor, ballot>>
      /\ Persist(i) \/ UNCHANGED persisted
  BY Zenon DEF AppendEntriesReplied, AppendEntriesStepDown, InstallSnapshotFinish
<1>2. reply[i][j].Term \in Nat
  BY CallType, Zenon DEF AppendEntriesReplied, InstallSnapshotFinish, AppendEntriesReply,
     InstallSnapshotReply
<1>3. /\ \A v \in Server \ {i} : currentTerm'[v] = currentTerm[v] /\ state'[v] = state[v]
      /\ currentTerm[i] <= currentTerm'[i]
      /\ state'[i] = "LEADER" => state[i] = "LEADER" /\ currentTerm'[i] = currentTerm[i]
  <2>1. /\ currentTerm' = [currentTerm EXCEPT ![i] =
             IF reply[i][j].Term > currentTerm[i] THEN reply[i][j].Term ELSE @]
        /\ state' = [state EXCEPT ![i] =
             IF reply[i][j].Term > currentTerm[i] THEN "FOLLOWER" ELSE @]
    BY Zenon DEF AppendEntriesStepDown, InstallSnapshotFinish
  <2> QED
    BY <1>2, <2>1, NewerTerm, ZenonT(40)
<1>4. \A v \in Server : state'[v] = "LEADER" =>
        state[v] = "LEADER" /\ currentTerm'[v] = currentTerm[v]
  BY <1>3, Zenon
<1> QED
  BY <1>1, <1>3, <1>4, PersistVotes, QuietStep, ZenonT(60)

(* AppendEntries in the current or a later term is an ElectionStep: voteFor *)
(* is not reset, and need not be.                                           *)
LEMMA AdoptLeaderStep ==
  ASSUME TypeOK, TypeOK', ElectionInv, NEW m \in AppendEntriesArgs, AppendEntries(m),
         AppendEntriesReject(m) \/ AppendEntriesAccept(m)
  PROVE  ElectionStep
<1> DEFINE j == m.to
<1>1. j \in Server /\ m.Term \in Nat
  BY DEF AppendEntriesArgs
<1>2. AdoptLeader(j, m) /\ Persist(j) /\ UNCHANGED ballot
  BY ZenonT(40) DEF AppendEntries, AppendEntriesReject, AppendEntriesAccept
<1>3. /\ UNCHANGED voteFor
      /\ \A v \in Server \ {j} : currentTerm'[v] = currentTerm[v] /\ state'[v] = state[v]
      /\ currentTerm[j] <= currentTerm'[j]
      /\ state'[j] = "FOLLOWER"
  BY <1>1, <1>2, ZenonT(40) DEF TypeOK, AdoptLeader
<1>4. \A v \in Server : state'[v] = "LEADER" =>
        state[v] = "LEADER" /\ currentTerm'[v] = currentTerm[v]
  BY <1>3, Zenon
<1> QED
  BY <1>1, <1>2, <1>3, <1>4, PersistVotes, QuietStep, ZenonT(60)

(* InstallSnapshot is an ElectionStep. *)
LEMMA InstallSnapshotStep ==
  ASSUME TypeOK, TypeOK', ElectionInv, NEW m \in InstallSnapshotArgs, InstallSnapshot(m)
  PROVE  ElectionStep
<1> DEFINE j == m.to
<1>1. j \in Server /\ m.Term \in Nat
  BY Zenon DEF InstallSnapshotArgs
<1>2. /\ UNCHANGED <<voteFor, ballot>>
      /\ \/ Persist(j) \/ (\E data : PersistWithSnapshot(j, data)) \/ UNCHANGED persisted
  BY DEF InstallSnapshot
<1>3. /\ \A v \in Server \ {j} : currentTerm'[v] = currentTerm[v] /\ state'[v] = state[v]
      /\ currentTerm[j] <= currentTerm'[j]
      /\ state'[j] = "LEADER" => state[j] = "LEADER" /\ currentTerm'[j] = currentTerm[j]
  <2>1. /\ currentTerm' = [currentTerm EXCEPT ![j] = IF m.Term > currentTerm[j] THEN m.Term ELSE @]
        /\ state' = [state EXCEPT ![j] = IF m.Term > currentTerm[j] THEN "FOLLOWER" ELSE @]
    BY DEF InstallSnapshot
  <2> QED
    BY <1>1, <2>1, NewerTerm, ZenonT(40)
<1>4. \A v \in Server : state'[v] = "LEADER" =>
        state[v] = "LEADER" /\ currentTerm'[v] = currentTerm[v]
  BY <1>3, Zenon
<1> QED
  BY <1>1, <1>2, <1>3, <1>4, PersistVotes, QuietStep, ZenonT(60)

(* A server that persists a new term, or its first vote in a term, takes *)
(* back no vote.                                                         *)
LEMMA PersistVoterStep ==
  ASSUME TypeOK, TypeOK', ElectionInv, NEW i \in Server, Persist(i),
         \A v \in Server \ {i} : voteFor'[v] = voteFor[v] /\ currentTerm'[v] = currentTerm[v],
         currentTerm[i] <= currentTerm'[i],
         currentTerm'[i] = currentTerm[i] => voteFor[i] \in {voteFor'[i], None}
  PROVE  VoterStep
<1> SUFFICES ASSUME NEW v \in Server
             PROVE  /\ persisted'[v].voteFor = voteFor'[v]
                    /\ persisted'[v].currentTerm <= currentTerm'[v]
                    /\ persisted[v].currentTerm <= persisted'[v].currentTerm
                    /\ persisted'[v].currentTerm = persisted[v].currentTerm =>
                         persisted[v].voteFor \in {persisted'[v].voteFor, None}
  BY Zenon DEF VoterStep
<1>1. persisted[v].currentTerm \in Nat /\ currentTerm[v] \in Nat /\ currentTerm'[v] \in Nat
  BY VoteType, ZenonT(40) DEF TypeOK
<1>2. persisted[v].voteFor = voteFor[v] /\ persisted[v].currentTerm <= currentTerm[v]
  BY Zenon DEF ElectionInv, DiskBehindMemory
<1>3. /\ v # i => persisted'[v] = persisted[v]
      /\ persisted'[i].currentTerm = currentTerm'[i]
      /\ persisted'[i].voteFor = voteFor'[i]
  BY PersistVotes, Zenon
<1>4. CASE v = i
  <2>1. /\ currentTerm[v] <= persisted'[v].currentTerm
        /\ persisted'[v].currentTerm = currentTerm'[v] /\ persisted'[v].voteFor = voteFor'[v]
    BY <1>3, <1>4, Zenon
  <2>2. /\ persisted'[v].currentTerm <= currentTerm'[v]
        /\ persisted[v].currentTerm <= persisted'[v].currentTerm
        /\ persisted'[v].currentTerm = persisted[v].currentTerm => currentTerm'[v] = currentTerm[v]
    BY <1>1, <1>2, <2>1, TermOrder, ZenonT(40)
  <2> QED
    BY <1>2, <1>4, <2>1, <2>2, ZenonT(60)
<1>5. CASE v # i
  <2>1. /\ persisted'[v] = persisted[v] /\ currentTerm'[v] = currentTerm[v]
        /\ voteFor'[v] = voteFor[v]
    BY <1>3, <1>5, Zenon
  <2> QED
    BY <1>1, <1>2, <2>1, TermOrder, Zenon
<1> QED
  BY <1>4, <1>5, Zenon

(* Election is an ElectionStep: nobody can have counted the vote of the *)
(* candidate in its new term.                                           *)
LEMMA ElectionIsStep ==
  ASSUME TypeOK, TypeOK', ElectionInv, NEW i \in Server, Election(i)
  PROVE  ElectionStep
<1>1. /\ currentTerm \in [Server -> Nat] /\ voteFor \in [Server -> Server \cup {None}]
      /\ state \in [Server -> {"FOLLOWER", "CANDIDATE", "LEADER"}]
      /\ ballot \in [Server -> Ballot \cup {None}]
  BY ZenonT(40) DEF TypeOK
<1>2. /\ currentTerm' = [currentTerm EXCEPT ![i] = @ + 1]
      /\ voteFor' = [voteFor EXCEPT ![i] = i]
      /\ state' = [state EXCEPT ![i] = "CANDIDATE"]
      /\ Persist(i)
  BY Zenon DEF Election
<1>3. /\ currentTerm'[i] = currentTerm[i] + 1 /\ currentTerm[i] \in Nat
      /\ voteFor'[i] = i /\ state'[i] = "CANDIDATE"
      /\ \A v \in Server \ {i} : /\ voteFor'[v] = voteFor[v] /\ currentTerm'[v] = currentTerm[v]
                                 /\ state'[v] = state[v]
  BY <1>1, <1>2, Zenon
<1>4. VoterStep
  <2>1. currentTerm[i] <= currentTerm'[i] /\ currentTerm'[i] # currentTerm[i]
    BY <1>3, SMTT(60)
  <2> QED
    BY <1>2, <1>3, <2>1, PersistVoterStep, Zenon
<1>5. BallotStep
  <2>1. \A k \in Server : ~Stands(i, k, currentTerm'[i])
    <3>1. persisted[i].currentTerm \in Nat /\ persisted[i].currentTerm <= currentTerm[i]
      BY VoteType, Zenon DEF ElectionInv, DiskBehindMemory
    <3> QED
      BY <1>3, <3>1, SMTT(60) DEF Stands
  <2>2. NewVote(i, i, currentTerm'[i])
    BY <1>2, <1>3, <2>1, PersistVotes, ZenonT(60) DEF NewVote
  <2>3. /\ \A k \in Server \ {i} : ballot'[k] = ballot[k]
        /\ ballot'[i] = [Term |-> currentTerm'[i], LastLogIndex |-> LastLogIndex(i),
                         LastLogTerm |-> LastLogTerm(i), waiting |-> Server \ {i}, votes |-> {}]
    BY <1>1, Zenon DEF Election
  <2>4. /\ ballot'[i].Term = currentTerm'[i] /\ i \notin ballot'[i].waiting
        /\ ballot'[i].votes = {}
    BY <2>3, SMTT(60)
  <2> SUFFICES ASSUME NEW k \in Server, ballot'[k] # None
               PROVE  /\ k \notin ballot'[k].waiting \cup ballot'[k].votes
                      /\ \A v \in ballot'[k].votes \cup {k} :
                           \/ NewVote(v, k, ballot'[k].Term)
                           \/ /\ ballot[k] # None /\ ballot[k].Term = ballot'[k].Term
                              /\ v \in Supporters(k)
    BY Zenon DEF BallotStep
  <2>5. CASE k = i
    BY <2>2, <2>4, <2>5, ZenonT(60)
  <2>6. CASE k # i
    BY <2>3, <2>6, Zenon DEF ElectionInv, OwnVoteOnce, Supporters
  <2> QED
    BY <2>5, <2>6, Zenon
<1>6. LeaderStep
  BY <1>3, Zenon DEF LeaderStep
<1> QED
  BY <1>4, <1>5, <1>6, ZenonT(60) DEF ElectionStep

(* The end of Election is an ElectionStep: only a winner leads. *)
LEMMA ElectionEndStep ==
  ASSUME TypeOK, TypeOK', ElectionInv, NEW i \in Server, ElectionEnd(i)
  PROVE  ElectionStep
<1>1. /\ ballot \in [Server -> Ballot \cup {None}]
      /\ state \in [Server -> {"FOLLOWER", "CANDIDATE", "LEADER"}]
  BY ZenonT(40) DEF TypeOK
<1>2. /\ UNCHANGED <<currentTerm, voteFor>> /\ ballot[i] # None
      /\ Persist(i) \/ UNCHANGED persisted
      /\ ballot' = [ballot EXCEPT ![i] = None]
      /\ UNCHANGED state \/ (WinsElection(i) /\ state' = [state EXCEPT ![i] = "LEADER"])
  BY Zenon DEF ElectionEnd, roleVars
<1>3. VoterStep
  <2>1. CASE UNCHANGED persisted
    BY <1>2, <2>1, VoteType, TermOrder, ZenonT(60) DEF VoterStep, ElectionInv, DiskBehindMemory
  <2>2. CASE Persist(i)
    <3>1. currentTerm[i] <= currentTerm'[i]
      BY <1>2, VoteType, TermOrder, Zenon
    <3> QED
      BY <1>2, <2>2, <3>1, PersistVoterStep, ZenonT(60)
  <2> QED
    BY <1>2, <2>1, <2>2, Zenon
<1>4. BallotStep
  BY <1>1, <1>2, Zenon DEF BallotStep, ElectionInv, OwnVoteOnce, Supporters
<1>5. LeaderStep
  BY <1>1, <1>2, Zenon DEF LeaderStep
<1> QED
  BY <1>3, <1>4, <1>5, Zenon DEF ElectionStep

(* A restart is an ElectionStep: the term may fall back, the vote on disk *)
(* does not.                                                              *)
LEMMA RestartStep ==
  ASSUME TypeOK, TypeOK', ElectionInv, NEW i \in Server, Restart(i)
  PROVE  ElectionStep
<1>1. /\ currentTerm \in [Server -> Nat] /\ voteFor \in [Server -> Server \cup {None}]
      /\ state \in [Server -> {"FOLLOWER", "CANDIDATE", "LEADER"}]
      /\ ballot \in [Server -> Ballot \cup {None}]
  BY Zenon DEF TypeOK
<1>2. /\ state' = [state EXCEPT ![i] = "FOLLOWER"]
      /\ currentTerm' = [currentTerm EXCEPT ![i] = persisted[i].currentTerm]
      /\ voteFor' = [voteFor EXCEPT ![i] = persisted[i].voteFor]
      /\ ballot' = [ballot EXCEPT ![i] = None]
      /\ UNCHANGED persisted
  BY Zenon DEF Restart
<1>3. VoterStep
  <2> SUFFICES ASSUME NEW v \in Server
               PROVE  /\ persisted[v].voteFor = voteFor'[v]
                      /\ persisted[v].currentTerm <= currentTerm'[v]
                      /\ persisted[v].currentTerm <= persisted[v].currentTerm
    BY <1>2, Zenon DEF VoterStep
  <2>1. /\ persisted[v].currentTerm \in Nat
        /\ persisted[v].voteFor = voteFor[v] /\ persisted[v].currentTerm <= currentTerm[v]
    BY VoteType, Zenon DEF ElectionInv, DiskBehindMemory
  <2> QED
    BY <1>1, <1>2, <2>1, SMTT(60)
<1>4. BallotStep
  BY <1>1, <1>2, Zenon DEF BallotStep, ElectionInv, OwnVoteOnce, Supporters
<1>5. LeaderStep
  BY <1>1, <1>2, Zenon DEF LeaderStep
<1> QED
  BY <1>3, <1>4, <1>5, Zenon DEF ElectionStep

(* SendRequest counts an answer for the ballot that asked, and only if the *)
(* vote was granted.                                                       *)
LEMMA CountVoteStep ==
  ASSUME TypeOK, NEW m \in RequestVoteArgs, NEW granted, CountVote(m, granted)
  PROVE  \/ UNCHANGED ballot
         \/ /\ ballot[m.from] # None
            /\ m.to \in ballot[m.from].waiting /\ m.Term = ballot[m.from].Term
            /\ ballot'[m.from].Term = m.Term
            /\ ballot'[m.from].waiting \subseteq ballot[m.from].waiting
            /\ \/ ballot'[m.from].votes = ballot[m.from].votes
               \/ granted /\ ballot'[m.from].votes = ballot[m.from].votes \cup {m.to}
            /\ \A k \in Server \ {m.from} : ballot'[k] = ballot[k]
<1>1. m.from \in Server /\ m.to \in Server
  BY Zenon DEF RequestVoteArgs
<1>2. CASE m \in Canvassing(m.from)
           /\ \E inTime \in BOOLEAN :
                ballot' = [ballot EXCEPT
                  ![m.from].waiting = @ \ {m.to},
                  ![m.from].votes = IF inTime /\ granted THEN @ \cup {m.to} ELSE @]
  <2>1. ballot[m.from] # None
    BY <1>2, Zenon DEF Canvassing
  <2>2. ballot[m.from] \in Ballot /\ ballot \in [Server -> Ballot \cup {None}]
    BY <1>1, <2>1, ZenonT(60) DEF TypeOK
  <2>3. m.to \in ballot[m.from].waiting /\ m.Term = ballot[m.from].Term
    <3>1. PICK j \in ballot[m.from].waiting : m = RequestVoteTo(m.from, j)
      BY <1>2, <2>1, Zenon DEF Canvassing
    <3> QED
      BY <3>1, SMTT(60) DEF RequestVoteTo
  <2>4. PICK inTime \in BOOLEAN :
          ballot' = [ballot EXCEPT
            ![m.from].waiting = @ \ {m.to},
            ![m.from].votes = IF inTime /\ granted THEN @ \cup {m.to} ELSE @]
    BY <1>2, Zenon
  <2>5. ballot'[m.from] = [ballot[m.from] EXCEPT
          !.waiting = @ \ {m.to},
          !.votes = IF inTime /\ granted THEN @ \cup {m.to} ELSE @]
    BY <1>1, <2>2, <2>4, ZenonT(40)
  <2>6. /\ ballot'[m.from].Term = ballot[m.from].Term
        /\ ballot'[m.from].waiting = ballot[m.from].waiting \ {m.to}
        /\ ballot'[m.from].votes = IF inTime /\ granted THEN ballot[m.from].votes \cup {m.to}
                                    ELSE ballot[m.from].votes
    BY <2>2, <2>5, Zenon DEF Ballot
  <2>7. \A k \in Server \ {m.from} : ballot'[k] = ballot[k]
    BY <1>1, <2>2, <2>4, Zenon
  <2> QED
    BY <2>1, <2>3, <2>6, <2>7, ZenonT(60)
<1> QED
  BY <1>2, Zenon DEF CountVote

(* RequestVote is an ElectionStep: a vote is granted once in a term, and *)
(* persisted before it is counted.                                       *)
LEMMA RequestVoteStep ==
  ASSUME TypeOK, TypeOK', ElectionInv, NEW m \in RequestVoteArgs, RequestVote(m)
  PROVE  ElectionStep
<1> DEFINE j == m.to
           granted == GrantsVote(j, m)
           newer == m.Term > currentTerm[j]
<1>1. m.from \in Server /\ j \in Server /\ m.Term \in Nat
  BY Zenon DEF RequestVoteArgs
<1>2. /\ currentTerm \in [Server -> Nat] /\ voteFor \in [Server -> Server \cup {None}]
      /\ state \in [Server -> {"FOLLOWER", "CANDIDATE", "LEADER"}]
  BY Zenon DEF TypeOK
<1>3. /\ currentTerm' = [currentTerm EXCEPT ![j] = IF newer THEN m.Term ELSE @]
      /\ state' = [state EXCEPT ![j] = IF newer \/ granted THEN "FOLLOWER" ELSE @]
      /\ voteFor' = [voteFor EXCEPT ![j] = IF granted THEN m.from
                                           ELSE IF newer THEN None ELSE @]
      /\ CountVote(m, granted) /\ Persist(j)
  BY Zenon DEF RequestVote
<1>4. /\ \A v \in Server \ {j} : /\ voteFor'[v] = voteFor[v] /\ currentTerm'[v] = currentTerm[v]
                                 /\ state'[v] = state[v]
      /\ currentTerm'[j] = IF newer THEN m.Term ELSE currentTerm[j]
      /\ state'[j] = IF newer \/ granted THEN "FOLLOWER" ELSE state[j]
      /\ voteFor'[j] = IF granted THEN m.from ELSE IF newer THEN None ELSE voteFor[j]
      /\ currentTerm[j] \in Nat
  BY <1>1, <1>2, <1>3, ZenonT(60)
<1>5. granted => /\ m.Term >= currentTerm[j] /\ currentTerm'[j] = m.Term
                 /\ m.Term = currentTerm[j] => voteFor[j] \in {m.from, None}
  BY <1>1, <1>4, SMTT(60) DEF GrantsVote
<1> HIDE DEF granted
<1>6. VoterStep
  <2>1. currentTerm[j] <= currentTerm'[j]
    BY <1>1, <1>4, TermOrder, ZenonT(60)
  <2>2. currentTerm'[j] = currentTerm[j] => voteFor[j] \in {voteFor'[j], None}
    <3>1. CASE newer
      BY <1>1, <1>4, <3>1, TermOrder, Zenon
    <3>2. CASE granted
      BY <1>4, <1>5, <3>2, Zenon
    <3>3. CASE ~newer /\ ~granted
      BY <1>4, <3>3, Zenon
    <3> QED
      BY <3>1, <3>2, <3>3, Zenon
  <2> QED
    BY <1>1, <1>3, <1>4, <2>1, <2>2, PersistVoterStep, ZenonT(40)
<1>7. granted => NewVote(j, m.from, m.Term)
  <2> SUFFICES ASSUME granted PROVE NewVote(j, m.from, m.Term)
    BY Zenon
  <2>1. persisted'[j].currentTerm = m.Term /\ persisted'[j].voteFor = m.from
    BY <1>1, <1>3, <1>4, <1>5, PersistVotes, Zenon
  <2>2. /\ persisted[j].currentTerm \in Nat /\ persisted[j].currentTerm <= currentTerm[j]
        /\ persisted[j].voteFor = voteFor[j]
    BY <1>1, VoteType, Zenon DEF ElectionInv, DiskBehindMemory
  <2>3. ASSUME NEW k \in Server \ {m.from}, Stands(j, k, m.Term) PROVE FALSE
    <3>1. persisted[j].currentTerm <= m.Term /\ currentTerm[j] <= m.Term
      <4>1. m.Term >= currentTerm[j] /\ currentTerm[j] \in Nat
        BY <1>4, <1>5, Zenon
      <4> QED
        BY <1>1, <2>2, <4>1, LaterTerm, Zenon
    <3>2. voteFor[j] = k /\ persisted[j].currentTerm = m.Term
      BY <1>1, <2>2, <2>3, <3>1, TermOrder, Zenon DEF Stands
    <3>4. m.Term = currentTerm[j]
      <4>1. m.Term <= currentTerm[j] /\ currentTerm[j] \in Nat
        BY <1>4, <2>2, <3>2, Zenon
      <4> QED
        BY <1>1, <3>1, <4>1, TermOrder, Zenon
    <3>3. k # None
      BY NoneAssumption, Zenon
    <3> QED
      BY <1>5, <3>2, <3>3, <3>4, Zenon
  <2> QED
    BY <2>1, <2>3, Zenon DEF NewVote
<1>8. BallotStep
  <2> SUFFICES ASSUME NEW k \in Server, ballot'[k] # None
               PROVE  /\ k \notin ballot'[k].waiting \cup ballot'[k].votes
                      /\ \A v \in ballot'[k].votes \cup {k} :
                           \/ NewVote(v, k, ballot'[k].Term)
                           \/ /\ ballot[k] # None /\ ballot[k].Term = ballot'[k].Term
                              /\ v \in Supporters(k)
    BY Zenon DEF BallotStep
  <2>1. CASE ballot'[k] = ballot[k]
    BY <2>1, Zenon DEF ElectionInv, OwnVoteOnce, Supporters
  <2>2. CASE ballot'[k] # ballot[k]
    <3>1. /\ k = m.from /\ ballot[k] # None
          /\ j \in ballot[k].waiting /\ ballot[k].Term = m.Term /\ ballot'[k].Term = m.Term
          /\ ballot'[k].waiting \subseteq ballot[k].waiting
          /\ \/ ballot'[k].votes = ballot[k].votes
             \/ granted /\ ballot'[k].votes = ballot[k].votes \cup {j}
      BY <1>3, <2>2, CountVoteStep, SMTT(60)
    <3>2. k \notin ballot[k].waiting \cup ballot[k].votes
      BY <3>1, Zenon DEF ElectionInv, OwnVoteOnce
    <3> QED
      BY <1>7, <3>1, <3>2, ZenonT(60) DEF Supporters
  <2> QED
    BY <2>1, <2>2, Zenon
<1>9. LeaderStep
  <2> SUFFICES ASSUME NEW v \in Server, state'[v] = "LEADER"
               PROVE  currentTerm'[v] = currentTerm[v] /\ state[v] = "LEADER"
    BY Zenon DEF LeaderStep
  <2>1. CASE v = j
    BY <1>4, <2>1, Zenon
  <2>2. CASE v # j
    BY <1>4, <2>2, Zenon
  <2> QED
    BY <2>1, <2>2, Zenon
<1> QED
  BY <1>6, <1>8, <1>9, Zenon DEF ElectionStep

-----------------------------------------------------------------------------

(* Two majorities of the servers have a server in common. *)
LEMMA MajoritiesIntersect ==
  ASSUME NEW P \in SUBSET Server, NEW Q \in SUBSET Server, Majority(P), Majority(Q)
  PROVE  P \cap Q # {}
<1>1. /\ Cardinality(P) \in Nat /\ Cardinality(Q) \in Nat /\ Cardinality(Server) \in Nat
      /\ IsFiniteSet(P) /\ IsFiniteSet(Q)
  BY ServerAssumption, FS_Subset, FS_CardinalityType, Zenon
<1>2. Cardinality(P) + Cardinality(Q) > Cardinality(Server)
  BY <1>1, SMTT(60) DEF Majority
<1> QED
  BY <1>2, ServerAssumption, FS_MajoritiesIntersect, Zenon

(* len(peers)/2 votes of others and the own vote are a majority: the count *)
(* of Election is not off by one, for an odd and for an even number of     *)
(* servers.                                                                *)
LEMMA WinnerHasMajority ==
  ASSUME TypeOK, OwnVoteOnce, NEW i \in Server, ballot[i] # None, WinsElection(i)
  PROVE  Majority(Supporters(i))
<1> DEFINE V == ballot[i].votes
<1>1. V \subseteq Server /\ i \notin V
  BY VoteType, Zenon DEF OwnVoteOnce
<1>2. IsFiniteSet(V) /\ Cardinality(V) \in Nat /\ Cardinality(Server) \in Nat
  BY <1>1, ServerAssumption, FS_Subset, FS_CardinalityType, Zenon
<1>3. Cardinality(V \cup {i}) = Cardinality(V) + 1
  BY <1>1, <1>2, FS_AddElement, ZenonT(40)
<1>4. Cardinality(V) >= Cardinality(Server) \div 2
  BY Zenon DEF WinsElection
<1>5. 2 * Cardinality(V \cup {i}) > Cardinality(Server)
  BY <1>2, <1>3, <1>4, HalfAndOne, ZenonT(60)
<1> QED
  BY <1>5, Zenon DEF Majority, Supporters

(* A vote on disk still stands after a step of the voters. *)
LEMMA StandsKept ==
  ASSUME TypeOK, TypeOK', VoterStep,
         NEW v \in Server, NEW i \in Server, NEW t \in Nat, Stands(v, i, t)
  PROVE  Stands(v, i, t)'
<1>1. /\ persisted[v].currentTerm \in Nat /\ persisted'[v].currentTerm \in Nat
      /\ i # None
  <2>1. persisted'[v] \in PersistedState
    BY Zenon DEF TypeOK
  <2> QED
    BY <2>1, VoteType, NoneAssumption, ZenonT(60) DEF PersistedState
<1>2. /\ persisted[v].currentTerm <= persisted'[v].currentTerm
      /\ persisted'[v].currentTerm = persisted[v].currentTerm =>
           persisted[v].voteFor \in {persisted'[v].voteFor, None}
  BY Zenon DEF VoterStep
<1> QED
  BY <1>1, <1>2, SMTT(60) DEF Stands

(* The argument of election safety: a step that takes back no vote, counts *)
(* only new votes and makes leaders only of winners preserves ElectionInv. *)
(* Two leaders of one term would need quorums that share a voter.          *)
LEMMA ElectionStepPreserves ==
  ASSUME TypeOK, TypeOK', ElectionInv, ElectionStep
  PROVE  ElectionInv'
<1> USE DEF ElectionInv, ElectionStep
<1>1. DiskBehindMemory'
  BY Zenon DEF DiskBehindMemory, VoterStep
<1>2. OwnVoteOnce'
  BY Zenon DEF OwnVoteOnce, BallotStep
<1>3. ASSUME NEW i \in Server, ballot'[i] # None,
             NEW v \in ballot'[i].votes \cup {i}
      PROVE  /\ v \in Server /\ ballot'[i].Term \in Nat
             /\ \/ NewVote(v, i, ballot'[i].Term)
                \/ /\ ballot[i] # None /\ ballot[i].Term = ballot'[i].Term
                   /\ v \in Supporters(i) /\ Stands(v, i, ballot'[i].Term)
  <2>1. ballot'[i] \in Ballot
    BY <1>3, ZenonT(60) DEF TypeOK
  <2>2. v \in Server /\ ballot'[i].Term \in Nat
    BY <2>1, Zenon DEF Ballot
  <2> QED
    BY <1>3, <2>2, ZenonT(60) DEF BallotStep, CountedVotesStand
<1>4. CountedVotesStand'
  <2> SUFFICES ASSUME NEW i \in Server, ballot'[i] # None,
                      NEW v \in ballot'[i].votes \cup {i}
               PROVE  Stands(v, i, ballot[i].Term)'
    BY Zenon DEF CountedVotesStand, Supporters
  <2>1. CASE NewVote(v, i, ballot'[i].Term)
    BY <2>1, Zenon DEF NewVote, Stands
  <2>2. CASE Stands(v, i, ballot'[i].Term)
    <3>1. v \in Server /\ ballot'[i].Term \in Nat
      BY <1>3, Zenon
    <3>2. ASSUME NEW t \in Nat, t = ballot'[i].Term PROVE Stands(v, i, t)'
      BY <2>2, <3>1, <3>2, StandsKept, ZenonT(60)
    <3> QED
      BY <3>1, <3>2, Zenon DEF Stands
  <2> QED
    BY <1>3, <2>1, <2>2, Zenon
<1>5. VotesExclusive'
  <2> SUFFICES ASSUME NEW i \in Server, NEW j \in Server, i # j,
                      ballot'[i] # None, ballot'[j] # None,
                      ballot'[i].Term = ballot'[j].Term,
                      NEW v \in ballot'[i].votes \cup {i}, v \in ballot'[j].votes \cup {j}
               PROVE  FALSE
    BY Zenon DEF VotesExclusive, Supporters
  <2>1. CASE NewVote(v, i, ballot'[i].Term) /\ NewVote(v, j, ballot'[i].Term)
    BY <2>1, Zenon DEF NewVote
  <2>2. CASE NewVote(v, i, ballot'[i].Term) /\ Stands(v, j, ballot'[i].Term)
    BY <2>2, Zenon DEF NewVote
  <2>3. CASE NewVote(v, j, ballot'[i].Term) /\ Stands(v, i, ballot'[i].Term)
    BY <2>3, Zenon DEF NewVote
  <2>4. CASE /\ ballot[i] # None /\ ballot[i].Term = ballot'[i].Term /\ v \in Supporters(i)
             /\ ballot[j] # None /\ ballot[j].Term = ballot'[j].Term /\ v \in Supporters(j)
    BY <2>4, Zenon DEF VotesExclusive
  <2> QED
    BY <1>3, <2>1, <2>2, <2>3, <2>4, ZenonT(60)
<1>6. ASSUME NEW i \in Server, state'[i] = "LEADER", NEW Q \in SUBSET Server, Majority(Q),
             \A v \in Q :
               /\ Stands(v, i, currentTerm[i])
               /\ \A j \in Server \ {i} :
                    ballot[j] # None /\ ballot[j].Term = currentTerm[i] => v \notin Supporters(j)
      PROVE  \A v \in Q :
               /\ Stands(v, i, currentTerm[i])'
               /\ \A j \in Server \ {i} :
                    ballot'[j] # None /\ ballot'[j].Term = currentTerm'[i]
                      => v \notin ballot'[j].votes \cup {j}
  <2> SUFFICES ASSUME NEW v \in Q
               PROVE  /\ Stands(v, i, currentTerm[i])'
                      /\ \A j \in Server \ {i} :
                           ballot'[j] # None /\ ballot'[j].Term = currentTerm'[i]
                             => v \notin ballot'[j].votes \cup {j}
    BY Zenon
  <2>1. currentTerm'[i] = currentTerm[i] /\ currentTerm[i] \in Nat
    BY <1>6, VoteType, ZenonT(60) DEF LeaderStep
  <2>2. Stands(v, i, currentTerm[i])
    BY <1>6, Zenon
  <2>3. Stands(v, i, currentTerm[i])'
    <3>1. ASSUME NEW t \in Nat, t = currentTerm[i] PROVE Stands(v, i, t)'
      BY <2>2, <3>1, StandsKept, Zenon
    <3> QED
      BY <2>1, <3>1, Zenon DEF Stands
  <2>4. ASSUME NEW j \in Server \ {i}, ballot'[j] # None, ballot'[j].Term = currentTerm'[i],
               v \in ballot'[j].votes \cup {j}
        PROVE  FALSE
    <3>1. ~NewVote(v, j, ballot'[j].Term)
      BY <2>1, <2>2, <2>4, ZenonT(60) DEF NewVote
    <3> QED
      BY <1>3, <1>6, <2>1, <2>4, <3>1, ZenonT(60)
  <2> QED
    BY <2>3, <2>4, Zenon
<1>7. ASSUME NEW i \in Server, ballot[i] # None, WinsElection(i)
      PROVE  /\ Supporters(i) \in SUBSET Server /\ Majority(Supporters(i))
             /\ ballot[i].Term = currentTerm[i]
             /\ \A v \in Supporters(i) :
                  /\ Stands(v, i, currentTerm[i])
                  /\ \A j \in Server \ {i} :
                       ballot[j] # None /\ ballot[j].Term = currentTerm[i]
                         => v \notin Supporters(j)
  <2>1. Supporters(i) \in SUBSET Server /\ Majority(Supporters(i))
    BY <1>7, VoteType, WinnerHasMajority, Zenon
  <2>2. ballot[i].Term = currentTerm[i]
    BY <1>7, Zenon DEF WinsElection
  <2> QED
    BY <1>7, <2>1, <2>2, ZenonT(60) DEF CountedVotesStand, VotesExclusive
<1>8. LeaderHasQuorum'
  <2> SUFFICES ASSUME NEW i \in Server, state'[i] = "LEADER"
               PROVE  \E Q \in SUBSET Server :
                        /\ Majority(Q)
                        /\ \A v \in Q :
                             /\ Stands(v, i, currentTerm[i])'
                             /\ \A j \in Server \ {i} :
                                  ballot'[j] # None /\ ballot'[j].Term = currentTerm'[i]
                                    => v \notin ballot'[j].votes \cup {j}
    BY Zenon DEF LeaderHasQuorum, Supporters, Majority, Stands
  <2>1. PICK Q \in SUBSET Server :
          /\ Majority(Q)
          /\ \A v \in Q :
               /\ Stands(v, i, currentTerm[i])
               /\ \A j \in Server \ {i} :
                    ballot[j] # None /\ ballot[j].Term = currentTerm[i] => v \notin Supporters(j)
    <3>1. CASE state[i] = "LEADER"
      BY <3>1, Zenon DEF LeaderHasQuorum
    <3>2. CASE ballot[i] # None /\ WinsElection(i)
      BY <1>7, <3>2, Zenon
    <3> QED
      BY <3>1, <3>2, ZenonT(60) DEF LeaderStep
  <2> QED
    BY <1>6, <2>1, Zenon
<1>9. ElectionSafety'
  <2> SUFFICES ASSUME NEW i \in Server, NEW j \in Server, i # j,
                      state'[i] = "LEADER", state'[j] = "LEADER",
                      currentTerm'[i] = currentTerm'[j]
               PROVE  FALSE
    BY Zenon DEF ElectionSafety
  <2>1. currentTerm[i] = currentTerm[j]
    BY Zenon DEF LeaderStep
  <2>2. ASSUME NEW a \in Server, NEW b \in Server, a # b, currentTerm[a] = currentTerm[b],
               state[a] = "LEADER" \/ (ballot[a] # None /\ WinsElection(a)),
               ballot[b] # None, WinsElection(b)
        PROVE  FALSE
    <3>1. PICK Q \in SUBSET Server :
            /\ Majority(Q)
            /\ \A v \in Q : \A k \in Server \ {a} :
                 ballot[k] # None /\ ballot[k].Term = currentTerm[a] => v \notin Supporters(k)
      <4>1. CASE state[a] = "LEADER"
        BY <4>1, Zenon DEF LeaderHasQuorum
      <4>2. CASE ballot[a] # None /\ WinsElection(a)
        BY <1>7, <4>2, Zenon
      <4> QED
        BY <2>2, <4>1, <4>2, Zenon
    <3>2. /\ Supporters(b) \in SUBSET Server /\ Majority(Supporters(b))
          /\ ballot[b].Term = currentTerm[a]
      BY <1>7, <2>2, Zenon
    <3>3. Q \cap Supporters(b) # {}
      BY <3>1, <3>2, MajoritiesIntersect, Zenon
    <3> QED
      BY <2>2, <3>1, <3>2, <3>3, ZenonT(60)
  <2>3. ~(state[i] = "LEADER" /\ state[j] = "LEADER")
    BY <2>1, Zenon DEF ElectionSafety
  <2>4. /\ state[i] = "LEADER" \/ (ballot[i] # None /\ WinsElection(i))
        /\ state[j] = "LEADER" \/ (ballot[j] # None /\ WinsElection(j))
    BY Zenon DEF LeaderStep
  <2> QED
    BY <2>1, <2>2, <2>3, <2>4, ZenonT(60)
<1> QED
  BY <1>1, <1>2, <1>4, <1>5, <1>8, <1>9, ZenonT(60)

(* ElectionInv holds when all servers start. *)
LEMMA ElectionInit == Init => ElectionInv
<1> SUFFICES ASSUME Init PROVE ElectionInv
  BY Zenon
<1>1. \A i \in Server : /\ ballot[i] = None /\ state[i] = "FOLLOWER"
                        /\ persisted[i].voteFor = voteFor[i]
                        /\ persisted[i].currentTerm = 0 /\ currentTerm[i] = 0
  BY Zenon DEF Init
<1> QED
  BY <1>1, SMTT(60) DEF ElectionInv, CountedVotesStand, OwnVoteOnce, VotesExclusive, LeaderHasQuorum,
     DiskBehindMemory, ElectionSafety

(* Every step of Raft is an ElectionStep. *)
LEMMA NextIsElectionStep ==
  ASSUME TypeOK, TypeOK', ElectionInv, [Next]_vars
  PROVE  ElectionStep
<1>1. CASE UNCHANGED vars
  BY <1>1, IdleStep, ZenonT(60) DEF vars
<1>2. ASSUME NEW i \in Server, Election(i) \/ ElectionEnd(i) \/ Restart(i)
      PROVE  ElectionStep
  BY <1>2, ElectionIsStep, ElectionEndStep, RestartStep, ZenonT(60)
<1>3. ASSUME NEW i \in Server, Apply(i) \/ Deliver(i) \/ ReadSnapshot(i)
      PROVE  ElectionStep
  <2>1. UNCHANGED <<roleVars, ballot, persisted>>
    BY <1>3, Zenon DEF Apply, Deliver, ReadSnapshot
  <2>2. UNCHANGED <<state, currentTerm, voteFor, ballot, persisted>>
    BY <2>1, Zenon DEF roleVars
  <2> QED
    BY <2>2, IdleStep, Zenon
<1>4. ASSUME NEW i \in Server, SaveSnapshot(i) \/ (\E c \in Command : Start(i, c))
      PROVE  ElectionStep
  <2>1. CASE SaveSnapshot(i) /\ UNCHANGED <<currentTerm, voteFor, persisted>>
    BY <2>1, IdleStep, ZenonT(40) DEF SaveSnapshot
  <2>2. CASE \/ \E c \in Command : Start(i, c)
             \/ SaveSnapshot(i) /\ SaveStateAndSnapshot(i, serving[i], sm[i])
    BY <2>2, StartStep, Zenon
  <2>3. SaveSnapshot(i) => \/ UNCHANGED <<currentTerm, voteFor, persisted>>
                           \/ SaveStateAndSnapshot(i, serving[i], sm[i])
    BY Zenon DEF SaveSnapshot
  <2> QED
    BY <1>4, <2>1, <2>2, <2>3, ZenonT(60)
<1>5. ASSUME NEW i \in Server, NEW j \in Server,
             \/ SendAppendEntries(i, j) \/ RPCTimeout(i, j)
             \/ InstallSnapshotToPeers(i, j) \/ InstallSnapshotReplied(i, j)
      PROVE  ElectionStep
  BY <1>5, IdleStep, ZenonT(60) DEF SendAppendEntries, RPCTimeout, InstallSnapshotToPeers,
     InstallSnapshotReplied, roleVars
<1>6. ASSUME NEW i \in Server, NEW j \in Server, AppendEntriesReplied(i, j)
      PROVE  ElectionStep
  <2>1. CASE AppendEntriesStepDown(i, j)
    BY <1>6, <2>1, StepDownStep, Zenon
  <2>2. CASE \/ AppendEntriesIgnored(i, j) \/ AppendEntriesMatched(i, j)
             \/ AppendEntriesMismatched(i, j)
    <3>1. UNCHANGED <<state, currentTerm, voteFor, ballot, persisted>>
      BY <1>6, <2>2, ZenonT(40) DEF AppendEntriesReplied, AppendEntriesIgnored, AppendEntriesMatched,
         AppendEntriesMismatched, roleVars
    <3> QED
      BY <3>1, IdleStep, Zenon
  <2> QED
    BY <1>6, <2>1, <2>2, ZenonT(60) DEF AppendEntriesReplied
<1>7. ASSUME NEW i \in Server, NEW j \in Server, InstallSnapshotFinish(i, j)
      PROVE  ElectionStep
  BY <1>7, StepDownStep, Zenon
<1>8. ASSUME NEW m \in InFlight, RequestVote(m)
      PROVE  ElectionStep
  BY <1>8, MessageType, RequestVoteStep, ZenonT(40) DEF RequestVote
<1>9. ASSUME NEW m \in InFlight, AppendEntries(m)
      PROVE  ElectionStep
  <2>1. m \in AppendEntriesArgs
    BY <1>9, MessageType, Zenon DEF AppendEntries
  <2>2. CASE AppendEntriesStale(m)
    <3>1. UNCHANGED <<state, currentTerm, voteFor, ballot, persisted>>
      BY <1>9, <2>2, Zenon DEF AppendEntries, AppendEntriesStale, roleVars
    <3> QED
      BY <3>1, IdleStep, Zenon
  <2>3. CASE AppendEntriesReject(m) \/ AppendEntriesAccept(m)
    BY <1>9, <2>1, <2>3, AdoptLeaderStep, ZenonT(60)
  <2> QED
    BY <1>9, <2>2, <2>3, Zenon DEF AppendEntries
<1>10. ASSUME NEW m \in InFlight, InstallSnapshot(m)
       PROVE  ElectionStep
  BY <1>10, MessageType, InstallSnapshotStep, ZenonT(40) DEF InstallSnapshot
<1> QED
  BY <1>1, <1>2, <1>3, <1>4, <1>5, <1>6, <1>7, <1>8, <1>9, <1>10, ZenonT(60) DEF Next

(* ElectionInv is an invariant of Raft, for any number of servers, with *)
(* lost, late and reordered requests and with crashes at any point.     *)
THEOREM ElectionInvariant == Spec => []ElectionInv
<1>1. TypeOK /\ ElectionInv /\ TypeOK' /\ [Next]_vars => ElectionInv'
  BY NextIsElectionStep, ElectionStepPreserves, Zenon
<1> QED
  BY <1>1, ElectionInit, TypeCorrect, PTL DEF Spec

(* At most one server leads in a term, whatever RPCs are lost or delayed and *)
(* whoever crashes and restarts.                                             *)
THEOREM ElectionIsSafe == Spec => []ElectionSafety
<1>1. ElectionInv => ElectionSafety
  BY Zenon DEF ElectionInv
<1> QED
  BY <1>1, ElectionInvariant, PTL

(* No step of Raft takes back a vote that RequestVote or Election has *)
(* persisted.                                                         *)
THEOREM VotesFinal == Spec => VotesAreFinal
<1>1. TypeOK /\ TypeOK' /\ ElectionInv /\ [Next]_vars => [VoteKept]_vars
  <2> SUFFICES ASSUME TypeOK, TypeOK', ElectionInv, [Next]_vars PROVE VoteKept
    BY Zenon
  <2>1. VoterStep
    BY NextIsElectionStep, Zenon DEF ElectionStep
  <2>2. \A t \in 1 .. MaxTerm : t \in Nat
    BY BoundAssumption
  <2> QED
    BY <2>1, <2>2, StandsKept, Zenon DEF VoteKept
<1> QED
  BY <1>1, TypeCorrect, ElectionInvariant, PTL DEF Spec, VotesAreFinal

=============================================================================
