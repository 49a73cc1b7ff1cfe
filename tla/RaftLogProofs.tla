---------------------------- MODULE RaftLogProofs ----------------------------
(* What the logs of Raft keep, for any set of servers and any bounds: an     *)
(* index and a term name one entry, and, as long as no service takes         *)
(* snapshots, two logs that agree at an index agree up to it. The lemmas of  *)
(* RaftWriteProofs say what a step may do to entries and to the links        *)
(* between them, those of RaftElectionProofs who may win a term.             *)
EXTENDS RaftElectionProofs, RaftWriteProofs

-----------------------------------------------------------------------------
(* Who has won an election *)

(* A candidate asks for votes of a term that its disk has not reached yet,   *)
(* or goes on with the ballot it has                                         *)
BallotsFresh ==
  \A i \in Server : ballot'[i] # None =>
    \/ ballot[i] # None /\ ballot[i].Term = ballot'[i].Term
    \/ ballot'[i].Term > persisted[i].currentTerm

(* A new leader has persisted its term, and its ballot is over *)
WinnersDone ==
  \A i \in Server : state[i] # "LEADER" /\ state'[i] = "LEADER" =>
    ballot'[i] = None /\ persisted'[i].currentTerm = currentTerm'[i]

(* A step that makes no leader, and no ballot but by going on with one or by *)
(* dropping it, keeps both.                                                  *)
LEMMA QuietCandidates ==
  ASSUME \A v \in Server : state'[v] = "LEADER" => state[v] = "LEADER",
         \A v \in Server : ballot'[v] \in {ballot[v], None}
  PROVE  BallotsFresh /\ WinnersDone
BY Zenon DEF BallotsFresh, WinnersDone

(* Changing the role of one server to another than leader makes no leader. *)
LEMMA NotPromoted ==
  ASSUME TypeOK, NEW i \in Server, NEW s, s # "LEADER" \/ s = state[i],
         state' = [state EXCEPT ![i] = s]
  PROVE  \A v \in Server : state'[v] = "LEADER" => state[v] = "LEADER"
<1>1. state \in [Server -> {"FOLLOWER", "CANDIDATE", "LEADER"}]
  BY FieldTypes, Zenon
<1> QED
  BY <1>1, Zenon

(* Election starts a ballot of a term that is not on the disk before. *)
LEMMA ElectionCandidates ==
  ASSUME TypeOK, ElectionInv, NEW i \in Server, Election(i)
  PROVE  BallotsFresh /\ WinnersDone
<1>1. /\ currentTerm' = [currentTerm EXCEPT ![i] = @ + 1]
      /\ state' = [state EXCEPT ![i] = "CANDIDATE"]
      /\ ballot' = [ballot EXCEPT ![i] =
           [Term |-> currentTerm'[i], LastLogIndex |-> LastLogIndex(i),
            LastLogTerm |-> LastLogTerm(i), waiting |-> Server \ {i}, votes |-> {}]]
  BY Zenon DEF Election
<1>2. \A v \in Server : state'[v] = "LEADER" => state[v] = "LEADER"
  BY <1>1, NotPromoted, ZenonT(60)
<1>3. ballot \in [Server -> Ballot \cup {None}] /\ currentTerm \in [Server -> Nat]
  BY Zenon DEF TypeOK
<1>4. /\ \A v \in Server \ {i} : ballot'[v] = ballot[v]
      /\ ballot'[i].Term = currentTerm'[i] /\ currentTerm'[i] = currentTerm[i] + 1
      /\ currentTerm[i] \in Nat
  BY <1>1, <1>3, Zenon
<1>5. ballot'[i].Term > persisted[i].currentTerm
  <2>1. persisted[i].currentTerm \in Nat /\ persisted[i].currentTerm <= currentTerm[i]
    BY VoteType, Zenon DEF ElectionInv, DiskBehindMemory
  <2> QED
    BY <1>4, <2>1
<1> QED
  BY <1>2, <1>4, <1>5, ZenonT(60) DEF BallotsFresh, WinnersDone

(* Counting a vote goes on with the ballot that asked for it. *)
LEMMA VoteCandidates ==
  ASSUME TypeOK, NEW m \in RequestVoteArgs, RequestVote(m)
  PROVE  BallotsFresh /\ WinnersDone
<1>1. m.to \in Server
  BY Zenon DEF RequestVoteArgs
<1>2. PICK s : /\ s # "LEADER" \/ s = state[m.to]
               /\ state' = [state EXCEPT ![m.to] = s]
  BY Zenon DEF RequestVote
<1>3. \A v \in Server : state'[v] = "LEADER" => state[v] = "LEADER"
  BY <1>1, <1>2, NotPromoted, ZenonT(60)
<1>4. PICK g : CountVote(m, g)
  BY Zenon DEF RequestVote
<1>5. BallotsFresh
  BY <1>4, CountVoteStep, ZenonT(60) DEF BallotsFresh
<1> QED
  BY <1>3, <1>5, Zenon DEF WinnersDone

(* The end of Election: a winner persists before it leads. *)
LEMMA EndCandidates ==
  ASSUME TypeOK, NEW i \in Server, ElectionEnd(i)
  PROVE  BallotsFresh /\ WinnersDone
<1>1. ballot' = [ballot EXCEPT ![i] = None] /\ ballot \in [Server -> Ballot \cup {None}]
  BY ZenonT(60) DEF ElectionEnd, TypeOK
<1>2. \A v \in Server : ballot'[v] \in {ballot[v], None}
  BY <1>1, Zenon
<1>3. CASE UNCHANGED state
  BY <1>2, <1>3, QuietCandidates, ZenonT(60)
<1>4. CASE state' = [state EXCEPT ![i] = "LEADER"] /\ Persist(i)
  <2>1. persisted'[i].currentTerm = currentTerm'[i]
    BY <1>4, PersistVotes, Zenon
  <2>2. \A v \in Server \ {i} : state'[v] = state[v]
    BY <1>4, FieldTypes, Zenon
  <2>3. ballot'[i] = None
    BY <1>1, Zenon
  <2> QED
    BY <1>2, <2>1, <2>2, <2>3, ZenonT(60) DEF BallotsFresh, WinnersDone
<1> QED
  BY <1>3, <1>4, ZenonT(60) DEF ElectionEnd, roleVars

(* A handler that makes one server a follower, or leaves its role alone. *)
LEMMA FollowerCandidates ==
  ASSUME TypeOK, NEW i \in Server, UNCHANGED ballot,
         \/ UNCHANGED state
         \/ \E s : (s # "LEADER" \/ s = state[i]) /\ state' = [state EXCEPT ![i] = s]
  PROVE  BallotsFresh /\ WinnersDone
<1>1. \A v \in Server : state'[v] = "LEADER" => state[v] = "LEADER"
  BY NotPromoted, Zenon
<1> QED
  BY <1>1, QuietCandidates, ZenonT(60)

(* No step makes a stale ballot, and none makes a leader whose term is not   *)
(* on its disk.                                                              *)
LEMMA NextCandidates ==
  ASSUME TypeOK, ElectionInv, [Next]_vars
  PROVE  BallotsFresh /\ WinnersDone
<1>1. CASE UNCHANGED vars
  BY <1>1, QuietCandidates, Zenon DEF vars
<1>2. ASSUME NEW i \in Server,
             \/ Apply(i) \/ Deliver(i) \/ ReadSnapshot(i) \/ SaveSnapshot(i)
             \/ \E c \in Command : Start(i, c)
      PROVE  BallotsFresh /\ WinnersDone
  <2>1. UNCHANGED <<state, ballot>>
    BY <1>2, ZenonT(60) DEF Apply, Deliver, ReadSnapshot, SaveSnapshot, Start, roleVars
  <2> QED
    BY <2>1, QuietCandidates, Zenon
<1>3. ASSUME NEW i \in Server, Restart(i)
      PROVE  BallotsFresh /\ WinnersDone
  <2>1. /\ state' = [state EXCEPT ![i] = "FOLLOWER"] /\ ballot' = [ballot EXCEPT ![i] = None]
        /\ ballot \in [Server -> Ballot \cup {None}]
    BY <1>3, ZenonT(60) DEF Restart, TypeOK
  <2>2. \A v \in Server : ballot'[v] \in {ballot[v], None}
    BY <2>1, Zenon
  <2>3. \A v \in Server : state'[v] = "LEADER" => state[v] = "LEADER"
    BY <2>1, NotPromoted, Zenon
  <2> QED
    BY <2>2, <2>3, QuietCandidates, ZenonT(60)
<1>4. ASSUME NEW i \in Server, NEW j \in Server,
             \/ SendAppendEntries(i, j) \/ RPCTimeout(i, j)
             \/ InstallSnapshotToPeers(i, j) \/ InstallSnapshotReplied(i, j)
      PROVE  BallotsFresh /\ WinnersDone
  <2>1. UNCHANGED <<state, ballot>>
    BY <1>4, Zenon DEF SendAppendEntries, RPCTimeout, InstallSnapshotToPeers,
       InstallSnapshotReplied, roleVars
  <2> QED
    BY <2>1, QuietCandidates, Zenon
<1>5. ASSUME NEW i \in Server, NEW j \in Server,
             AppendEntriesReplied(i, j) \/ InstallSnapshotFinish(i, j)
      PROVE  BallotsFresh /\ WinnersDone
  <2>1. UNCHANGED ballot
    BY <1>5, Zenon DEF AppendEntriesReplied, InstallSnapshotFinish
  <2>2. CASE AppendEntriesStepDown(i, j)
    BY <2>1, <2>2, FollowerCandidates, ZenonT(60) DEF AppendEntriesStepDown
  <2>3. CASE \/ AppendEntriesIgnored(i, j) \/ AppendEntriesMatched(i, j)
             \/ AppendEntriesMismatched(i, j)
    <3>1. UNCHANGED state
      BY <2>3, Zenon DEF AppendEntriesIgnored, AppendEntriesMatched, AppendEntriesMismatched,
         roleVars
    <3> QED
      BY <2>1, <3>1, FollowerCandidates, Zenon
  <2>4. CASE InstallSnapshotFinish(i, j)
    <3>1. \E s : (s # "LEADER" \/ s = state[i]) /\ state' = [state EXCEPT ![i] = s]
      BY <2>4, Zenon DEF InstallSnapshotFinish
    <3> QED
      BY <2>1, <3>1, FollowerCandidates, ZenonT(60)
  <2> QED
    BY <1>5, <2>2, <2>3, <2>4, Zenon DEF AppendEntriesReplied
<1>6. ASSUME NEW m \in InFlight, AppendEntries(m)
      PROVE  BallotsFresh /\ WinnersDone
  <2>1. m.to \in Server /\ UNCHANGED ballot
    BY <1>6, MessageType, Zenon DEF AppendEntries, AppendEntriesArgs
  <2>2. CASE AppendEntriesStale(m)
    BY <2>1, <2>2, FollowerCandidates, ZenonT(60) DEF AppendEntriesStale, roleVars
  <2>3. CASE AppendEntriesReject(m) \/ AppendEntriesAccept(m)
    BY <2>1, <2>3, FollowerCandidates, Zenon DEF AppendEntriesReject, AppendEntriesAccept, AdoptLeader
  <2> QED
    BY <1>6, <2>2, <2>3, Zenon DEF AppendEntries
<1>7. ASSUME NEW m \in InFlight, InstallSnapshot(m)
      PROVE  BallotsFresh /\ WinnersDone
  <2>1. m.to \in Server /\ UNCHANGED ballot
    BY <1>7, MessageType, Zenon DEF InstallSnapshot, InstallSnapshotArgs
  <2>2. \E s : (s # "LEADER" \/ s = state[m.to]) /\ state' = [state EXCEPT ![m.to] = s]
    BY <1>7, Zenon DEF InstallSnapshot
  <2> QED
    BY <2>1, <2>2, FollowerCandidates, Zenon
<1>8. ASSUME NEW m \in InFlight, RequestVote(m)
      PROVE  BallotsFresh /\ WinnersDone
  BY <1>8, MessageType, VoteCandidates, ZenonT(60) DEF RequestVote
<1> QED
  BY <1>1, <1>2, <1>3, <1>4, <1>5, <1>6, <1>7, <1>8, ElectionCandidates, EndCandidates,
     Zenon DEF Next

(* Indexes are ordered, and the last one of a log is an integer. *)
LEMMA IndexOrder ==
  /\ \A a, b, c \in Int : a <= b /\ b <= c => a <= c
  /\ \A a \in Int : ~(a + 1 <= a) /\ a <= a
  /\ \A a, b \in Nat : a + b - 1 \in Int
  OBVIOUS

(* A term after one that t does not exceed is after t. *)
LEMMA LaterThan ==
  ASSUME NEW a \in Nat, NEW t \in Nat, a >= t
  PROVE  \A n \in Nat : (a <= n => n >= t) /\ (n > a => n # t)
  OBVIOUS

(* The winner of an election stays its winner. *)
LEMMA ElectedKept ==
  ASSUME TypeOK, TypeOK', ElectionStep, BallotsFresh,
         NEW o \in Server, NEW t \in Nat, Elected(o, t)
  PROVE  Elected(o, t)'
<1>1. /\ persisted[o].currentTerm \in Nat /\ persisted'[o].currentTerm \in Nat
      /\ \A j \in Server : ballot'[j] # None => ballot'[j].Term \in Nat
  <2>1. persisted'[o] \in PersistedState /\ \A j \in Server : ballot'[j] # None => ballot'[j] \in Ballot
    BY Zenon DEF TypeOK
  <2> QED
    BY <2>1, VoteType, ZenonT(60) DEF PersistedState, Ballot
<1>2. persisted[o].currentTerm >= t /\ persisted[o].currentTerm <= persisted'[o].currentTerm
  BY Zenon DEF Elected, ElectionStep, VoterStep
<1>3. persisted'[o].currentTerm >= t
  BY <1>1, <1>2, LaterThan, Zenon
<1>4. ballot'[o] # None => ballot'[o].Term # t
  <2> SUFFICES ASSUME ballot'[o] # None PROVE ballot'[o].Term # t
    BY Zenon
  <2>1. CASE ballot[o] # None /\ ballot[o].Term = ballot'[o].Term
    BY <2>1, Zenon DEF Elected
  <2>2. CASE ballot'[o].Term > persisted[o].currentTerm
    <3>1. ballot'[o].Term \in Nat
      BY <1>1, Zenon
    <3> QED
      BY <1>1, <1>2, <2>2, <3>1, LaterThan, Zenon
  <2> QED
    BY <2>1, <2>2, ZenonT(60) DEF BallotsFresh
<1>5. PICK Q \in SUBSET Server :
        /\ Majority(Q)
        /\ \A v \in Q :
             /\ Stands(v, o, t)
             /\ \A j \in Server \ {o} :
                  ballot[j] # None /\ ballot[j].Term = t => v \notin Supporters(j)
  BY Zenon DEF Elected
<1>6. ASSUME NEW v \in Q
      PROVE  /\ Stands(v, o, t)'
             /\ \A j \in Server \ {o} :
                  ballot'[j] # None /\ ballot'[j].Term = t => v \notin ballot'[j].votes \cup {j}
  <2>1. Stands(v, o, t)'
    BY <1>5, StandsKept, ZenonT(60) DEF ElectionStep
  <2>2. ASSUME NEW j \in Server \ {o}, ballot'[j] # None, ballot'[j].Term = t,
               v \in ballot'[j].votes \cup {j}
        PROVE  FALSE
    <3>1. \/ NewVote(v, j, t)
          \/ ballot[j] # None /\ ballot[j].Term = t /\ v \in Supporters(j)
      BY <2>2, Zenon DEF ElectionStep, BallotStep
    <3> QED
      BY <1>5, <3>1, Zenon DEF NewVote
  <2> QED
    BY <2>1, <2>2, Zenon
<1> QED
  BY <1>3, <1>4, <1>5, <1>6, Zenon DEF Elected, Supporters, Majority

(* Nobody wins the election of a term that has its winner already: the two   *)
(* majorities would share a voter.                                           *)
LEMMA OneWinner ==
  ASSUME TypeOK, ElectionInv, NEW i \in Server, ballot[i] # None, WinsElection(i),
         NEW o \in Server, Elected(o, currentTerm[i])
  PROVE  FALSE
<1>1. ballot[i].Term = currentTerm[i]
  BY Zenon DEF WinsElection
<1>2. o # i
  BY <1>1, Zenon DEF Elected
<1>3. PICK Q \in SUBSET Server :
        /\ Majority(Q)
        /\ \A v \in Q : \A j \in Server \ {o} :
             ballot[j] # None /\ ballot[j].Term = currentTerm[i] => v \notin Supporters(j)
  BY Zenon DEF Elected
<1>4. Supporters(i) \in SUBSET Server /\ Majority(Supporters(i))
  BY VoteType, WinnerHasMajority, Zenon DEF ElectionInv
<1>5. Q \cap Supporters(i) # {}
  BY <1>3, <1>4, MajoritiesIntersect, ZenonT(60)
<1> QED
  BY <1>1, <1>2, <1>3, <1>5, Zenon

(* Entries keep one origin: every step preserves LogInv. *)
LEMMA LogInvStep ==
  ASSUME TypeOK, TypeOK', ElectionInv, ElectionInv', LogInv, [Next]_vars
  PROVE  LogInv'
<1>1. ElectionStep /\ BallotsFresh /\ WinnersDone /\ WriteStep
  BY NextIsElectionStep, NextCandidates, NextIsWriteStep, ZenonT(60)
<1>2. \/ AllEntries' \subseteq AllEntries
      \/ \E i \in Server : \E z : NewEntry(i, z) /\ AllEntries' \subseteq AllEntries \cup {z}
  BY <1>1, WriteStepEntries, ZenonT(60)
<1>3. ASSUME NEW i \in Server, state'[i] = "LEADER"
      PROVE  /\ currentTerm'[i] = currentTerm[i] /\ currentTerm[i] \in Nat
             /\ state[i] = "LEADER" \/ (ballot[i] # None /\ WinsElection(i))
             /\ LastLogIndex(i) \in Int /\ LastLogIndex(i)' \in Int
             /\ LastLogIndex(i) <= LastLogIndex(i)'
  <2>1. LastLogIndex(i)' \in Int
    <3>1. lastSnapshotIndex'[i] \in Nat /\ log'[i] \in Seq(Entry)
      BY Zenon DEF TypeOK
    <3>2. Len(log'[i]) \in Nat
      BY <3>1, LenProperties, Zenon
    <3> QED
      BY <3>1, <3>2, IndexOrder, Zenon DEF LastLogIndex
  <2> QED
    BY <1>1, <1>3, <2>1, VoteType, LogType, LeaderLogGrows, Zenon DEF ElectionStep, LeaderStep
<1>4. LeadersElected'
  <2> SUFFICES ASSUME NEW i \in Server, state'[i] = "LEADER"
               PROVE  Elected(i, currentTerm[i])'
    BY Zenon DEF LeadersElected
  <2>1. CASE state[i] = "LEADER"
    <3>1. Elected(i, currentTerm[i])
      BY <2>1, Zenon DEF LogInv, LeadersElected
    <3>2. PICK t \in Nat : t = currentTerm[i] /\ t = currentTerm'[i]
      BY <1>3, Zenon
    <3>3. Elected(i, t)'
      BY <1>1, <3>1, <3>2, ElectedKept, ZenonT(60)
    <3> QED
      BY <3>2, <3>3 DEF Elected, Stands
  <2>2. CASE state[i] # "LEADER"
    <3>1. ballot'[i] = None /\ persisted'[i].currentTerm = currentTerm'[i]
      BY <1>1, <2>2, Zenon DEF WinnersDone
    <3>2. \E Q \in SUBSET Server :
            /\ Majority(Q)
            /\ \A v \in Q :
                 /\ Stands(v, i, currentTerm[i])'
                 /\ \A j \in Server \ {i} :
                      ballot'[j] # None /\ ballot'[j].Term = currentTerm'[i]
                        => v \notin ballot'[j].votes \cup {j}
      BY Zenon DEF ElectionInv, LeaderHasQuorum, Supporters, Stands, Majority
    <3>3. persisted'[i].currentTerm >= currentTerm'[i]
      <4>1. currentTerm'[i] \in Nat
        BY <1>3, ZenonT(60)
      <4>2. currentTerm'[i] >= currentTerm'[i]
        BY <4>1
      <4> QED
        BY <3>1, <4>2, Zenon
    <3> QED
      BY <3>1, <3>2, <3>3, ZenonT(60) DEF Elected, Supporters, Stands, Majority
  <2> QED
    BY <2>1, <2>2, ZenonT(60)
<1>5. ASSUME NEW x \in AllEntries'
      PROVE  \/ x \in AllEntries
             \/ \E k \in Server : NewEntry(k, x)
  BY <1>2, <1>5, ZenonT(60)
<1>6. ASSUME NEW x \in AllEntries'
      PROVE  /\ x[1] \in Int /\ x[2].Term \in Nat
             /\ \E o \in Server : Elected(o, x[2].Term)
  <2>1. CASE x \in AllEntries
    BY <2>1, EntryTyped, Zenon DEF LogInv, EntriesElected
  <2>2. ASSUME NEW k \in Server, NewEntry(k, x)
        PROVE  /\ x[1] \in Int /\ x[2].Term \in Nat
               /\ \E o \in Server : Elected(o, x[2].Term)
    <3>1. /\ state[k] = "LEADER" /\ x[1] = LastLogIndex(k) + 1 /\ x[2].Term = currentTerm[k]
          /\ LastLogIndex(k) \in Int /\ currentTerm[k] \in Nat
      BY <2>2, LogType, VoteType, Zenon DEF NewEntry
    <3> QED
      BY <3>1, IndexSteps, Zenon DEF LogInv, LeadersElected
  <2> QED
    BY <1>5, <1>6, <2>1, <2>2, Zenon
<1>7. EntriesElected'
  <2>1. ASSUME NEW x \in AllEntries' PROVE \E o \in Server : Elected(o, x[2].Term)'
    <3>1. PICK o \in Server : Elected(o, x[2].Term)
      BY <1>6, <2>1, ZenonT(60)
    <3>2. x[2].Term \in Nat
      BY <1>6, <2>1, Zenon
    <3>3. ASSUME NEW t \in Nat, t = x[2].Term PROVE Elected(o, t)'
      BY <1>1, <3>1, <3>3, ElectedKept, Zenon
    <3> QED
      BY <3>2, <3>3, ZenonT(60)
  <2> QED
    BY <2>1, Zenon DEF EntriesElected
<1>8. LeaderAhead'
  <2> SUFFICES ASSUME NEW i \in Server, state'[i] = "LEADER",
                      NEW x \in AllEntries', x[2].Term = currentTerm'[i]
               PROVE  x[1] <= LastLogIndex(i)'
    BY Zenon DEF LeaderAhead
  <2>1. x[2].Term = currentTerm[i]
    BY <1>3, Zenon
  <2>2. state[i] = "LEADER"
    BY <1>3, <1>6, <2>1, OneWinner, Zenon
  <2>3. CASE x \in AllEntries
    <3>1. x[1] <= LastLogIndex(i)
      BY <2>1, <2>2, <2>3, ZenonT(60) DEF LogInv, LeaderAhead
    <3> QED
      BY <1>3, <1>6, <3>1, IndexOrder, ZenonT(60)
  <2>4. ASSUME NEW k \in Server, NewEntry(k, x)
        PROVE  x[1] <= LastLogIndex(i)'
    <3>1. k = i
      BY <2>1, <2>2, <2>4, Zenon DEF NewEntry, ElectionInv, ElectionSafety
    <3>2. x[1] = LastLogIndex(i)'
      BY <2>4, <3>1, Zenon DEF NewEntry
    <3> QED
      BY <1>3, <3>2, IndexOrder, Zenon
  <2> QED
    BY <1>5, <2>3, <2>4, ZenonT(60)
<1>9. EntriesAgree'
  <2> SUFFICES ASSUME NEW x \in AllEntries', NEW y \in AllEntries',
                      x[1] = y[1], x[2].Term = y[2].Term
               PROVE  x = y
    BY Zenon DEF EntriesAgree
  <2>1. ASSUME NEW a \in AllEntries, NEW z, NEW k \in Server, NewEntry(k, z),
               a[1] = z[1], a[2].Term = z[2].Term
        PROVE  FALSE
    <3>1. a[1] <= LastLogIndex(k) /\ a[1] = LastLogIndex(k) + 1
      BY <2>1, Zenon DEF NewEntry, LogInv, LeaderAhead
    <3>2. LastLogIndex(k) \in Int
      BY LogType, Zenon
    <3> QED
      BY <3>1, <3>2, IndexOrder, Zenon
  <2>2. CASE x \in AllEntries /\ y \in AllEntries
    BY <2>2, Zenon DEF LogInv, EntriesAgree
  <2>3. x \notin AllEntries \/ y \notin AllEntries => x \notin AllEntries /\ y \notin AllEntries
    BY <1>5, <2>1, ZenonT(60)
  <2>4. CASE x \notin AllEntries /\ y \notin AllEntries
    BY <1>2, <2>4, Zenon
  <2> QED
    BY <2>2, <2>3, <2>4, ZenonT(60)
<1> QED
  BY <1>4, <1>7, <1>8, <1>9, ZenonT(60) DEF LogInv

(* At the start there are no entries and no leaders. *)
LEMMA LogInvInit == Init => LogInv
<1> SUFFICES ASSUME Init PROVE LogInv
  BY Zenon
<1>1. \A i \in Server : /\ state[i] = "FOLLOWER" /\ log[i] = DummyLog
                        /\ persisted[i].log = DummyLog
  BY Zenon DEF Init
<1>2. InFlight = {}
  BY NoneInFlight, Zenon
<1>3. 2 .. Len(DummyLog) = {}
  BY DEF DummyLog
<1>4. \A i \in Server : LogEntries(i) = {} /\ DiskEntries(i) = {}
  BY <1>1, <1>3, ZenonT(60) DEF LogEntries, DiskEntries, Placed
<1>5. AllEntries = {}
  BY <1>2, <1>4, EntryMembers, Zenon
<1> QED
  BY <1>1, <1>5, Zenon DEF LogInv, LeadersElected, EntriesElected, LeaderAhead, EntriesAgree

(* Whatever is lost, delayed or restarted and whatever snapshots are         *)
(* installed, the entries of a term come from the one log of its one leader. *)
THEOREM LogInvariant == Spec => []LogInv
<1>1. TypeOK /\ TypeOK' /\ ElectionInv /\ ElectionInv' /\ LogInv /\ [Next]_vars => LogInv'
  BY LogInvStep, Zenon
<1> QED
  BY <1>1, LogInvInit, TypeCorrect, ElectionInvariant, PTL DEF Spec

(* An index and a term name one entry, in whichever logs it is. *)
THEOREM EntriesIdentified == Spec => []EntryIdentity
<1>1. LogInv => EntryIdentity
  BY EntryMembers, Zenon DEF LogInv, EntriesAgree, EntryIdentity
<1> QED
  BY <1>1, LogInvariant, PTL

-----------------------------------------------------------------------------
(* Log matching, as long as no service takes snapshots *)

(* An entry keeps following one term: the entry that a leader starts is      *)
(* beyond all others of its term.                                            *)
LEMMA MatchInvStep ==
  ASSUME TypeOK, TypeOK', LogInv, MatchInv, [Next]_vars, MaxRaftState = -1
  PROVE  MatchInv'
<1>1. WriteStep
  BY NextIsWriteStep, Zenon
<1>2. NeverCut
  BY Zenon DEF MatchInv
<1>3. \A v \in Server : serving'[v] <= 0
  BY <1>2, NeverServing, ZenonT(60) DEF NeverCut
<1>4. /\ NeverCut'
      /\ \A v \in Server : LogStep(v) => Same(v) \/ Reloaded(v) \/ Spliced(v)
  BY <1>1, <1>2, <1>3, NeverCutStep, ZenonT(60)
<1>5. LinksAgree'
  <2>1. CASE AllLinks' \subseteq AllLinks
    BY <2>1, Zenon DEF MatchInv, LinksAgree
  <2>2. ASSUME NEW i \in Server, NEW z,
               state[i] = "LEADER", z[1] = LastLogIndex(i) + 1,
               z[3].Term = currentTerm[i], AllLinks' \subseteq AllLinks \cup {z}
        PROVE  LinksAgree'
    <3>1. ASSUME NEW x \in AllLinks, x[1] = z[1], x[3].Term = z[3].Term
          PROVE  FALSE
      <4>1. PICK y \in AllEntries : y[1] = x[1] /\ y[2] = x[3]
        BY LinkIsEntry, Zenon
      <4>2. LastLogIndex(i) + 1 <= LastLogIndex(i)
        BY <2>2, <3>1, <4>1, ZenonT(60) DEF LogInv, LeaderAhead
      <4>3. LastLogIndex(i) \in Int
        <5>1. Len(log[i]) \in Nat /\ lastSnapshotIndex[i] \in Nat
          BY FieldTypes, LogType, ZenonT(60)
        <5> QED
          BY <5>1, IndexOrder, Zenon DEF LastLogIndex
      <4> QED
        BY <4>2, <4>3, IndexOrder, Zenon
    <3> QED
      BY <2>2, <3>1, Zenon DEF MatchInv, LinksAgree
  <2> QED
    BY <1>1, <1>2, <1>4, <2>1, <2>2, WriteStepLinks, ZenonT(60)
<1> QED
  BY <1>4, <1>5, ZenonT(60) DEF MatchInv

(* When no service takes snapshots, two logs that have the same term at an   *)
(* index are the same up to it, as the check of PrevLogTerm ensures.         *)
THEOREM LogsMatch ==
  ASSUME MaxRaftState = -1
  PROVE  Spec => []LogMatching
<1>1. TypeOK /\ TypeOK' /\ LogInv /\ MatchInv /\ [Next]_vars => MatchInv'
  BY MatchInvStep, Zenon
<1>2. TypeOK /\ MatchInv => LogMatching
  BY LinksMatchLogs, Zenon DEF MatchInv
<1> QED
  BY <1>1, <1>2, MatchInvInit, TypeCorrect, LogInvariant, PTL DEF Spec
=============================================================================
