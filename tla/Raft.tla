-------------------------------- MODULE Raft --------------------------------
(***************************************************************************)
(* The Raft peer of 6.824/src/raft: leader election, log replication,      *)
(* commitment, snapshots, the apply loop, persistence and restarts, over   *)
(* the lossy, reordering RPC layer of labrpc.                              *)
(*                                                                         *)
(* Every critical section of the code under rf.mu is one action; where a   *)
(* goroutine gives the mutex up (waiting for RPC replies, or between       *)
(* Apply's batch and its deliveries) the model has separate actions.       *)
(*                                                                         *)
(* log[i] is rf.log with its dummy first element: the entry of absolute    *)
(* index k is log[i][Real(i, k)].                                          *)
(***************************************************************************)
EXTENDS Integers, Sequences, FiniteSets

CONSTANTS
  Server,        \* the peers
  Command,       \* commands a service may Start
  None,          \* -1 of voteFor, nil of Go: no vote, no call, no command
  MaxTerm,       \* bound: no election is started in a later term
  MaxIndex,      \* bound: no command is started at a later log index
  MaxCalls,      \* bound: append-entries calls that are under way at once
  MaxLate,       \* bound: abandoned RPC requests that are still in flight
  MaxApplied,    \* bound: no later log index is applied
  MaxRestarts,   \* bound: crashes followed by a restart
  MaxRaftState   \* log length that makes the service snapshot, -1: never

ASSUME ServerAssumption ==
  IsFiniteSet(Server)

ASSUME BoundAssumption ==
  /\ MaxTerm \in Nat /\ MaxIndex \in Nat /\ MaxCalls \in Nat
  /\ MaxLate \in Nat /\ MaxApplied \in Nat
  /\ MaxRestarts \in Nat /\ MaxRaftState \in Int

VARIABLES
  state, currentTerm, voteFor, log, commitIndex, lastApplied,
  nextIndex, matchIndex, lastSnapshotIndex, lastSnapshotTerm,
  applying,      \* the batch of messages Apply still has to deliver
  ballot,        \* the SendRequest an Election is waiting for, or None
  call,          \* call[i][j]: what i's append-entries goroutine for j waits for
  reply,         \* reply[i][j]: the answer to call[i][j] that has come in
  late,          \* requests whose caller no longer waits
  serving,       \* what the service is at: the index of a command it applied
                 \* and may snapshot, Loading a snapshot, or 0
  persisted,     \* the Persister of every server
  sm,            \* the entries the service of every server has applied
  restarts,      \* number of restarts so far
  chosen         \* history: the entries leaders have committed

roleVars == <<state, currentTerm, voteFor>>
snapVars == <<lastSnapshotIndex, lastSnapshotTerm>>
leaderVars == <<nextIndex, matchIndex>>
applyVars == <<lastApplied, applying, serving, sm>>
rpcVars == <<call, reply, late>>
vars == <<state, currentTerm, voteFor, log, commitIndex, lastApplied,
          nextIndex, matchIndex, lastSnapshotIndex, lastSnapshotTerm, applying,
          ballot, call, reply, late, serving, persisted, sm, restarts, chosen>>

-----------------------------------------------------------------------------
(* Data *)

Entry == [Term : Nat, Command : Command \cup {None}]

Message == [CommandValid : {TRUE}, CommandIndex : Nat, Entry : Entry]
           \cup [CommandValid : {FALSE}, CommandIndex : Nat]

RequestVoteArgs ==
  [rpc : {"RequestVote"}, from : Server, to : Server, Term : Nat,
   LastLogIndex : Int, LastLogTerm : Nat]

AppendEntriesArgs ==
  [rpc : {"AppendEntries"}, from : Server, to : Server, Term : Nat,
   PrevLogIndex : Int, PrevLogTerm : Nat, Entries : Seq(Entry),
   LeaderCommit : Int]

InstallSnapshotArgs ==
  [rpc : {"InstallSnapshot"}, from : Server, to : Server, Term : Nat,
   LastIncludeIndex : Nat, LastIncludeTerm : Nat, Data : Seq(Entry)]

(* The goroutine is about to call InstallSnapshotToPeers, or in there, after *)
(* its wait for the answer, about to lock rf.mu                              *)
InstallNext == [rpc |-> "InstallNext"]
InstallDone == [rpc |-> "InstallDone"]

Loading == -1

AppendEntriesReply ==
  [Success : BOOLEAN, Term : Nat, XTerm : Int, XIndex : Int, XLen : Int,
   NextIndex : Int]

InstallSnapshotReply == [Term : Nat]

Ballot == [Term : Nat, LastLogIndex : Int, LastLogTerm : Nat,
           waiting : SUBSET Server, votes : SUBSET Server]

ASSUME NoneAssumption ==
  None \notin Server \cup Ballot \cup AppendEntriesArgs \cup InstallSnapshotArgs
              \cup {InstallNext, InstallDone}

PersistedState ==
  [currentTerm : Nat, voteFor : Server \cup {None}, commitIndex : Int,
   lastSnapshotTerm : Nat, lastSnapshotIndex : Nat, log : Seq(Entry) \ {<< >>},
   snapshot : Seq(Entry)]

DummyLog == << [Term |-> 0, Command |-> None] >>

-----------------------------------------------------------------------------
(* common.go, getRealLogIndex *)

min(x, y) == IF x < y THEN x ELSE y
max(x, y) == IF x >= y THEN x ELSE y

Real(i, k) == k - lastSnapshotIndex[i] + 1
LastLogIndex(i) == lastSnapshotIndex[i] + Len(log[i]) - 1
LastLogTerm(i) == log[i][Len(log[i])].Term
TermAt(i, k) == log[i][Real(i, k)].Term
InLog(i, k) == Real(i, k) \in 1 .. Len(log[i])

(* Mutant of LogFrom: the slice starts one entry late *)
LogFromExclusive(i, k) == SubSeq(log[i], Real(i, k) + 1, Len(log[i]))

LogFrom(i, k) == SubSeq(log[i], Real(i, k), Len(log[i]))

(* Mutants of LogTo: the slice ends one entry early, or is the whole log *)
LogToExclusive(i, k) == SubSeq(log[i], 1, Real(i, k) - 1)
LogToEnd(i, k) == log[i]

LogTo(i, k) == SubSeq(log[i], 1, Real(i, k))

(* Mutants of PersistData: the vote, or the log, is left out *)
PersistDataNoVote(i) ==
  [persisted[i] EXCEPT !.currentTerm = currentTerm'[i],
     !.commitIndex = commitIndex'[i], !.lastSnapshotTerm = lastSnapshotTerm'[i],
     !.lastSnapshotIndex = lastSnapshotIndex'[i], !.log = log'[i]]
PersistDataNoLog(i) ==
  [persisted[i] EXCEPT !.currentTerm = currentTerm'[i], !.voteFor = voteFor'[i],
     !.commitIndex = commitIndex'[i], !.lastSnapshotTerm = lastSnapshotTerm'[i],
     !.lastSnapshotIndex = lastSnapshotIndex'[i]]

PersistData(i) ==
  [currentTerm |-> currentTerm'[i], voteFor |-> voteFor'[i],
   commitIndex |-> commitIndex'[i],
   lastSnapshotTerm |-> lastSnapshotTerm'[i],
   lastSnapshotIndex |-> lastSnapshotIndex'[i], log |-> log'[i],
   snapshot |-> persisted[i].snapshot]

Persist(i) == persisted' = [persisted EXCEPT ![i] = PersistData(i)]

(* Mutant of PersistWithSnapshot: the state is saved without the snapshot *)
PersistWithoutSnapshot(i, data) == Persist(i)

PersistWithSnapshot(i, data) ==
  persisted' = [persisted EXCEPT ![i] = [PersistData(i) EXCEPT !.snapshot = data]]

-----------------------------------------------------------------------------
Init ==
  /\ state = [i \in Server |-> "FOLLOWER"]
  /\ currentTerm = [i \in Server |-> 0]
  /\ voteFor = [i \in Server |-> None]
  /\ log = [i \in Server |-> DummyLog]
  /\ commitIndex = [i \in Server |-> 0]
  /\ lastApplied = [i \in Server |-> 0]
  /\ nextIndex = [i \in Server |-> [j \in Server |-> 0]]
  /\ matchIndex = [i \in Server |-> [j \in Server |-> 0]]
  /\ lastSnapshotIndex = [i \in Server |-> 0]
  /\ lastSnapshotTerm = [i \in Server |-> 0]
  /\ applying = [i \in Server |-> << >>]
  /\ serving = [i \in Server |-> 0]
  /\ ballot = [i \in Server |-> None]
  /\ call = [i \in Server |-> [j \in Server |-> None]]
  /\ reply = [i \in Server |-> [j \in Server |-> None]]
  /\ late = {}
  /\ persisted = [i \in Server |->
       [currentTerm |-> 0, voteFor |-> None, commitIndex |-> 0,
        lastSnapshotTerm |-> 0, lastSnapshotIndex |-> 0, log |-> DummyLog,
        snapshot |-> << >>]]
  /\ sm = [i \in Server |-> << >>]
  /\ restarts = 0
  /\ chosen = << >>

-----------------------------------------------------------------------------
(* labrpc: a request is handled at most once, and its answer reaches the   *)
(* caller only while the caller still waits for that very request. A       *)
(* caller that gives up leaves its request lost, or late in the network.   *)

Respond(m, r) ==
  \/ /\ call[m.from][m.to] = m
     /\ reply[m.from][m.to] = None
     /\ reply' = [reply EXCEPT ![m.from][m.to] = r]
     /\ UNCHANGED <<call, late>>
  \/ /\ m \in late
     /\ late' = late \ {m}
     /\ UNCHANGED <<call, reply>>

Abandon(R) ==
  \E L \in SUBSET R :
    /\ Cardinality(late \cup L) <= MaxLate
    /\ late' = late \cup L

Hangup(i, j) ==
  /\ call' = [call EXCEPT ![i][j] = None]
  /\ reply' = [reply EXCEPT ![i][j] = None]

(* RPCTimer fires, or Call returns false: the answer is not used *)
RPCTimeout(i, j) ==
  /\ call[i][j] \notin {None, InstallNext, InstallDone}
  /\ Hangup(i, j)
  /\ Abandon(IF reply[i][j] = None THEN {call[i][j]} ELSE {})
  /\ UNCHANGED <<roleVars, log, commitIndex, leaderVars, snapVars, applyVars,
                 ballot, persisted, restarts, chosen>>

-----------------------------------------------------------------------------
(* Leader election *)

RequestVoteTo(i, j) ==
  [rpc |-> "RequestVote", from |-> i, to |-> j, Term |-> ballot[i].Term,
   LastLogIndex |-> ballot[i].LastLogIndex,
   LastLogTerm |-> ballot[i].LastLogTerm]

Canvassing(i) ==
  IF ballot[i] = None THEN {}
  ELSE {RequestVoteTo(i, j) : j \in ballot[i].waiting}

(* The election timer fires: Election up to its call of SendRequest *)
Election(i) ==
  /\ ballot[i] = None
  /\ state[i] # "LEADER"
  /\ currentTerm[i] < MaxTerm
  /\ state' = [state EXCEPT ![i] = "CANDIDATE"]
  /\ currentTerm' = [currentTerm EXCEPT ![i] = @ + 1]
  /\ voteFor' = [voteFor EXCEPT ![i] = i]
  /\ ballot' = [ballot EXCEPT ![i] =
       [Term |-> currentTerm'[i], LastLogIndex |-> LastLogIndex(i),
        LastLogTerm |-> LastLogTerm(i), waiting |-> Server \ {i}, votes |-> {}]]
  /\ UNCHANGED <<log, commitIndex, leaderVars, snapVars, applyVars, rpcVars,
                 restarts, chosen>>
  /\ Persist(i)

(* Mutant of UpToDate: the lengths of the logs are not compared *)
UpToDateByTerm(j, m) == LastLogTerm(j) <= m.LastLogTerm

UpToDate(j, m) ==
  \/ LastLogTerm(j) < m.LastLogTerm
  \/ LastLogTerm(j) = m.LastLogTerm /\ LastLogIndex(j) <= m.LastLogIndex

(* Mutant of GrantsVote: a vote already given in the term does not count *)
GrantsVoteAgain(j, m) == m.Term >= currentTerm[j] /\ UpToDate(j, m)

GrantsVote(j, m) ==
  \/ m.Term = currentTerm[j] /\ voteFor[j] = m.from
  \/ m.Term = currentTerm[j] /\ voteFor[j] = None /\ UpToDate(j, m)
  \/ m.Term > currentTerm[j] /\ UpToDate(j, m)

(* The answer is counted by SendRequest if it is a vote and comes in time.  *)
(* RequestVote never sets reply.Term, so that is all the answer can do.     *)
CountVote(m, granted) ==
  \/ /\ m \in Canvassing(m.from)
     /\ \E inTime \in BOOLEAN :
          ballot' = [ballot EXCEPT
            ![m.from].waiting = @ \ {m.to},
            ![m.from].votes = IF inTime /\ granted THEN @ \cup {m.to} ELSE @]
     /\ UNCHANGED late
  \/ /\ m \in late
     /\ late' = late \ {m}
     /\ UNCHANGED ballot

RequestVote(m) ==
  LET j == m.to
      granted == GrantsVote(j, m)
      newer == m.Term > currentTerm[j]
  IN
  /\ m.rpc = "RequestVote"
  /\ currentTerm' = [currentTerm EXCEPT ![j] = IF newer THEN m.Term ELSE @]
  /\ state' = [state EXCEPT ![j] = IF newer \/ granted THEN "FOLLOWER" ELSE @]
  /\ voteFor' = [voteFor EXCEPT ![j] = IF granted THEN m.from
                                       ELSE IF newer THEN None ELSE @]
  /\ CountVote(m, granted)
  /\ UNCHANGED <<log, commitIndex, leaderVars, snapVars, applyVars, call, reply,
                 restarts, chosen>>
  /\ Persist(j)

WinsElection(i) ==
  /\ state[i] = "CANDIDATE"
  /\ currentTerm[i] = ballot[i].Term
  /\ Cardinality(ballot[i].votes) >= Cardinality(Server) \div 2

(* SendRequest has returned, with every answer or on RPCTimeout *)
ElectionEnd(i) ==
  /\ ballot[i] # None
  /\ ballot' = [ballot EXCEPT ![i] = None]
  /\ Abandon(Canvassing(i))
  /\ \/ /\ WinsElection(i)
        /\ state' = [state EXCEPT ![i] = "LEADER"]
        /\ nextIndex' = [nextIndex EXCEPT ![i] =
             [j \in Server |-> LastLogIndex(i) + 1]]
        /\ matchIndex' = [matchIndex EXCEPT ![i] =
             [j \in Server |-> IF j = i THEN LastLogIndex(i) ELSE 0]]
        /\ UNCHANGED <<currentTerm, voteFor, log, commitIndex, snapVars>>
        /\ Persist(i)
     \/ /\ ~WinsElection(i)
        /\ UNCHANGED <<roleVars, log, commitIndex, leaderVars, snapVars,
                       persisted>>
  /\ UNCHANGED <<applyVars, call, reply, restarts, chosen>>

-----------------------------------------------------------------------------
(* Log replication: the leader *)

Start(i, c) ==
  LET index == LastLogIndex(i) + 1 IN
  /\ state[i] = "LEADER"
  /\ index <= MaxIndex
  /\ log' = [log EXCEPT ![i] =
       Append(@, [Term |-> currentTerm[i], Command |-> c])]
  /\ nextIndex' = [nextIndex EXCEPT ![i][i] = index + 1]
  /\ matchIndex' = [matchIndex EXCEPT ![i][i] = index]
  /\ UNCHANGED <<roleVars, commitIndex, snapVars, applyVars, ballot, rpcVars,
                 restarts, chosen>>
  /\ Persist(i)

(* Mutant of PrevLogIndex: without the case of a peer behind the snapshot *)
PrevLogIndexUnclipped(i, j) == nextIndex[i][j] - 1

(* getAEInfo: a peer whose next entry is in the snapshot is probed with the *)
(* end of the log, so that its answer leads to an InstallSnapshot           *)
PrevLogIndex(i, j) ==
  IF nextIndex[i][j] <= lastSnapshotIndex[i] THEN LastLogIndex(i)
  ELSE nextIndex[i][j] - 1

(* The calls under way, of all leaders to all peers: every peer has its own *)
(* goroutine, and MaxCalls bounds how many of them wait at the same time    *)
Waiting == {p \in Server \X Server : call[p[1]][p[2]] # None}

SendAppendEntries(i, j) ==
  LET prev == PrevLogIndex(i, j) IN
  /\ i # j
  /\ call[i][j] = None /\ Cardinality(Waiting) < MaxCalls
  /\ state[i] = "LEADER"
  /\ InLog(i, prev)
  /\ call' = [call EXCEPT ![i][j] =
       [rpc |-> "AppendEntries", from |-> i, to |-> j, Term |-> currentTerm[i],
        PrevLogIndex |-> prev, PrevLogTerm |-> TermAt(i, prev),
        Entries |-> LogFrom(i, prev + 1), LeaderCommit |-> commitIndex[i]]]
  /\ UNCHANGED <<roleVars, log, commitIndex, leaderVars, snapVars, applyVars,
                 ballot, reply, late, persisted, restarts, chosen>>

ReachedByMajority(match, k) ==
  Cardinality({p \in Server : match[p] >= k}) > Cardinality(Server) \div 2

(* The largest index a majority of matchIndex has reached. The loop of the  *)
(* code runs one index past the end of the log                              *)
LeaderCommit(i, match) ==
  LET ahead == commitIndex[i] + 1 .. LastLogIndex(i) + 1
      reached == {commitIndex[i]} \cup {k \in ahead : ReachedByMajority(match, k)}
  IN {k \in reached : \A n \in reached : n <= k}

(* History: what a leader has newly committed when it reaches index *)
Choose(i, index) ==
  LET first == Len(chosen) + 1
      n == max(0, min(index, LastLogIndex(i)) - Len(chosen))
  IN IF Len(chosen) < lastSnapshotIndex[i] THEN chosen
     ELSE chosen \o [k \in 1 .. n |->
            [entry |-> log[i][Real(i, first) + k - 1], by |-> currentTerm[i]]]

(* The last position of term t in the log, but for the dummy entry *)
ContainsXTerm(i, t) ==
  {k \in 2 .. Len(log[i]) :
     log[i][k].Term = t /\ \A n \in k + 1 .. Len(log[i]) : log[i][n].Term # t}

(* Where the log of a peer is tried next, after the answer r: XTerm is read *)
(* from reply.Term, as the code does                                        *)
Backtrack(i, r) ==
  LET XTerm == r.Term IN
  IF r.XLen # -1 THEN {r.XLen}
  ELSE IF XTerm = -1 THEN {0}
  ELSE IF ContainsXTerm(i, XTerm) = {} THEN {r.XIndex}
  ELSE {k - 1 + lastSnapshotIndex[i] : k \in ContainsXTerm(i, XTerm)}

(* The peer is in a later term. voteFor stays *)
AppendEntriesStepDown(i, j) ==
  LET r == reply[i][j] IN
  /\ r.Term > currentTerm[i]
  /\ state' = [state EXCEPT ![i] = "FOLLOWER"]
  /\ currentTerm' = [currentTerm EXCEPT ![i] = r.Term]
  /\ call' = [call EXCEPT ![i][j] = None]
  /\ UNCHANGED <<voteFor, log, commitIndex, leaderVars, snapVars, chosen>>
  /\ Persist(i)

Outdated(i, j) == state[i] # "LEADER" \/ currentTerm[i] # call[i][j].Term

(* The answer is out of date, or the request was out of order *)
AppendEntriesIgnored(i, j) ==
  LET r == reply[i][j] IN
  /\ r.Term <= currentTerm[i]
  /\ Outdated(i, j) \/ (~r.Success /\ r.NextIndex = -1)
  /\ call' = [call EXCEPT ![i][j] = None]
  /\ UNCHANGED <<roleVars, log, commitIndex, leaderVars, snapVars, persisted,
                 chosen>>

(* The peer has the entries: a new one of this term may be committed *)
AppendEntriesMatched(i, j) ==
  LET Entries == call[i][j].Entries
      next == nextIndex[i][j] + Len(Entries)
      match == [matchIndex[i] EXCEPT ![j] = next - 1]
      new == Entries # << >> /\ Entries[Len(Entries)].Term = currentTerm[i]
  IN
  /\ reply[i][j].Term <= currentTerm[i]
  /\ ~Outdated(i, j) /\ reply[i][j].Success
  /\ nextIndex' = [nextIndex EXCEPT ![i][j] = next]
  /\ matchIndex' = [matchIndex EXCEPT ![i] = match]
  /\ \E index \in IF new THEN LeaderCommit(i, match) ELSE {commitIndex[i]} :
       /\ commitIndex' = [commitIndex EXCEPT ![i] = index]
       /\ chosen' = Choose(i, index)
  /\ call' = [call EXCEPT ![i][j] = None]
  /\ UNCHANGED <<roleVars, log, snapVars, persisted>>

(* The logs differ: the peer is tried again, or sent the snapshot *)
AppendEntriesMismatched(i, j) ==
  LET r == reply[i][j] IN
  /\ r.Term <= currentTerm[i]
  /\ ~Outdated(i, j) /\ ~r.Success /\ r.NextIndex # -1
  /\ \E next \in Backtrack(i, r) :
       /\ nextIndex' = [nextIndex EXCEPT ![i][j] = next]
       /\ matchIndex' = [matchIndex EXCEPT ![i][j] = next - 1]
       /\ call' = [call EXCEPT ![i][j] =
            IF next <= lastSnapshotIndex[i] THEN InstallNext ELSE None]
  /\ UNCHANGED <<roleVars, log, commitIndex, snapVars, persisted, chosen>>

(* appendEntriesToPeer from its second critical section on *)
AppendEntriesReplied(i, j) ==
  /\ call[i][j] # None /\ call[i][j].rpc = "AppendEntries" /\ reply[i][j] # None
  /\ reply' = [reply EXCEPT ![i][j] = None]
  /\ \/ AppendEntriesStepDown(i, j) \/ AppendEntriesIgnored(i, j)
     \/ AppendEntriesMatched(i, j) \/ AppendEntriesMismatched(i, j)
  /\ UNCHANGED <<applyVars, ballot, late, restarts>>

-----------------------------------------------------------------------------
(* Log replication: the receiver of an AppendEntries *)

Rejection == [Success |-> FALSE, Term |-> 0, XTerm |-> -1, XIndex |-> -1,
              XLen |-> -1, NextIndex |-> 0]

AppendEntriesStale(m) ==
  /\ m.Term < currentTerm[m.to]
  /\ Respond(m, [Rejection EXCEPT !.Term = currentTerm[m.to]])
  /\ UNCHANGED <<roleVars, log, commitIndex, persisted>>

AdoptLeader(j, m) ==
  /\ m.Term >= currentTerm[j]
  /\ currentTerm' = [currentTerm EXCEPT ![j] = m.Term]
  /\ state' = [state EXCEPT ![j] = "FOLLOWER"]
  /\ UNCHANGED voteFor

(* Mutant of CheckIfAEOutOfOrder: a delayed request is taken like any other *)
NeverOutOfOrder(j, m) == FALSE

CheckIfAEOutOfOrder(j, m) ==
  \/ m.Term < LastLogTerm(j)
  \/ /\ m.PrevLogIndex + Len(m.Entries) < LastLogIndex(j)
     /\ LastLogTerm(j) = m.Term

PrevLogMatches(j, m) ==
  \/ m.PrevLogIndex = lastSnapshotIndex[j]
  \/ m.PrevLogTerm = TermAt(j, m.PrevLogIndex)

(* The first index after the snapshot with the term of the conflicting entry *)
XIndex(j, m) ==
  LET t == TermAt(j, m.PrevLogIndex) IN
  {k \in lastSnapshotIndex[j] + 1 .. LastLogIndex(j) :
     TermAt(j, k) = t /\ \A n \in lastSnapshotIndex[j] + 1 .. k - 1 : TermAt(j, n) # t}

AppendEntriesReject(m) ==
  LET j == m.to
      short == LastLogIndex(j) < m.PrevLogIndex
      covered == m.PrevLogIndex < lastSnapshotIndex[j]
      matches == PrevLogMatches(j, m)
  IN
  /\ AdoptLeader(j, m)
  /\ \/ /\ short
        /\ Respond(m, [Rejection EXCEPT !.XLen = LastLogIndex(j) + 1])
     \/ /\ ~short /\ covered
        /\ Respond(m, [Rejection EXCEPT !.NextIndex = lastSnapshotIndex[j] + 1])
     \/ /\ ~short /\ ~covered /\ matches /\ CheckIfAEOutOfOrder(j, m)
        /\ Respond(m, [Rejection EXCEPT !.NextIndex = -1])
     \/ /\ ~short /\ ~covered /\ ~matches
        /\ \E x \in XIndex(j, m) :
             Respond(m, [Rejection EXCEPT !.XTerm = TermAt(j, m.PrevLogIndex),
                                          !.XIndex = x])
  /\ UNCHANGED <<log, commitIndex>>
  /\ Persist(j)

AppendEntriesAccept(m) ==
  LET j == m.to
      last == m.PrevLogIndex + Len(m.Entries)
  IN
  /\ AdoptLeader(j, m)
  /\ InLog(j, m.PrevLogIndex)
  /\ PrevLogMatches(j, m)
  /\ ~CheckIfAEOutOfOrder(j, m)
  /\ log' = [log EXCEPT ![j] = LogTo(j, m.PrevLogIndex) \o m.Entries]
  /\ commitIndex' = [commitIndex EXCEPT ![j] =
       IF m.LeaderCommit > @ THEN min(m.LeaderCommit, last) ELSE @]
  /\ Respond(m, [Rejection EXCEPT !.Success = TRUE])
  /\ Persist(j)

AppendEntries(m) ==
  /\ m.rpc = "AppendEntries"
  /\ UNCHANGED <<leaderVars, snapVars, applyVars, ballot, restarts, chosen>>
  /\ AppendEntriesStale(m) \/ AppendEntriesReject(m) \/ AppendEntriesAccept(m)

-----------------------------------------------------------------------------
(* Snapshots *)

SaveStateAndSnapshot(i, index, snapshot) ==
  /\ index >= lastSnapshotIndex[i]
  /\ InLog(i, index)
  /\ log' = [log EXCEPT ![i] = LogFrom(i, index)]
  /\ lastSnapshotIndex' = [lastSnapshotIndex EXCEPT ![i] = index]
  /\ lastSnapshotTerm' = [lastSnapshotTerm EXCEPT ![i] = TermAt(i, index)]
  /\ UNCHANGED <<currentTerm, voteFor, commitIndex>>
  /\ PersistWithSnapshot(i, snapshot)

(* The service, after a command: it snapshots if the Raft state is too big *)
SaveSnapshot(i) ==
  LET index == serving[i]
      small == Len(persisted[i].log) < MaxRaftState
  IN
  /\ index > 0
  /\ serving' = [serving EXCEPT ![i] = 0]
  /\ \/ /\ small \/ index < lastSnapshotIndex[i]
        /\ UNCHANGED <<currentTerm, voteFor, log, commitIndex, snapVars, persisted>>
     \/ ~small /\ SaveStateAndSnapshot(i, index, sm[i])
  /\ UNCHANGED <<state, leaderVars, lastApplied, applying, sm, ballot, rpcVars,
                 restarts, chosen>>

(* The service, after a snapshot message: it loads whatever snapshot its     *)
(* Persister holds by then                                                   *)
ReadSnapshot(i) ==
  /\ serving[i] = Loading
  /\ serving' = [serving EXCEPT ![i] = 0]
  /\ sm' = [sm EXCEPT ![i] = persisted[i].snapshot]
  /\ UNCHANGED <<roleVars, log, commitIndex, leaderVars, snapVars, lastApplied,
                 applying, ballot, rpcVars, persisted, restarts, chosen>>

(* InstallSnapshotToPeers does not look whether the server still leads *)
InstallSnapshotToPeers(i, j) ==
  /\ call[i][j] = InstallNext
  /\ call' = [call EXCEPT ![i][j] =
       [rpc |-> "InstallSnapshot", from |-> i, to |-> j, Term |-> currentTerm[i],
        LastIncludeIndex |-> lastSnapshotIndex[i],
        LastIncludeTerm |-> lastSnapshotTerm[i],
        Data |-> persisted[i].snapshot]]
  /\ UNCHANGED <<roleVars, log, commitIndex, leaderVars, snapVars, applyVars,
                 ballot, reply, late, persisted, restarts, chosen>>

InstalledLog(j, m) ==
  LET offset == m.LastIncludeIndex - lastSnapshotIndex[j] IN
  IF offset >= Len(log[j])
  THEN << [Term |-> m.LastIncludeTerm, Command |-> None] >>
  ELSE SubSeq(log[j], offset + 1, Len(log[j]))

InstallSnapshot(m) ==
  LET j == m.to
      newer == m.Term > currentTerm[j]
      install == m.Term >= currentTerm[j]
                 /\ lastSnapshotIndex[j] < m.LastIncludeIndex
  IN
  /\ m.rpc = "InstallSnapshot"
  /\ Respond(m, [Term |-> currentTerm[j]])
  /\ currentTerm' = [currentTerm EXCEPT ![j] = IF newer THEN m.Term ELSE @]
  /\ state' = [state EXCEPT ![j] = IF newer THEN "FOLLOWER" ELSE @]
  /\ UNCHANGED <<voteFor, commitIndex, leaderVars, applyVars, ballot, restarts,
                 chosen>>
  /\ \/ /\ install
        /\ log' = [log EXCEPT ![j] = InstalledLog(j, m)]
        /\ lastSnapshotIndex' = [lastSnapshotIndex EXCEPT ![j] = m.LastIncludeIndex]
        /\ lastSnapshotTerm' = [lastSnapshotTerm EXCEPT ![j] = m.LastIncludeTerm]
        /\ PersistWithSnapshot(j, m.Data)
     \/ /\ ~install
        /\ UNCHANGED <<log, snapVars>>
        /\ IF newer THEN Persist(j) ELSE UNCHANGED persisted

(* The answer comes in. The indexes are written without the lock; only the  *)
(* goroutine of the same peer reads nextIndex, so one write is one step. The *)
(* timer may win against an answer that is there already                     *)
InstallSnapshotReplied(i, j) ==
  /\ call[i][j] # None /\ call[i][j].rpc = "InstallSnapshot"
  /\ reply[i][j] # None
  /\ call' = [call EXCEPT ![i][j] = InstallDone]
  /\ \/ /\ nextIndex' = [nextIndex EXCEPT ![i][j] = lastSnapshotIndex[i] + 1]
        /\ matchIndex' = [matchIndex EXCEPT ![i][j] = lastSnapshotIndex[i]]
     \/ UNCHANGED leaderVars
  /\ UNCHANGED <<roleVars, log, commitIndex, snapVars, applyVars, ballot, reply,
                 late, persisted, restarts, chosen>>

(* A later term of the answer is adopted, but not persisted *)
InstallSnapshotFinish(i, j) ==
  LET newer == reply[i][j].Term > currentTerm[i] IN
  /\ call[i][j] = InstallDone
  /\ Hangup(i, j)
  /\ currentTerm' = [currentTerm EXCEPT ![i] =
       IF newer THEN reply[i][j].Term ELSE @]
  /\ state' = [state EXCEPT ![i] = IF newer THEN "FOLLOWER" ELSE @]
  /\ UNCHANGED <<voteFor, log, commitIndex, leaderVars, snapVars, applyVars,
                 ballot, late, persisted, restarts, chosen>>

-----------------------------------------------------------------------------
(* The apply loop *)

(* Mutant of Batch: the loop starts at lastApplied instead of after it *)
BatchFromLastApplied(i) ==
  IF lastApplied[i] < lastSnapshotIndex[i]
  THEN << [CommandValid |-> FALSE, CommandIndex |-> lastSnapshotIndex[i]] >>
  ELSE [k \in 1 .. commitIndex[i] - lastApplied[i] |->
          [CommandValid |-> TRUE, CommandIndex |-> lastApplied[i] + k,
           Entry |-> log[i][Real(i, lastApplied[i] + k - 1)]]]

Batch(i) ==
  IF lastApplied[i] < lastSnapshotIndex[i]
  THEN << [CommandValid |-> FALSE, CommandIndex |-> lastSnapshotIndex[i]] >>
  ELSE [k \in 1 .. commitIndex[i] - lastApplied[i] |->
          [CommandValid |-> TRUE, CommandIndex |-> lastApplied[i] + k,
           Entry |-> log[i][Real(i, lastApplied[i] + k)]]]

(* Apply up to the release of rf.mu, when it finds something to do *)
Apply(i) ==
  /\ applying[i] = << >> /\ lastApplied[i] < MaxApplied
  /\ \/ lastApplied[i] < lastSnapshotIndex[i]
     \/ lastApplied[i] < commitIndex[i] /\ InLog(i, commitIndex[i])
  /\ applying' = [applying EXCEPT ![i] = Batch(i)]
  /\ UNCHANGED <<roleVars, log, commitIndex, leaderVars, snapVars, lastApplied,
                 serving, sm, ballot, rpcVars, persisted, restarts, chosen>>

(* One message goes through applyCh, which the service must be free to take. *)
(* It applies a command at once, and then turns to its snapshot              *)
Deliver(i) ==
  LET msg == Head(applying[i])
      index == msg.CommandIndex
  IN
  /\ applying[i] # << >> /\ serving[i] = 0
  /\ applying' = [applying EXCEPT ![i] = Tail(@)]
  /\ lastApplied' = [lastApplied EXCEPT ![i] = index]
  /\ \/ /\ msg.CommandValid
        /\ sm' = [sm EXCEPT ![i] = Append(@, msg.Entry)]
        /\ serving' = [serving EXCEPT ![i] = IF MaxRaftState = -1 THEN 0 ELSE index]
        /\ UNCHANGED commitIndex
     \/ /\ ~msg.CommandValid
        /\ serving' = [serving EXCEPT ![i] = Loading]
        /\ commitIndex' = [commitIndex EXCEPT ![i] = index]
        /\ UNCHANGED sm
  /\ UNCHANGED <<roleVars, log, leaderVars, snapVars, ballot, rpcVars, persisted,
                 restarts, chosen>>

-----------------------------------------------------------------------------
(* Kill, then Make from what is persisted: readPersist. The service loads   *)
(* its snapshot; lastApplied starts at 0 again. Requests the server had sent *)
(* may still be under way                                                    *)
Restart(i) ==
  LET p == persisted[i]
      sent == {call[i][j] : j \in {k \in Server : reply[i][k] = None}}
                \ {None, InstallNext, InstallDone}
  IN
  /\ restarts < MaxRestarts
  /\ restarts' = restarts + 1
  /\ state' = [state EXCEPT ![i] = "FOLLOWER"]
  /\ currentTerm' = [currentTerm EXCEPT ![i] = p.currentTerm]
  /\ voteFor' = [voteFor EXCEPT ![i] = p.voteFor]
  /\ log' = [log EXCEPT ![i] = p.log]
  /\ commitIndex' = [commitIndex EXCEPT ![i] = p.commitIndex]
  /\ lastSnapshotIndex' = [lastSnapshotIndex EXCEPT ![i] = p.lastSnapshotIndex]
  /\ lastSnapshotTerm' = [lastSnapshotTerm EXCEPT ![i] = p.lastSnapshotTerm]
  /\ lastApplied' = [lastApplied EXCEPT ![i] = 0]
  /\ nextIndex' = [nextIndex EXCEPT ![i] = [j \in Server |-> 0]]
  /\ matchIndex' = [matchIndex EXCEPT ![i] = [j \in Server |-> 0]]
  /\ applying' = [applying EXCEPT ![i] = << >>]
  /\ serving' = [serving EXCEPT ![i] = 0]
  /\ sm' = [sm EXCEPT ![i] = p.snapshot]
  /\ ballot' = [ballot EXCEPT ![i] = None]
  /\ call' = [call EXCEPT ![i] = [j \in Server |-> None]]
  /\ reply' = [reply EXCEPT ![i] = [j \in Server |-> None]]
  /\ Abandon(sent \cup Canvassing(i))
  /\ UNCHANGED <<persisted, chosen>>

-----------------------------------------------------------------------------
InFlight ==
  late \cup (UNION {Canvassing(i) : i \in Server})
       \cup ({call[i][j] : i, j \in Server} \ {None, InstallNext, InstallDone})

Next ==
  \/ \E i \in Server :
       \/ Election(i) \/ ElectionEnd(i)
       \/ Apply(i) \/ Deliver(i) \/ SaveSnapshot(i) \/ ReadSnapshot(i)
       \/ Restart(i)
       \/ \E c \in Command : Start(i, c)
  \/ \E i, j \in Server :
       \/ SendAppendEntries(i, j) \/ AppendEntriesReplied(i, j)
       \/ InstallSnapshotToPeers(i, j) \/ InstallSnapshotReplied(i, j)
       \/ InstallSnapshotFinish(i, j) \/ RPCTimeout(i, j)
  \/ \E m \in InFlight : RequestVote(m) \/ AppendEntries(m) \/ InstallSnapshot(m)

Spec == Init /\ [][Next]_vars

-----------------------------------------------------------------------------
(* The state of every server, of the network and of the history has its     *)
(* type; rf.log is never empty and an answer is of the kind of its request  *)
TypeOK ==
  /\ state \in [Server -> {"FOLLOWER", "CANDIDATE", "LEADER"}]
  /\ currentTerm \in [Server -> Nat]
  /\ voteFor \in [Server -> Server \cup {None}]
  /\ log \in [Server -> Seq(Entry) \ {<< >>}]
  /\ commitIndex \in [Server -> Int]
  /\ lastApplied \in [Server -> Nat]
  /\ nextIndex \in [Server -> [Server -> Int]]
  /\ matchIndex \in [Server -> [Server -> Int]]
  /\ lastSnapshotIndex \in [Server -> Nat]
  /\ lastSnapshotTerm \in [Server -> Nat]
  /\ applying \in [Server -> Seq(Message)]
  /\ serving \in [Server -> Int]
  /\ ballot \in [Server -> Ballot \cup {None}]
  /\ call \in [Server -> [Server -> AppendEntriesArgs \cup InstallSnapshotArgs
                                      \cup {None, InstallNext, InstallDone}]]
  /\ reply \in [Server -> [Server -> AppendEntriesReply \cup InstallSnapshotReply
                                       \cup {None}]]
  /\ \A i, j \in Server :
       /\ reply[i][j] # None =>
            \/ call[i][j] \in AppendEntriesArgs /\ reply[i][j] \in AppendEntriesReply
            \/ /\ call[i][j] \in InstallSnapshotArgs \cup {InstallDone}
               /\ reply[i][j] \in InstallSnapshotReply
       /\ call[i][j] = InstallDone => reply[i][j] # None
  /\ late \subseteq RequestVoteArgs \cup AppendEntriesArgs \cup InstallSnapshotArgs
  /\ persisted \in [Server -> PersistedState]
  /\ sm \in [Server -> Seq(Entry)]
  /\ restarts \in Nat
  /\ chosen \in Seq([entry : Entry, by : Nat])

-----------------------------------------------------------------------------
(* Elections *)

(* At most one server leads in a term: a server votes once per term, also   *)
(* over a restart, and Election asks for a majority                          *)
ElectionSafety ==
  \A i, j \in Server :
    state[i] = "LEADER" /\ state[j] = "LEADER" /\ currentTerm[i] = currentTerm[j]
      => i = j

(* What is on v's disk says that v voted for i in term t, or is past it *)
Stands(v, i, t) ==
  \/ persisted[v].currentTerm > t
  \/ persisted[v].currentTerm = t /\ persisted[v].voteFor = i

Supporters(i) == ballot[i].votes \cup {i}

Majority(Q) == 2 * Cardinality(Q) > Cardinality(Server)

(* A vote is on the voter's disk before RequestVote answers: no crash of a  *)
(* voter takes back a vote that a candidate counts                          *)
CountedVotesStand ==
  \A i \in Server : ballot[i] # None =>
    \A v \in Supporters(i) : Stands(v, i, ballot[i].Term)

(* A candidate asks the others only: its own vote is counted once *)
OwnVoteOnce ==
  \A i \in Server : ballot[i] # None =>
    i \notin ballot[i].waiting \cup ballot[i].votes

(* Two candidates of a term never count the same server's vote *)
VotesExclusive ==
  \A i, j \in Server :
    ballot[i] # None /\ ballot[j] # None /\ i # j /\ ballot[i].Term = ballot[j].Term
      => Supporters(i) \cap Supporters(j) = {}

(* A majority stands by a leader and by no other candidate of its term *)
LeaderHasQuorum ==
  \A i \in Server : state[i] = "LEADER" =>
    \E Q \in SUBSET Server :
      /\ Majority(Q)
      /\ \A v \in Q :
           /\ Stands(v, i, currentTerm[i])
           /\ \A j \in Server \ {i} :
                ballot[j] # None /\ ballot[j].Term = currentTerm[i]
                  => v \notin Supporters(j)

(* The disk never holds another vote or a later term than the memory *)
DiskBehindMemory ==
  \A v \in Server : /\ persisted[v].voteFor = voteFor[v]
                    /\ persisted[v].currentTerm <= currentTerm[v]

(* What makes ElectionSafety inductive: an Election never counts a vote     *)
(* twice, and what RequestVote granted is durable                            *)
ElectionInv ==
  /\ CountedVotesStand
  /\ OwnVoteOnce
  /\ VotesExclusive
  /\ LeaderHasQuorum
  /\ DiskBehindMemory
  /\ ElectionSafety

VoteKept ==
  \A v, i \in Server : \A t \in 1 .. MaxTerm : Stands(v, i, t) => Stands(v, i, t)'

(* No step takes back a vote that RequestVote or Election has persisted: the *)
(* voter's disk shows the same vote until it shows a later term              *)
VotesAreFinal == [][VoteKept]_vars

-----------------------------------------------------------------------------
(* The log *)

Holds(i, k, e) ==
  \/ k <= lastSnapshotIndex[i]
  \/ InLog(i, k) /\ log[i][Real(i, k)] = e

(* The entries of a log after its first one, which is at index base *)
Placed(base, l) == {<<base + p - 1, l[p]>> : p \in 2 .. Len(l)}

LogEntries(i) == Placed(lastSnapshotIndex[i], log[i])

(* An index and a term name one entry, in whichever logs AppendEntries has  *)
(* put it and whatever snapshots were installed: a leader never gives an    *)
(* index twice, and a restart does not let it                               *)
EntryIdentity ==
  \A i, j \in Server : \A x \in LogEntries(i), y \in LogEntries(j) :
    x[1] = y[1] /\ x[2].Term = y[2].Term => x = y

(* Log matching: two logs that have the same term at an index are the same  *)
(* up to there, as the check of PrevLogTerm in AppendEntries is to ensure   *)
LogMatching ==
  \A i, j \in Server : \A k \in lastSnapshotIndex[i] + 1 .. LastLogIndex(i) :
    lastSnapshotIndex[j] < k /\ k <= LastLogIndex(j) /\ TermAt(i, k) = TermAt(j, k)
      => \A n \in max(lastSnapshotIndex[i], lastSnapshotIndex[j]) + 1 .. k :
           log[i][Real(i, n)] = log[j][Real(j, n)]

LeaderAppends ==
  \A i \in Server : state[i] = "LEADER" /\ state'[i] = "LEADER" =>
    \A x \in LogEntries(i) : Holds(i, x[1], x[2])'

(* While it leads, a server gives up an entry only for a snapshot that       *)
(* includes its index, although InstallSnapshot does not ask who leads       *)
LeaderAppendOnly == [][LeaderAppends]_vars

(* State machine safety: what a server takes for committed is in its log    *)
(* and is what a leader committed there, whatever AppendEntries overwrote   *)
LogSafety ==
  \A i \in Server : \A k \in 1 .. commitIndex[i] :
    k <= Len(chosen) /\ Holds(i, k, chosen[k].entry)

(* A server that wins an election has every entry that a leader of an       *)
(* earlier term committed: the log comparison of RequestVote                *)
LeaderCompleteness ==
  \A i \in Server : state[i] = "LEADER" =>
    \A k \in 1 .. Len(chosen) :
      chosen[k].by < currentTerm[i] => Holds(i, k, chosen[k].entry)

OnDisk(v, k, e) ==
  LET p == persisted[v] IN
  \/ k <= p.lastSnapshotIndex
  \/ /\ k - p.lastSnapshotIndex + 1 <= Len(p.log)
     /\ p.log[k - p.lastSnapshotIndex + 1] = e

(* A committed entry is on the disks of a majority, so that LeaderCommit    *)
(* never commits what the restart of a minority could lose                  *)
ChosenDurable ==
  \A k \in 1 .. Len(chosen) :
    Majority({v \in Server : OnDisk(v, k, chosen[k].entry)})

-----------------------------------------------------------------------------
(* What makes EntryIdentity inductive *)

DiskEntries(i) == Placed(persisted[i].lastSnapshotIndex, persisted[i].log)

SentEntries(m) == {<<m.PrevLogIndex + p, m.Entries[p]>> : p \in 1 .. Len(m.Entries)}

(* The entries of all logs, disks and requests *)
AllEntries ==
  UNION ({LogEntries(i) : i \in Server} \cup {DiskEntries(i) : i \in Server}
         \cup {SentEntries(m) : m \in {n \in InFlight : n.rpc = "AppendEntries"}})

(* Server i has won the election of term t: no other candidate can, and i    *)
(* does not try again                                                        *)
Elected(i, t) ==
  /\ ballot[i] # None => ballot[i].Term # t
  /\ persisted[i].currentTerm >= t
  /\ \E Q \in SUBSET Server :
       /\ Majority(Q)
       /\ \A v \in Q :
            /\ Stands(v, i, t)
            /\ \A j \in Server \ {i} :
                 ballot[j] # None /\ ballot[j].Term = t => v \notin Supporters(j)

(* Every leader has won the election of its term, and of every entry's term *)
(* there was a winner                                                       *)
LeadersElected == \A i \in Server : state[i] = "LEADER" => Elected(i, currentTerm[i])
EntriesElected == \A x \in AllEntries : \E i \in Server : Elected(i, x[2].Term)

(* No entry of a leader's term is beyond the end of its log *)
LeaderAhead ==
  \A i \in Server : state[i] = "LEADER" =>
    \A x \in AllEntries : x[2].Term = currentTerm[i] => x[1] <= LastLogIndex(i)

EntriesAgree ==
  \A x, y \in AllEntries : x[1] = y[1] /\ x[2].Term = y[2].Term => x = y

(* Entries have one origin, also those on disks and on their way: a leader  *)
(* that is not deposed extends the one log that its term has                *)
LogInv == LeadersElected /\ EntriesElected /\ LeaderAhead /\ EntriesAgree

-----------------------------------------------------------------------------
(* Snapshots and the service *)

(* No index into rf.log is ever out of range, in getAEInfo, Apply and       *)
(* SaveStateAndSnapshot, and Apply never makes a slice of negative capacity *)
NoPanic ==
  \A i \in Server :
    /\ state[i] = "LEADER" =>
         \A j \in Server \ {i} : InLog(i, PrevLogIndex(i, j))
    /\ applying[i] = << >> /\ lastApplied[i] >= lastSnapshotIndex[i] =>
         /\ lastApplied[i] <= commitIndex[i]
         /\ InLog(i, commitIndex[i])
    /\ serving[i] > 0 /\ serving[i] >= lastSnapshotIndex[i] => InLog(i, serving[i])

(* A snapshot on disk holds exactly the committed entries up to its index,  *)
(* whoever took it                                                          *)
SnapshotSound ==
  \A i \in Server :
    LET n == persisted[i].lastSnapshotIndex IN
    /\ n <= Len(chosen)
    /\ persisted[i].snapshot = [k \in 1 .. n |-> chosen[k].entry]

(* What the services of two servers apply at an index is the same command *)
AppliedValuesMatch ==
  \A i, j \in Server : \A k \in 1 .. min(Len(sm[i]), Len(sm[j])) :
    sm[i][k].Command = sm[j][k].Command

Promise == INSTANCE ReplicatedLog WITH
  chosen <- [k \in 1 .. Len(chosen) |-> chosen[k].entry]

(* The services see one replicated log: Raft implements ReplicatedLog *)
ImplementsReplicatedLog == Promise!Spec

=============================================================================
