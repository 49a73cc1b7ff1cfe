--------------------------- MODULE RaftTypeProofs ---------------------------
(* Type correctness of Raft, for any set of servers and any bounds, in three *)
(* parts: elections and sending; log replication; snapshots, the apply loop, *)
(* restarts and the theorem.                                                 *)
EXTENDS Raft, TLAPS, SequenceTheorems

(* The parts of TypeOK: what is persisted, and the rest *)
CoreType ==
  /\ currentTerm \in [Server -> Nat]
  /\ voteFor \in [Server -> Server \cup {None}]
  /\ log \in [Server -> Seq(Entry) \ {<< >>}]
  /\ commitIndex \in [Server -> Int]
  /\ lastSnapshotIndex \in [Server -> Nat]
  /\ lastSnapshotTerm \in [Server -> Nat]

CallSet == AppendEntriesArgs \cup InstallSnapshotArgs \cup {None, InstallNext, InstallDone}
ReplySet == AppendEntriesReply \cup InstallSnapshotReply \cup {None}

(* The answer r is of the kind of the call c *)
Fits(c, r) ==
  /\ r # None => \/ c \in AppendEntriesArgs /\ r \in AppendEntriesReply
                 \/ /\ c \in InstallSnapshotArgs \cup {InstallDone}
                    /\ r \in InstallSnapshotReply
  /\ c = InstallDone => r # None

RpcType ==
  /\ call \in [Server -> [Server -> CallSet]]
  /\ reply \in [Server -> [Server -> ReplySet]]
  /\ \A i, j \in Server : Fits(call[i][j], reply[i][j])

LateType ==
  late \subseteq RequestVoteArgs \cup AppendEntriesArgs \cup InstallSnapshotArgs

(* The arithmetic of log indexes and positions that the handlers rest on:   *)
(* the successor and the predecessor of an index are integers.              *)
LEMMA IndexSteps ==
  ASSUME NEW n \in Int
  PROVE  n + 1 \in Int /\ n - 1 \in Int
  OBVIOUS

(* A count or an absolute index is an integer, and so is what follows it. *)
LEMMA CountSteps ==
  ASSUME NEW n \in Nat
  PROVE  n \in Int /\ n + 1 \in Nat /\ n + 1 \in Int
  OBVIOUS

(* How many entries Apply delivers is a natural number. *)
LEMMA BatchLength ==
  ASSUME NEW a \in Nat, NEW c \in Int, a < c
  PROVE  c - a \in Nat
  OBVIOUS

(* What a leader newly commits is in its log: the n entries after those     *)
(* already chosen, up to its last index.                                    *)
LEMMA PositionChosen ==
  ASSUME NEW i, NEW h \in Nat, NEW n \in Nat, NEW k \in 1 .. n,
         lastSnapshotIndex[i] \in Nat, Len(log[i]) \in Nat, ~(h < lastSnapshotIndex[i]),
         n > 0 => n + h <= LastLogIndex(i)
  PROVE  Real(i, h + 1) + k - 1 \in 1 .. Len(log[i])
<1>1. k \in Nat /\ 1 <= k /\ k <= n /\ n > 0
  BY SMTT(30)
<1>2. n + h <= lastSnapshotIndex[i] + Len(log[i]) - 1
  BY <1>1, Zenon DEF LastLogIndex
<1>3. ASSUME NEW s \in Nat, NEW L \in Nat, ~(h < s), n + h <= s + L - 1
      PROVE  ((h + 1) - s + 1) + k - 1 \in 1 .. L
  BY <1>1, <1>3, SMTT(30)
<1> QED
  BY <1>2, <1>3, Zenon DEF Real

(* The k-th entry that Apply delivers is in the log when commitIndex is. *)
LEMMA PositionDelivered ==
  ASSUME NEW i, NEW k \in 1 .. commitIndex[i] - lastApplied[i],
         lastApplied[i] \in Nat, commitIndex[i] \in Int, lastSnapshotIndex[i] \in Nat,
         Len(log[i]) \in Nat, ~(lastApplied[i] < lastSnapshotIndex[i]), InLog(i, commitIndex[i])
  PROVE  Real(i, lastApplied[i] + k) \in 1 .. Len(log[i]) /\ lastApplied[i] + k \in Nat
<1>1. k \in Nat /\ 1 <= k /\ k <= commitIndex[i] - lastApplied[i]
  OBVIOUS
<1>2. /\ 1 <= commitIndex[i] - lastSnapshotIndex[i] + 1
      /\ commitIndex[i] - lastSnapshotIndex[i] + 1 <= Len(log[i])
  BY DEF Real, InLog
<1>3. ASSUME NEW s \in Nat, NEW a \in Nat, NEW c \in Int, NEW L \in Nat,
             k <= c - a, ~(a < s), 1 <= c - s + 1, c - s + 1 <= L
      PROVE  (a + k) - s + 1 \in 1 .. L /\ a + k \in Nat
  BY <1>1, <1>3, SMTT(30)
<1> QED
  BY <1>1, <1>2, <1>3, Zenon DEF Real

(* A function on 1 .. n is a sequence. *)
LEMMA FunctionIsSeq ==
  ASSUME NEW S, NEW n \in Nat, NEW f \in [1 .. n -> S]
  PROVE  f \in Seq(S)
  OBVIOUS

(* The entries a leader newly commits end at or before its last index. *)
LEMMA NewlyCommitted ==
  ASSUME NEW k \in Int, NEW l \in Int, NEW h \in Nat
  PROVE  /\ max(0, min(k, l) - h) \in Nat
         /\ max(0, min(k, l) - h) > 0 => max(0, min(k, l) - h) + h <= l
  BY DEF max, min

(* Make starts every server in a typed state. *)
LEMMA InitType == Init => TypeOK
<1> SUFFICES ASSUME Init PROVE TypeOK
  OBVIOUS
<1>1. DummyLog \in Seq(Entry) \ {<< >>}
  BY DEF DummyLog, Entry
<1>2. persisted \in [Server -> PersistedState]
  BY <1>1 DEF Init, PersistedState
<1> QED
  BY <1>1, <1>2, NoneAssumption DEF Init, TypeOK

(* The types of the fields that are not calls, replies or requests: most    *)
(* steps only need these.                                                   *)
LEMMA FieldTypes ==
  ASSUME TypeOK
  PROVE  /\ state \in [Server -> {"FOLLOWER", "CANDIDATE", "LEADER"}]
         /\ currentTerm \in [Server -> Nat]
         /\ voteFor \in [Server -> Server \cup {None}]
         /\ log \in [Server -> Seq(Entry) \ {<< >>}]
         /\ commitIndex \in [Server -> Int] /\ lastApplied \in [Server -> Nat]
         /\ nextIndex \in [Server -> [Server -> Int]]
         /\ matchIndex \in [Server -> [Server -> Int]]
         /\ lastSnapshotIndex \in [Server -> Nat] /\ lastSnapshotTerm \in [Server -> Nat]
         /\ serving \in [Server -> Int] /\ sm \in [Server -> Seq(Entry)]
         /\ restarts \in Nat
  BY Zenon DEF TypeOK

(* rf.log of a server is never empty, so that its last entry exists and has *)
(* a term.                                                                  *)
LEMMA LogType ==
  ASSUME TypeOK, NEW i \in Server
  PROVE  /\ log[i] \in Seq(Entry) /\ Len(log[i]) \in Nat /\ Len(log[i]) > 0
         /\ \A k \in 1 .. Len(log[i]) : log[i][k] \in Entry /\ log[i][k].Term \in Nat
         /\ LastLogIndex(i) \in Int /\ LastLogTerm(i) \in Nat
<1>1. log[i] \in Seq(Entry) /\ log[i] # << >> /\ lastSnapshotIndex[i] \in Nat
  BY DEF TypeOK
<1>2. Len(log[i]) \in Nat /\ Len(log[i]) > 0
  BY <1>1
<1>3. \A k \in 1 .. Len(log[i]) : log[i][k] \in Entry
  BY <1>1, ElementOfSeq
<1>4. \A k \in 1 .. Len(log[i]) : log[i][k].Term \in Nat
  BY <1>3 DEF Entry
<1> QED
  BY <1>1, <1>2, <1>3, <1>4 DEF LastLogIndex, LastLogTerm

(* What getPersistData encodes is a persisted state, whenever the fields of *)
(* the server are typed.                                                    *)
LEMMA PersistDataType ==
  ASSUME TypeOK, CoreType', NEW i \in Server
  PROVE  PersistData(i) \in PersistedState
<1>1. persisted[i].snapshot \in Seq(Entry)
  <2>1. persisted[i] \in PersistedState
    BY Zenon DEF TypeOK
  <2> QED
    BY <2>1, Zenon DEF PersistedState
<1>2. /\ currentTerm'[i] \in Nat /\ voteFor'[i] \in Server \cup {None}
      /\ log'[i] \in Seq(Entry) \ {<< >>} /\ commitIndex'[i] \in Int
      /\ lastSnapshotIndex'[i] \in Nat /\ lastSnapshotTerm'[i] \in Nat
  BY Zenon DEF CoreType
<1> QED
  BY <1>1, <1>2, Zenon DEF PersistData, PersistedState

(* persist() leaves every disk with a persisted state. *)
LEMMA PersistType ==
  ASSUME TypeOK, CoreType', NEW i \in Server, Persist(i)
  PROVE  persisted' \in [Server -> PersistedState]
  BY PersistDataType, Zenon DEF TypeOK, Persist

(* The requests an Election still waits for are RequestVote arguments. *)
LEMMA CanvassingType ==
  ASSUME TypeOK, NEW i \in Server
  PROVE  Canvassing(i) \subseteq RequestVoteArgs
<1> SUFFICES ASSUME NEW m \in Canvassing(i) PROVE m \in RequestVoteArgs
  OBVIOUS
<1>1. ballot[i] # None
  BY DEF Canvassing
<1>2. PICK j \in ballot[i].waiting : m = RequestVoteTo(i, j)
  BY <1>1, Zenon DEF Canvassing
<1>3. ballot[i] \in Ballot
  BY <1>1, Zenon DEF TypeOK
<1>4. j \in Server
  BY <1>3 DEF Ballot
<1> QED
  BY <1>2, <1>3, <1>4 DEF RequestVoteTo, RequestVoteArgs, Ballot

(* A request under way is of the kind its tag says: the handler it reaches *)
(* gets arguments of its own type.                                         *)
LEMMA MessageType ==
  ASSUME TypeOK, NEW m \in InFlight
  PROVE  /\ m \in RequestVoteArgs \cup AppendEntriesArgs \cup InstallSnapshotArgs
         /\ m.rpc = "RequestVote" => m \in RequestVoteArgs
         /\ m.rpc = "AppendEntries" => m \in AppendEntriesArgs
         /\ m.rpc = "InstallSnapshot" => m \in InstallSnapshotArgs
<1>1. CASE m \in late
  BY <1>1, Zenon DEF TypeOK, RequestVoteArgs, AppendEntriesArgs, InstallSnapshotArgs
<1>2. CASE \E i \in Server : m \in Canvassing(i)
  BY <1>2, CanvassingType DEF RequestVoteArgs
<1>3. CASE /\ m \in {call[i][j] : i, j \in Server}
           /\ m \notin {None, InstallNext, InstallDone}
  <2>1. m \in AppendEntriesArgs \cup InstallSnapshotArgs
    BY <1>3 DEF TypeOK
  <2> QED
    BY <2>1 DEF AppendEntriesArgs, InstallSnapshotArgs
<1>4. \/ m \in late
      \/ \E i \in Server : m \in Canvassing(i)
      \/ /\ m \in {call[i][j] : i, j \in Server}
         /\ m \notin {None, InstallNext, InstallDone}
  <2>1. \/ m \in late
        \/ m \in UNION {Canvassing(i) : i \in Server}
        \/ m \in {call[i][j] : i, j \in Server} \ {None, InstallNext, InstallDone}
    BY DEF InFlight
  <2>2. m \in UNION {Canvassing(i) : i \in Server} => \E i \in Server : m \in Canvassing(i)
    OBVIOUS
  <2> QED
    BY <2>1, <2>2
<1> QED
  BY <1>1, <1>2, <1>3, <1>4

(* What an append-entries goroutine is waiting for is one of its requests, *)
(* or the mark of a snapshot to send or just answered.                     *)
LEMMA CallSetType ==
  ASSUME TypeOK, NEW i \in Server, NEW j \in Server
  PROVE  call[i][j] \in CallSet
<1>1. call \in [Server -> [Server -> CallSet]]
  BY Zenon DEF TypeOK, CallSet
<1>2. call[i] \in [Server -> CallSet]
  BY <1>1, Zenon
<1> QED
  BY <1>2, Zenon

(* An append-entries goroutine that has an answer has one of the kind of its *)
(* request.                                                                  *)
LEMMA CallType ==
  ASSUME TypeOK, NEW i \in Server, NEW j \in Server
  PROVE  /\ call[i][j] # None /\ call[i][j].rpc = "AppendEntries" =>
               /\ call[i][j] \in AppendEntriesArgs
               /\ reply[i][j] # None => reply[i][j] \in AppendEntriesReply
         /\ call[i][j] # None /\ call[i][j].rpc = "InstallSnapshot" =>
               /\ call[i][j] \in InstallSnapshotArgs
               /\ reply[i][j] # None => reply[i][j] \in InstallSnapshotReply
         /\ call[i][j] = InstallDone => reply[i][j] \in InstallSnapshotReply
<1>1. /\ call[i][j] \in AppendEntriesArgs \cup InstallSnapshotArgs
                           \cup {None, InstallNext, InstallDone}
      /\ reply[i][j] # None =>
            \/ call[i][j] \in AppendEntriesArgs /\ reply[i][j] \in AppendEntriesReply
            \/ /\ call[i][j] \in InstallSnapshotArgs \cup {InstallDone}
               /\ reply[i][j] \in InstallSnapshotReply
      /\ call[i][j] = InstallDone => reply[i][j] # None
  BY SMTT(60) DEF TypeOK
<1>2. /\ call[i][j] \in AppendEntriesArgs => call[i][j].rpc = "AppendEntries"
      /\ call[i][j] \in InstallSnapshotArgs => call[i][j].rpc = "InstallSnapshot"
      /\ InstallNext.rpc = "InstallNext" /\ InstallDone.rpc = "InstallDone"
  BY DEF AppendEntriesArgs, InstallSnapshotArgs, InstallNext, InstallDone
<1> QED
  BY <1>1, <1>2

(* Election keeps the types: its ballot carries the end of the log it will *)
(* be judged by.                                                           *)
LEMMA ElectionType ==
  ASSUME TypeOK, NEW i \in Server, Election(i)
  PROVE  TypeOK'
<1>1. CoreType'
  <2>1. currentTerm' \in [Server -> Nat]
    BY FieldTypes, CountSteps, Zenon DEF Election
  <2>2. voteFor' \in [Server -> Server \cup {None}]
    BY FieldTypes, Zenon DEF Election
  <2> QED
    BY <2>1, <2>2, FieldTypes, Zenon DEF Election, CoreType, snapVars
<1>2. persisted' \in [Server -> PersistedState]
  BY <1>1, PersistType DEF Election
<1>3. ballot' \in [Server -> Ballot \cup {None}]
  BY <1>1, LogType, ZenonT(40) DEF Election, TypeOK, CoreType, Ballot
<1> QED
  BY <1>1, <1>2, <1>3, ZenonT(40) DEF Election, TypeOK, CoreType, leaderVars, applyVars, rpcVars

(* A request its caller gave up is still a request. *)
LEMMA AbandonType ==
  ASSUME TypeOK, NEW R, R \subseteq RequestVoteArgs \cup AppendEntriesArgs \cup InstallSnapshotArgs,
         Abandon(R)
  PROVE  LateType'
  BY DEF TypeOK, Abandon, LateType

(* The end of an Election keeps the types, whether the candidate becomes *)
(* leader (changeRole resets both index arrays) or not.                  *)
LEMMA ElectionEndType ==
  ASSUME TypeOK, NEW i \in Server, ElectionEnd(i)
  PROVE  TypeOK'
<1>1. CoreType'
  BY Zenon DEF ElectionEnd, TypeOK, CoreType, roleVars, snapVars
<1>2. persisted' \in [Server -> PersistedState]
  BY <1>1, PersistType, Zenon DEF ElectionEnd, TypeOK
<1>3. LateType'
  BY CanvassingType, AbandonType DEF ElectionEnd
<1>4. state' \in [Server -> {"FOLLOWER", "CANDIDATE", "LEADER"}]
  BY Zenon DEF ElectionEnd, TypeOK, roleVars
<1>6. LastLogIndex(i) \in Int
  BY LogType
<1>7. /\ [j \in Server |-> LastLogIndex(i) + 1] \in [Server -> Int]
      /\ [j \in Server |-> IF j = i THEN LastLogIndex(i) ELSE 0] \in [Server -> Int]
  BY <1>6
<1>8. /\ nextIndex' \in [Server -> [Server -> Int]]
      /\ matchIndex' \in [Server -> [Server -> Int]]
  <2>1. CASE UNCHANGED leaderVars
    BY <2>1, Zenon DEF TypeOK, leaderVars
  <2>2. CASE /\ nextIndex' = [nextIndex EXCEPT ![i] = [j \in Server |-> LastLogIndex(i) + 1]]
             /\ matchIndex' = [matchIndex EXCEPT ![i] =
                  [j \in Server |-> IF j = i THEN LastLogIndex(i) ELSE 0]]
    BY <1>7, <2>2, Zenon DEF TypeOK
  <2> QED
    BY <2>1, <2>2 DEF ElectionEnd
<1>5. ballot' \in [Server -> Ballot \cup {None}]
  BY DEF ElectionEnd, TypeOK
<1> QED
  BY <1>1, <1>2, <1>3, <1>4, <1>5, <1>8, ZenonT(40)
   DEF ElectionEnd, TypeOK, CoreType, LateType, applyVars

(* Start keeps the types: it appends one entry of the current term. *)
LEMMA StartType ==
  ASSUME TypeOK, NEW i \in Server, NEW c \in Command, Start(i, c)
  PROVE  TypeOK'
<1>1. LastLogIndex(i) + 1 \in Int
  BY LogType
<1>2. [Term |-> currentTerm[i], Command |-> c] \in Entry
  BY Zenon DEF TypeOK, Entry
<1>3. log[i] \in Seq(Entry)
  BY LogType
<1>4. Append(log[i], [Term |-> currentTerm[i], Command |-> c]) \in Seq(Entry) \ {<< >>}
  BY <1>2, <1>3, AppendProperties, EmptySeq, SMTT(60)
<1>5. CoreType'
  BY <1>4, Zenon DEF Start, TypeOK, CoreType, roleVars, snapVars
<1>6. persisted' \in [Server -> PersistedState]
  BY <1>5, PersistType, Zenon DEF Start
<1>7. /\ nextIndex' \in [Server -> [Server -> Int]]
      /\ matchIndex' \in [Server -> [Server -> Int]]
  <2>1. LastLogIndex(i) + 1 + 1 \in Int
    BY <1>1, IndexSteps, Zenon
  <2> QED
    BY <1>1, <2>1, ZenonT(40) DEF Start, TypeOK
<1> QED
  BY <1>5, <1>6, <1>7, Zenon DEF Start, TypeOK, CoreType, roleVars, applyVars, rpcVars

(* TypeOK contains RpcType. *)
LEMMA RpcTyped ==
  ASSUME TypeOK
  PROVE  RpcType
  BY Zenon DEF TypeOK, RpcType, CallSet, ReplySet, Fits

(* Giving one goroutine another call and answer that fit each other keeps *)
(* all calls and answers fitting.                                         *)
LEMMA RpcUpdate ==
  ASSUME RpcType, NEW i \in Server, NEW j \in Server,
         NEW c \in CallSet, NEW r \in ReplySet, Fits(c, r),
         \/ call' = [call EXCEPT ![i][j] = c]
         \/ call' = call /\ c = call[i][j],
         \/ reply' = [reply EXCEPT ![i][j] = r]
         \/ reply' = reply /\ r = reply[i][j]
  PROVE  RpcType'
<1>1. call' \in [Server -> [Server -> CallSet]]
  <2>1. call \in [Server -> [Server -> CallSet]]
    BY DEF RpcType
  <2>2. CASE call' = [call EXCEPT ![i][j] = c]
    BY <2>1, <2>2
  <2> QED
    BY <2>1, <2>2, Zenon
<1>2. reply' \in [Server -> [Server -> ReplySet]]
  <2>1. reply \in [Server -> [Server -> ReplySet]]
    BY DEF RpcType
  <2>2. CASE reply' = [reply EXCEPT ![i][j] = r]
    BY <2>1, <2>2, Zenon
  <2> QED
    BY <2>1, <2>2, Zenon
<1>3. ASSUME NEW a \in Server, NEW b \in Server
      PROVE  Fits(call[a][b], reply[a][b])'
  <2>1. call[a][b]' = IF a = i /\ b = j THEN c ELSE call[a][b]
    BY DEF RpcType
  <2>2. reply[a][b]' = IF a = i /\ b = j THEN r ELSE reply[a][b]
    BY DEF RpcType
  <2>3. Fits(call[a][b], reply[a][b])
    BY DEF RpcType
  <2>4. Fits(call[a][b]', reply[a][b]')
    BY <2>1, <2>2, <2>3
  <2> QED
    BY <2>4
     DEF Fits, AppendEntriesArgs, InstallSnapshotArgs, AppendEntriesReply, InstallSnapshotReply, InstallDone
<1> QED
  BY <1>1, <1>2, <1>3, Zenon DEF RpcType, CallSet, ReplySet, AppendEntriesArgs, InstallSnapshotArgs,
     AppendEntriesReply, InstallSnapshotReply, InstallNext, InstallDone

(* A goroutine that returns leaves no call and no answer behind. *)
LEMMA HangupType ==
  ASSUME TypeOK, NEW i \in Server, NEW j \in Server, Hangup(i, j)
  PROVE  RpcType'
<1>1. None \in CallSet /\ None \in ReplySet /\ Fits(None, None)
  BY NoneAssumption, Zenon DEF CallSet, ReplySet, Fits
<1> QED
  BY <1>1, RpcTyped, RpcUpdate, Zenon DEF Hangup

(* An answer of the right kind is delivered to its waiting caller, or lost *)
(* with its late request.                                                  *)
LEMMA RespondType ==
  ASSUME TypeOK, NEW m, NEW r, Respond(m, r),
         \/ m \in AppendEntriesArgs /\ r \in AppendEntriesReply
         \/ m \in InstallSnapshotArgs /\ r \in InstallSnapshotReply
  PROVE  RpcType' /\ LateType'
<1>1. CASE /\ call[m.from][m.to] = m
           /\ reply' = [reply EXCEPT ![m.from][m.to] = r]
           /\ UNCHANGED <<call, late>>
  <2>1. /\ m.from \in Server /\ m.to \in Server
        /\ m # InstallDone
    BY DEF AppendEntriesArgs, InstallSnapshotArgs, InstallDone
  <2>2. m \in CallSet /\ r \in ReplySet /\ Fits(m, r)
    BY <2>1 DEF CallSet, ReplySet, Fits
  <2>3. RpcType'
    BY <1>1, <2>1, <2>2, RpcTyped, RpcUpdate, ZenonT(40)
  <2>4. LateType'
    BY <1>1, Zenon DEF TypeOK, LateType
  <2> QED
    BY <2>3, <2>4
<1>2. CASE late' = late \ {m} /\ UNCHANGED <<call, reply>>
  BY <1>2, Zenon DEF TypeOK, RpcType, LateType, CallSet, ReplySet, Fits
<1> QED
  BY <1>1, <1>2 DEF Respond

(* A timeout of appendEntriesToPeer keeps the types. *)
LEMMA RPCTimeoutType ==
  ASSUME TypeOK, NEW i \in Server, NEW j \in Server, RPCTimeout(i, j)
  PROVE  TypeOK'
<1>1. RpcType'
  BY HangupType, Zenon DEF RPCTimeout
<1>2. call[i][j] \in AppendEntriesArgs \cup InstallSnapshotArgs
  BY SMTT(60) DEF RPCTimeout, TypeOK
<1>3. LateType'
  BY <1>2, AbandonType, Zenon DEF RPCTimeout
<1> QED
  BY <1>1, <1>3, ZenonT(40) DEF RPCTimeout, TypeOK, RpcType, CallSet, ReplySet, Fits, LateType,
     roleVars, leaderVars, snapVars, applyVars

(* getAEInfo makes AppendEntries arguments: the previous entry is in the *)
(* log, the entries sent are a suffix of it.                             *)
LEMMA SendAppendEntriesType ==
  ASSUME TypeOK, NEW i \in Server, NEW j \in Server, SendAppendEntries(i, j)
  PROVE  TypeOK'
<1> DEFINE prev == PrevLogIndex(i, j)
<1>0. /\ LastLogIndex(i) \in Int /\ log[i] \in Seq(Entry) /\ Len(log[i]) \in Nat
      /\ lastSnapshotIndex[i] \in Nat /\ nextIndex[i][j] \in Int
  <2>1. lastSnapshotIndex[i] \in Nat /\ nextIndex[i][j] \in Int
    BY Zenon DEF TypeOK
  <2> QED
    BY <2>1, LogType, Zenon
<1>1. prev \in Int
  BY <1>0 DEF PrevLogIndex
<1>2. /\ Real(i, prev) \in 1 .. Len(log[i])
      /\ Real(i, prev + 1) = Real(i, prev) + 1
  <2>1. InLog(i, prev)
    BY DEF SendAppendEntries
  <2> HIDE DEF prev
  <2> QED
    BY <1>0, <1>1, <2>1, SMTT(60) DEF InLog, Real
<1>3. TermAt(i, prev) \in Nat
  BY <1>2, LogType, Zenon DEF TermAt
<1>4. LogFrom(i, prev + 1) \in Seq(Entry)
  BY <1>0, <1>2, SubSeqProperties, SMTT(30) DEF LogFrom
<1>5. [rpc |-> "AppendEntries", from |-> i, to |-> j, Term |-> currentTerm[i],
       PrevLogIndex |-> prev, PrevLogTerm |-> TermAt(i, prev),
       Entries |-> LogFrom(i, prev + 1), LeaderCommit |-> commitIndex[i]]
        \in AppendEntriesArgs
  BY <1>1, <1>3, <1>4, Zenon DEF TypeOK, AppendEntriesArgs
<1>6. call[i][j] = None /\ reply[i][j] = None
  BY NoneAssumption, RpcTyped DEF SendAppendEntries, RpcType, Fits
<1>7. RpcType'
  <2> DEFINE c == [rpc |-> "AppendEntries", from |-> i, to |-> j, Term |-> currentTerm[i],
                   PrevLogIndex |-> prev, PrevLogTerm |-> TermAt(i, prev),
                   Entries |-> LogFrom(i, prev + 1), LeaderCommit |-> commitIndex[i]]
  <2>1. call' = [call EXCEPT ![i][j] = c] /\ reply' = reply
    BY Zenon DEF SendAppendEntries
  <2>2. c \in CallSet /\ c # InstallDone
    BY <1>5 DEF CallSet, AppendEntriesArgs, InstallDone
  <2> HIDE DEF c
  <2>3. None \in ReplySet /\ Fits(c, None)
    BY <2>2, Zenon DEF ReplySet, Fits
  <2> QED
    BY <1>6, <2>1, <2>2, <2>3, RpcTyped, RpcUpdate, ZenonT(40)
<1> QED
  BY <1>7, Zenon DEF SendAppendEntries, TypeOK, RpcType, CallSet, ReplySet, Fits, roleVars,
     leaderVars, snapVars, applyVars

(* SendRequest keeps its ballot a ballot when an answer comes in. *)
LEMMA CountVoteType ==
  ASSUME TypeOK, NEW m \in RequestVoteArgs, NEW granted, CountVote(m, granted)
  PROVE  ballot' \in [Server -> Ballot \cup {None}] /\ LateType'
<1>1. m.from \in Server /\ m.to \in Server
  BY DEF RequestVoteArgs
<1>2. CASE m \in Canvassing(m.from) /\ UNCHANGED late
           /\ \E inTime \in BOOLEAN :
                ballot' = [ballot EXCEPT
                  ![m.from].waiting = @ \ {m.to},
                  ![m.from].votes = IF inTime /\ granted THEN @ \cup {m.to} ELSE @]
  <2>1. ballot[m.from] # None
    BY <1>2 DEF Canvassing
  <2>2. ballot[m.from] \in Ballot
    BY <1>1, <2>1, Zenon DEF TypeOK
  <2>3. ASSUME NEW V \in SUBSET Server
        PROVE  [ballot[m.from] EXCEPT !.waiting = @ \ {m.to}, !.votes = V] \in Ballot
    BY <2>2, Zenon DEF Ballot
  <2>4. PICK V \in SUBSET Server :
          ballot' = [ballot EXCEPT ![m.from] =
                       [ballot[m.from] EXCEPT !.waiting = @ \ {m.to}, !.votes = V]]
    <3>1. PICK inTime \in BOOLEAN :
            ballot' = [ballot EXCEPT
              ![m.from].waiting = @ \ {m.to},
              ![m.from].votes = IF inTime /\ granted THEN @ \cup {m.to} ELSE @]
      BY <1>2, Zenon
    <3>2. ballot \in [Server -> Ballot \cup {None}]
      BY Zenon DEF TypeOK
    <3> DEFINE V == IF inTime /\ granted THEN ballot[m.from].votes \cup {m.to}
                   ELSE ballot[m.from].votes
    <3>3. V \in SUBSET Server
      BY <1>1, <2>2 DEF Ballot
    <3>4. ballot' = [ballot EXCEPT ![m.from] =
                       [ballot[m.from] EXCEPT !.waiting = @ \ {m.to}, !.votes = V]]
      BY <1>1, <2>2, <3>1, <3>2, Zenon DEF Ballot
    <3> QED
      BY <3>3, <3>4, Zenon
  <2>5. ballot' \in [Server -> Ballot \cup {None}]
    BY <1>1, <2>3, <2>4, ZenonT(40) DEF TypeOK
  <2> QED
    BY <1>2, <2>5, Zenon DEF TypeOK, LateType
<1>3. CASE late' = late \ {m} /\ UNCHANGED ballot
  BY <1>3, Zenon DEF TypeOK, LateType
<1> QED
  BY <1>2, <1>3, Zenon DEF CountVote

(* RequestVote keeps the types. *)
LEMMA RequestVoteType ==
  ASSUME TypeOK, NEW m \in RequestVoteArgs, RequestVote(m)
  PROVE  TypeOK'
<1>1. m.from \in Server /\ m.to \in Server /\ m.Term \in Nat
  BY DEF RequestVoteArgs
<1>2. CoreType'
  BY <1>1, ZenonT(40) DEF RequestVote, TypeOK, CoreType, snapVars
<1>3. persisted' \in [Server -> PersistedState]
  BY <1>1, <1>2, PersistType, Zenon DEF RequestVote
<1>4. ballot' \in [Server -> Ballot \cup {None}] /\ LateType'
  BY CountVoteType, SMTT(60) DEF RequestVote
<1>5. state' \in [Server -> {"FOLLOWER", "CANDIDATE", "LEADER"}]
  BY <1>1, Zenon DEF RequestVote, TypeOK
<1> QED
  BY <1>2, <1>3, <1>4, <1>5, ZenonT(40)
   DEF RequestVote, TypeOK, CoreType, LateType, leaderVars, applyVars

-----------------------------------------------------------------------------
(* Log replication *)

(* After an answer was used, the goroutine is free or about to send a *)
(* snapshot.                                                          *)
LEMMA RepliedCallType ==
  ASSUME TypeOK, NEW i \in Server, NEW j \in Server, NEW c \in {None, InstallNext},
         call' = [call EXCEPT ![i][j] = c], reply' = [reply EXCEPT ![i][j] = None]
  PROVE  RpcType'
<1>1. c \in CallSet /\ None \in ReplySet /\ Fits(c, None)
  BY NoneAssumption DEF CallSet, ReplySet, Fits, InstallNext, InstallDone
<1> QED
  BY <1>1, RpcTyped, RpcUpdate, ZenonT(40)

(* Stepping down on the answer of a later term keeps the types. *)
LEMMA AppendEntriesStepDownType ==
  ASSUME TypeOK, NEW i \in Server, NEW j \in Server,
         AppendEntriesReplied(i, j), AppendEntriesStepDown(i, j)
  PROVE  TypeOK'
<1>1. reply[i][j] \in AppendEntriesReply
  BY CallType DEF AppendEntriesReplied
<1>2. reply[i][j].Term \in Nat
  BY <1>1 DEF AppendEntriesReply
<1>3. CoreType'
  BY <1>2, ZenonT(40) DEF AppendEntriesStepDown, TypeOK, CoreType, snapVars
<1>4. persisted' \in [Server -> PersistedState]
  BY <1>3, PersistType DEF AppendEntriesStepDown
<1>5. RpcType'
  BY RepliedCallType, ZenonT(40) DEF AppendEntriesReplied, AppendEntriesStepDown
<1>6. state' \in [Server -> {"FOLLOWER", "CANDIDATE", "LEADER"}]
  BY DEF AppendEntriesStepDown, TypeOK
<1> QED
  BY <1>3, <1>4, <1>5, <1>6, ZenonT(40)
   DEF AppendEntriesReplied, AppendEntriesStepDown, TypeOK, CoreType,
     RpcType, CallSet, ReplySet, Fits, leaderVars, applyVars

(* Ignoring an outdated answer keeps the types. *)
LEMMA AppendEntriesIgnoredType ==
  ASSUME TypeOK, NEW i \in Server, NEW j \in Server,
         AppendEntriesReplied(i, j), AppendEntriesIgnored(i, j)
  PROVE  TypeOK'
<1>1. RpcType'
  BY RepliedCallType, Zenon DEF AppendEntriesReplied, AppendEntriesIgnored
<1> QED
  BY <1>1, Zenon
   DEF AppendEntriesReplied, AppendEntriesIgnored, TypeOK, RpcType, CallSet, ReplySet,
     Fits, roleVars, leaderVars, snapVars, applyVars

(* What a leader newly commits are entries of its log, in range. *)
LEMMA ChooseType ==
  ASSUME TypeOK, NEW i \in Server, NEW index \in Int
  PROVE  Choose(i, index) \in Seq([entry : Entry, by : Nat])
<1> DEFINE Chosen == [entry : Entry, by : Nat]
           n == max(0, min(index, LastLogIndex(i)) - Len(chosen))
           new == [k \in 1 .. n |->
                     [entry |-> log[i][Real(i, Len(chosen) + 1) + k - 1], by |-> currentTerm[i]]]
<1>1. chosen \in Seq(Chosen) /\ lastSnapshotIndex[i] \in Nat /\ currentTerm[i] \in Nat
  BY Zenon DEF TypeOK
<1>2. Len(chosen) \in Nat
  BY <1>1, LenProperties, Zenon
<1>3. CASE Len(chosen) < lastSnapshotIndex[i]
  BY <1>1, <1>3, Zenon DEF Choose
<1>4. CASE ~(Len(chosen) < lastSnapshotIndex[i])
  <2>1. /\ Len(log[i]) \in Nat /\ LastLogIndex(i) \in Int
        /\ LastLogIndex(i) = lastSnapshotIndex[i] + Len(log[i]) - 1
    BY LogType, Zenon DEF LastLogIndex
  <2>2. n \in Nat /\ (n > 0 => n + Len(chosen) <= LastLogIndex(i))
    BY <1>2, <2>1, NewlyCommitted, Zenon
  <2> HIDE DEF n
  <2>3. ASSUME NEW k \in 1 .. n
        PROVE  log[i][Real(i, Len(chosen) + 1) + k - 1] \in Entry
    <3>1. Real(i, Len(chosen) + 1) + k - 1 \in 1 .. Len(log[i])
      BY <1>1, <1>2, <1>4, <2>1, <2>2, PositionChosen, Zenon
    <3> QED
      BY <3>1, LogType
  <2>4. \A k \in 1 .. n : [entry |-> log[i][Real(i, Len(chosen) + 1) + k - 1],
                           by |-> currentTerm[i]] \in Chosen
    BY <1>1, <2>3, Zenon
  <2>5. new \in Seq(Chosen)
    BY <2>2, <2>4, IsASeq
  <2> HIDE DEF new, Chosen
  <2>6. chosen \o new \in Seq(Chosen)
    BY <1>1, <2>5, ConcatProperties, Zenon
  <2> QED
    BY <1>4, <2>6, Zenon DEF Choose, n, new, Chosen
<1> QED
  BY <1>3, <1>4, Zenon

(* The index a leader commits up to is an integer. *)
LEMMA LeaderCommitType ==
  ASSUME TypeOK, NEW i \in Server, NEW match, NEW k \in LeaderCommit(i, match)
  PROVE  k \in Int
<1>1. commitIndex[i] \in Int
  BY SMTT(60) DEF TypeOK
<1>2. LastLogIndex(i) \in Int
  BY LogType, ZenonT(60)
<1> QED
  BY <1>1, <1>2, SMTT(60) DEF LeaderCommit

(* The index tried next after a mismatch is an integer, though maybe -1. *)
LEMMA BacktrackType ==
  ASSUME TypeOK, NEW i \in Server, NEW r \in AppendEntriesReply, NEW k \in Backtrack(i, r)
  PROVE  k \in Int
<1>1. lastSnapshotIndex[i] \in Nat
  BY DEF TypeOK
<1>2. r.XLen \in Int /\ r.XIndex \in Int
  BY Zenon DEF AppendEntriesReply
<1>3. Len(log[i]) \in Nat
  BY LogType, Zenon
<1>4. ContainsXTerm(i, r.Term) \subseteq Int
  BY <1>3 DEF ContainsXTerm
<1>5. \A x \in ContainsXTerm(i, r.Term) : x - 1 + lastSnapshotIndex[i] \in Int
  BY <1>1, <1>4
<1>6. 0 \in Int
  OBVIOUS
<1> QED
  BY <1>2, <1>5, <1>6, Zenon DEF Backtrack

(* Taking a success into nextIndex, matchIndex and commitIndex keeps the *)
(* types.                                                                *)
LEMMA AppendEntriesMatchedType ==
  ASSUME TypeOK, NEW i \in Server, NEW j \in Server,
         AppendEntriesReplied(i, j), AppendEntriesMatched(i, j)
  PROVE  TypeOK'
<1> DEFINE Entries == call[i][j].Entries
           next == nextIndex[i][j] + Len(Entries)
           match == [matchIndex[i] EXCEPT ![j] = next - 1]
           new == Entries # << >> /\ Entries[Len(Entries)].Term = currentTerm[i]
<1>1. call[i][j] \in AppendEntriesArgs
  BY CallType, Zenon DEF AppendEntriesReplied
<1>2. Len(Entries) \in Nat
  BY <1>1, LenProperties, Zenon DEF AppendEntriesArgs
<1>3. /\ nextIndex[i][j] \in Int /\ matchIndex[i] \in [Server -> Int]
      /\ commitIndex[i] \in Int
  BY Zenon DEF TypeOK
<1>4. next \in Int /\ match \in [Server -> Int]
  BY <1>2, <1>3, SMTT(60)
<1>5. PICK index \in IF new THEN LeaderCommit(i, match) ELSE {commitIndex[i]} :
        /\ commitIndex' = [commitIndex EXCEPT ![i] = index]
        /\ chosen' = Choose(i, index)
  BY Zenon DEF AppendEntriesMatched
<1>6. nextIndex' = [nextIndex EXCEPT ![i][j] = next] /\ matchIndex' = [matchIndex EXCEPT ![i] = match]
  BY Zenon DEF AppendEntriesMatched
<1>7. index \in Int
  BY <1>3, <1>5, LeaderCommitType, Zenon
<1> HIDE DEF next, match
<1>8. /\ nextIndex' \in [Server -> [Server -> Int]]
      /\ matchIndex' \in [Server -> [Server -> Int]]
  BY <1>4, <1>6, ZenonT(40) DEF TypeOK
<1>9. commitIndex' \in [Server -> Int]
  BY <1>5, <1>7, Zenon DEF TypeOK
<1>10. chosen' \in Seq([entry : Entry, by : Nat])
  BY <1>5, <1>7, ChooseType, Zenon
<1>11. RpcType'
  BY RepliedCallType, ZenonT(40) DEF AppendEntriesReplied, AppendEntriesMatched
<1>12. UNCHANGED <<state, currentTerm, voteFor, log, lastSnapshotIndex, lastSnapshotTerm,
                   persisted, lastApplied, applying, serving, sm, ballot, late, restarts>>
  BY ZenonT(40) DEF AppendEntriesReplied, AppendEntriesMatched, roleVars, snapVars, applyVars
<1> QED
  BY <1>8, <1>9, <1>10, <1>11, <1>12, ZenonT(40) DEF TypeOK, RpcType, CallSet, ReplySet, Fits

(* Backing up nextIndex and matchIndex after a mismatch keeps the types. *)
LEMMA AppendEntriesMismatchedType ==
  ASSUME TypeOK, NEW i \in Server, NEW j \in Server,
         AppendEntriesReplied(i, j), AppendEntriesMismatched(i, j)
  PROVE  TypeOK'
<1>1. reply[i][j] \in AppendEntriesReply
  BY CallType DEF AppendEntriesReplied
<1>2. PICK next \in Backtrack(i, reply[i][j]) :
        /\ nextIndex' = [nextIndex EXCEPT ![i][j] = next]
        /\ matchIndex' = [matchIndex EXCEPT ![i][j] = next - 1]
        /\ call' = [call EXCEPT ![i][j] =
             IF next <= lastSnapshotIndex[i] THEN InstallNext ELSE None]
  BY ZenonT(40) DEF AppendEntriesMismatched
<1>3. next \in Int /\ next - 1 \in Int
  BY <1>1, BacktrackType, IndexSteps, Zenon
<1>4. /\ nextIndex' \in [Server -> [Server -> Int]]
      /\ matchIndex' \in [Server -> [Server -> Int]]
  BY <1>2, <1>3, ZenonT(40) DEF TypeOK
<1>5. RpcType'
  <2> DEFINE c == IF next <= lastSnapshotIndex[i] THEN InstallNext ELSE None
  <2>1. c \in {None, InstallNext}
    BY Zenon
  <2>2. call' = [call EXCEPT ![i][j] = c] /\ reply' = [reply EXCEPT ![i][j] = None]
    BY <1>2, Zenon DEF AppendEntriesReplied
  <2> QED
    BY <2>1, <2>2, RepliedCallType, ZenonT(40)
<1>6. UNCHANGED <<state, currentTerm, voteFor, log, lastSnapshotIndex, lastSnapshotTerm,
                  commitIndex, chosen, persisted, lastApplied, applying, serving, sm, ballot, late,
                  restarts>>
  BY DEF AppendEntriesReplied, AppendEntriesMismatched, roleVars, snapVars, applyVars
<1> QED
  BY <1>4, <1>5, <1>6, ZenonT(40) DEF TypeOK, RpcType, CallSet, ReplySet, Fits

(* The reply AppendEntries starts from is a reply. *)
LEMMA RejectionType ==
  Rejection \in AppendEntriesReply
<1>1. -1 \in Int /\ 0 \in Int /\ 0 \in Nat /\ FALSE \in BOOLEAN
  OBVIOUS
<1> QED
  BY <1>1, Zenon DEF Rejection, AppendEntriesReply

(* Refusing the AppendEntries of an earlier term keeps the types. *)
LEMMA AppendEntriesStaleType ==
  ASSUME TypeOK, NEW m \in AppendEntriesArgs, AppendEntries(m), AppendEntriesStale(m)
  PROVE  TypeOK'
<1>1. m.to \in Server
  BY Zenon DEF AppendEntriesArgs
<1>2. currentTerm[m.to] \in Nat
  BY <1>1, Zenon DEF TypeOK
<1>3. [Rejection EXCEPT !.Term = currentTerm[m.to]] \in AppendEntriesReply
  BY <1>2, RejectionType, Zenon DEF AppendEntriesReply
<1>4. RpcType' /\ LateType'
  BY <1>3, RespondType, Zenon DEF AppendEntriesStale
<1> QED
  BY <1>4, ZenonT(40)
   DEF AppendEntries, AppendEntriesStale, TypeOK, RpcType, CallSet, ReplySet, Fits,
     LateType, roleVars, leaderVars, snapVars, applyVars

(* Each of the four refusals of AppendEntries in the current term keeps the *)
(* types: a conflicting entry is in the log, so that its term exists.       *)
LEMMA AppendEntriesRejectType ==
  ASSUME TypeOK, NEW m \in AppendEntriesArgs, AppendEntries(m), AppendEntriesReject(m)
  PROVE  TypeOK'
<1> DEFINE j == m.to
<1>1. j \in Server /\ m.Term \in Nat /\ m.PrevLogIndex \in Int
  BY Zenon DEF AppendEntriesArgs
<1>2. /\ LastLogIndex(j) \in Int /\ Len(log[j]) \in Nat
      /\ LastLogIndex(j) = lastSnapshotIndex[j] + Len(log[j]) - 1
  BY <1>1, LogType, Zenon DEF LastLogIndex
<1>3. lastSnapshotIndex[j] \in Nat
  BY <1>1, Zenon DEF TypeOK
<1>4. \E r \in AppendEntriesReply : Respond(m, r)
  <2>1. CASE Respond(m, [Rejection EXCEPT !.XLen = LastLogIndex(j) + 1])
    BY <1>2, <2>1, RejectionType, IndexSteps, ZenonT(40) DEF AppendEntriesReply
  <2>2. CASE Respond(m, [Rejection EXCEPT !.NextIndex = lastSnapshotIndex[j] + 1])
    BY <1>3, <2>2, RejectionType DEF AppendEntriesReply
  <2>3. CASE Respond(m, [Rejection EXCEPT !.NextIndex = -1])
    BY <2>3, RejectionType DEF AppendEntriesReply
  <2>4. CASE /\ ~(LastLogIndex(j) < m.PrevLogIndex)
             /\ ~(m.PrevLogIndex < lastSnapshotIndex[j])
             /\ \E x \in XIndex(j, m) :
                  Respond(m, [Rejection EXCEPT !.XTerm = TermAt(j, m.PrevLogIndex),
                                               !.XIndex = x])
    <3>1. Real(j, m.PrevLogIndex) \in 1 .. Len(log[j])
      BY <1>1, <1>2, <1>3, <2>4, SMTT(60) DEF Real
    <3>2. TermAt(j, m.PrevLogIndex) \in Int
      <4>1. log[j][Real(j, m.PrevLogIndex)].Term \in Nat
        BY <1>1, <3>1, LogType, Zenon
      <4>2. TermAt(j, m.PrevLogIndex) \in Nat
        BY <4>1, Zenon DEF TermAt
      <4> QED
        BY <4>2
    <3>3. XIndex(j, m) \subseteq Int
      <4>1. lastSnapshotIndex[j] + 1 .. LastLogIndex(j) \subseteq Int
        BY <1>2, <1>3
      <4> QED
        BY <4>1, Zenon DEF XIndex
    <3> QED
      BY <2>4, <3>2, <3>3, RejectionType, Zenon DEF AppendEntriesReply
  <2> QED
    BY <2>1, <2>2, <2>3, <2>4, Zenon DEF AppendEntriesReject
<1>5. RpcType' /\ LateType'
  BY <1>4, RespondType, Zenon
<1>6. CoreType'
  BY <1>1, ZenonT(40) DEF AppendEntries, AppendEntriesReject, AdoptLeader, TypeOK, CoreType, snapVars
<1>7. persisted' \in [Server -> PersistedState]
  BY <1>1, <1>6, PersistType, Zenon DEF AppendEntriesReject
<1>8. state' \in [Server -> {"FOLLOWER", "CANDIDATE", "LEADER"}]
  BY <1>1, Zenon DEF AppendEntriesReject, AdoptLeader, TypeOK
<1>9. UNCHANGED <<nextIndex, matchIndex, lastApplied, applying, serving, sm, ballot, restarts, chosen>>
  BY Zenon DEF AppendEntries, leaderVars, applyVars
<1> QED
  BY <1>5, <1>6, <1>7, <1>8, <1>9, ZenonT(60)
   DEF TypeOK, CoreType, RpcType, CallSet, ReplySet, Fits, LateType

(* Truncating the log and appending the entries keeps the types: the dummy *)
(* entry is never cut off.                                                 *)
LEMMA AppendEntriesAcceptType ==
  ASSUME TypeOK, NEW m \in AppendEntriesArgs, AppendEntries(m), AppendEntriesAccept(m)
  PROVE  TypeOK'
<1> DEFINE j == m.to
           new == LogTo(j, m.PrevLogIndex) \o m.Entries
<1>1. /\ j \in Server /\ m.Term \in Nat /\ m.PrevLogIndex \in Int
      /\ m.Entries \in Seq(Entry) /\ m.LeaderCommit \in Int
  BY Zenon DEF AppendEntriesArgs
<1>2. log[j] \in Seq(Entry) /\ Len(log[j]) \in Nat
  BY <1>1, LogType, Zenon
<1>3. Real(j, m.PrevLogIndex) \in 1 .. Len(log[j])
  BY SMTT(60) DEF AppendEntriesAccept, InLog
<1>4. /\ LogTo(j, m.PrevLogIndex) \in Seq(Entry)
      /\ Len(LogTo(j, m.PrevLogIndex)) = Real(j, m.PrevLogIndex)
  BY <1>2, <1>3, SubSeqProperties, SMTT(60) DEF LogTo
<1>5. new \in Seq(Entry) /\ Len(new) = Len(LogTo(j, m.PrevLogIndex)) + Len(m.Entries)
  BY <1>1, <1>4, ConcatProperties, Zenon
<1>6. new \in Seq(Entry) \ {<< >>}
  BY <1>1, <1>3, <1>4, <1>5, LenProperties, EmptySeq, SMTT(60)
<1>7. Len(m.Entries) \in Nat
  BY <1>1, LenProperties, Zenon
<1>8. log' = [log EXCEPT ![j] = new]
  BY DEF AppendEntriesAccept
<1> HIDE DEF new
<1>9. commitIndex' \in [Server -> Int]
  <2> DEFINE k == IF m.LeaderCommit > commitIndex[j]
                  THEN min(m.LeaderCommit, m.PrevLogIndex + Len(m.Entries)) ELSE commitIndex[j]
  <2>1. commitIndex \in [Server -> Int] /\ commitIndex[j] \in Int
    BY <1>1, Zenon DEF TypeOK
  <2>2. k \in Int
    BY <1>1, <1>7, <2>1, SMTT(60) DEF min
  <2>3. commitIndex' = [commitIndex EXCEPT ![j] = k]
    BY DEF AppendEntriesAccept
  <2> HIDE DEF k
  <2> QED
    BY <2>1, <2>2, <2>3, ZenonT(40)
<1>10. CoreType'
  <2>1. log' \in [Server -> Seq(Entry) \ {<< >>}]
    BY <1>1, <1>6, <1>8, ZenonT(60) DEF TypeOK
  <2>2. currentTerm' \in [Server -> Nat]
    BY <1>1, Zenon DEF AppendEntriesAccept, AdoptLeader, TypeOK
  <2>3. UNCHANGED <<voteFor, lastSnapshotIndex, lastSnapshotTerm>>
    BY DEF AppendEntries, AppendEntriesAccept, AdoptLeader, snapVars
  <2> QED
    BY <1>9, <2>1, <2>2, <2>3, FieldTypes, ZenonT(40) DEF CoreType
<1>11. persisted' \in [Server -> PersistedState]
  BY <1>1, <1>10, PersistType, Zenon DEF AppendEntriesAccept
<1>12. state' \in [Server -> {"FOLLOWER", "CANDIDATE", "LEADER"}]
  BY <1>1, Zenon DEF AppendEntriesAccept, AdoptLeader, TypeOK
<1>13. [Rejection EXCEPT !.Success = TRUE] \in AppendEntriesReply
  BY RejectionType, Zenon DEF AppendEntriesReply
<1>14. RpcType' /\ LateType'
  BY <1>13, RespondType, Zenon DEF AppendEntriesAccept
<1>15. UNCHANGED <<nextIndex, matchIndex, lastApplied, applying, serving, sm, ballot, restarts, chosen>>
  BY Zenon DEF AppendEntries, leaderVars, applyVars
<1> QED
  BY <1>10, <1>11, <1>12, <1>14, <1>15, ZenonT(60)
   DEF TypeOK, CoreType, RpcType, CallSet, ReplySet, Fits,
     LateType

-----------------------------------------------------------------------------
(* Snapshots, the apply loop, restarts *)

(* persister.SaveStateAndSnapshot leaves every disk with a persisted state. *)
LEMMA PersistWithSnapshotType ==
  ASSUME TypeOK, CoreType', NEW i \in Server, NEW data \in Seq(Entry),
         PersistWithSnapshot(i, data)
  PROVE  persisted' \in [Server -> PersistedState]
<1>1. PersistData(i) \in PersistedState
  BY PersistDataType
<1>2. [PersistData(i) EXCEPT !.snapshot = data] \in PersistedState
  BY <1>1, Zenon DEF PersistedState
<1> QED
  BY <1>2, Zenon DEF TypeOK, PersistWithSnapshot

(* Taking a snapshot keeps the types: the entry at its index becomes the *)
(* dummy entry.                                                          *)
LEMMA SaveSnapshotType ==
  ASSUME TypeOK, NEW i \in Server, SaveSnapshot(i)
  PROVE  TypeOK'
<1> DEFINE index == serving[i]
<1>1. /\ index \in Nat /\ sm[i] \in Seq(Entry) /\ lastSnapshotIndex[i] \in Nat
  BY SMTT(60) DEF SaveSnapshot, TypeOK
<1>2. log[i] \in Seq(Entry) /\ Len(log[i]) \in Nat
  BY LogType, Zenon
<1>3. CoreType' /\ persisted' \in [Server -> PersistedState]
  <2>1. CASE UNCHANGED <<currentTerm, voteFor, log, commitIndex, snapVars, persisted>>
    BY <2>1, FieldTypes, ZenonT(40) DEF TypeOK, CoreType, snapVars
  <2>2. CASE SaveStateAndSnapshot(i, index, sm[i])
    <3>1. Real(i, index) \in 1 .. Len(log[i])
      BY <2>2, Zenon DEF SaveStateAndSnapshot, InLog
    <3>2. LogFrom(i, index) \in Seq(Entry) /\ Len(LogFrom(i, index)) > 0
      BY <1>2, <3>1, SubSeqProperties, SMTT(60) DEF LogFrom
    <3>3. LogFrom(i, index) \in Seq(Entry) \ {<< >>}
      BY <3>2, EmptySeq, SMTT(60)
    <3>4. TermAt(i, index) \in Nat
      <4>1. log[i][Real(i, index)].Term \in Nat
        BY <3>1, LogType, Zenon
      <4> QED
        BY <4>1, Zenon DEF TermAt
    <3>5. CoreType'
      BY <1>1, <2>2, <3>3, <3>4, FieldTypes, ZenonT(40) DEF SaveStateAndSnapshot, CoreType
    <3>6. persisted' \in [Server -> PersistedState]
      BY <1>1, <2>2, <3>5, PersistWithSnapshotType, ZenonT(60) DEF SaveStateAndSnapshot
    <3> QED
      BY <3>5, <3>6, Zenon
  <2> QED
    BY <2>1, <2>2, Zenon DEF SaveSnapshot
<1>4. serving' \in [Server -> Int]
  BY SMTT(60) DEF SaveSnapshot, TypeOK
<1> QED
  BY <1>3, <1>4, ZenonT(40) DEF SaveSnapshot, TypeOK, CoreType, leaderVars, rpcVars

(* Loading a snapshot keeps the types. *)
LEMMA ReadSnapshotType ==
  ASSUME TypeOK, NEW i \in Server, ReadSnapshot(i)
  PROVE  TypeOK'
<1>1. persisted[i] \in PersistedState
  BY Zenon DEF TypeOK
<1>2. persisted[i].snapshot \in Seq(Entry)
  BY <1>1, ZenonT(60) DEF PersistedState
<1>3. sm' \in [Server -> Seq(Entry)] /\ serving' \in [Server -> Int]
  <2>1. 0 \in Int
    OBVIOUS
  <2> QED
    BY <1>2, <2>1, Zenon DEF ReadSnapshot, TypeOK
<1> QED
  BY <1>3, ZenonT(40) DEF ReadSnapshot, TypeOK, roleVars, leaderVars, snapVars, rpcVars

(* Sending a snapshot keeps the types. *)
LEMMA InstallSnapshotToPeersType ==
  ASSUME TypeOK, NEW i \in Server, NEW j \in Server, InstallSnapshotToPeers(i, j)
  PROVE  TypeOK'
<1> DEFINE c == [rpc |-> "InstallSnapshot", from |-> i, to |-> j, Term |-> currentTerm[i],
                 LastIncludeIndex |-> lastSnapshotIndex[i],
                 LastIncludeTerm |-> lastSnapshotTerm[i],
                 Data |-> persisted[i].snapshot]
<1>1. persisted[i] \in PersistedState
  BY Zenon DEF TypeOK
<1>2. persisted[i].snapshot \in Seq(Entry)
  BY <1>1, ZenonT(60) DEF PersistedState
<1>3. c \in InstallSnapshotArgs
  BY <1>2, ZenonT(60) DEF TypeOK, InstallSnapshotArgs
<1>4. c \in CallSet /\ c # InstallDone
  BY <1>3, ZenonT(60) DEF CallSet, InstallSnapshotArgs, InstallDone
<1>5. call' = [call EXCEPT ![i][j] = c] /\ reply' = reply /\ call[i][j] = InstallNext
  BY Zenon DEF InstallSnapshotToPeers
<1> HIDE DEF c
<1>6. reply[i][j] = None
  <2>1. Fits(InstallNext, reply[i][j])
    BY <1>5, RpcTyped, Zenon DEF RpcType
  <2> QED
    BY <2>1, Zenon DEF Fits, InstallNext, InstallDone, AppendEntriesArgs, InstallSnapshotArgs
<1>7. None \in ReplySet /\ Fits(c, None)
  BY <1>4 DEF ReplySet, Fits
<1>8. RpcType'
  BY <1>4, <1>5, <1>6, <1>7, RpcTyped, RpcUpdate, ZenonT(40)
<1> QED
  BY <1>8, ZenonT(40) DEF InstallSnapshotToPeers, TypeOK, RpcType, CallSet, ReplySet, Fits, roleVars,
     leaderVars, snapVars, applyVars

(* InstallSnapshot keeps the types: the log it leaves has a dummy entry in *)
(* all three cases of the code.                                            *)
LEMMA InstallSnapshotType ==
  ASSUME TypeOK, NEW m \in InstallSnapshotArgs, InstallSnapshot(m)
  PROVE  TypeOK'
<1> DEFINE j == m.to
<1>1. /\ j \in Server /\ m.Term \in Nat /\ m.LastIncludeIndex \in Nat
      /\ m.LastIncludeTerm \in Nat /\ m.Data \in Seq(Entry)
  BY Zenon DEF InstallSnapshotArgs
<1>2. currentTerm[j] \in Nat /\ lastSnapshotIndex[j] \in Nat
  BY <1>1, Zenon DEF TypeOK
<1>3. log[j] \in Seq(Entry) /\ Len(log[j]) \in Nat
  BY <1>1, LogType, ZenonT(60)
<1>4. RpcType' /\ LateType'
  <2>1. [Term |-> currentTerm[j]] \in InstallSnapshotReply
    BY <1>2, Zenon DEF InstallSnapshotReply
  <2> QED
    BY <2>1, RespondType, Zenon DEF InstallSnapshot
<1>5. lastSnapshotIndex[j] < m.LastIncludeIndex => InstalledLog(j, m) \in Seq(Entry) \ {<< >>}
  <2>1. SUFFICES ASSUME lastSnapshotIndex[j] < m.LastIncludeIndex
                 PROVE  InstalledLog(j, m) \in Seq(Entry) \ {<< >>}
    BY Zenon
  <2> DEFINE offset == m.LastIncludeIndex - lastSnapshotIndex[j]
  <2>2. CASE offset >= Len(log[j])
    BY <1>1, <2>2, SMTT(60) DEF InstalledLog, Entry
  <2>3. CASE ~(offset >= Len(log[j]))
    <3>1. offset + 1 \in 1 .. Len(log[j])
      BY <1>1, <1>2, <1>3, <2>1, <2>3, SMTT(60)
    <3> HIDE DEF offset
    <3> DEFINE rest == SubSeq(log[j], offset + 1, Len(log[j]))
    <3>2. rest \in Seq(Entry) /\ Len(rest) > 0
      BY <1>3, <3>1, SubSeqProperties, SMTT(60)
    <3>3. rest \in Seq(Entry) \ {<< >>}
      <4> HIDE DEF rest
      <4> QED
        BY <3>2, EmptySeq, SMTT(60)
    <3> QED
      BY <2>3, <3>3, ZenonT(60) DEF InstalledLog, offset
  <2> QED
    BY <2>2, <2>3, Zenon
<1>6. CoreType'
  <2>1. currentTerm' \in [Server -> Nat] /\ UNCHANGED <<voteFor, commitIndex>>
    <3>1. PICK t \in Nat : currentTerm' = [currentTerm EXCEPT ![j] = t]
      <4>1. /\ currentTerm' = [currentTerm EXCEPT ![j] =
                                 IF m.Term > currentTerm[j] THEN m.Term ELSE @]
        BY Zenon DEF InstallSnapshot
      <4> QED
        BY <1>1, <1>2, <4>1, Zenon
    <3>2. currentTerm \in [Server -> Nat]
      BY Zenon DEF TypeOK
    <3>3. UNCHANGED <<voteFor, commitIndex>>
      BY Zenon DEF InstallSnapshot
    <3> QED
      BY <1>1, <3>1, <3>2, <3>3, Zenon
  <2>2. /\ log' \in [Server -> Seq(Entry) \ {<< >>}]
        /\ lastSnapshotIndex' \in [Server -> Nat]
        /\ lastSnapshotTerm' \in [Server -> Nat]
    <3>1. CASE UNCHANGED <<log, snapVars>>
      BY <3>1, Zenon DEF TypeOK, snapVars
    <3>2. CASE /\ lastSnapshotIndex[j] < m.LastIncludeIndex
               /\ log' = [log EXCEPT ![j] = InstalledLog(j, m)]
               /\ lastSnapshotIndex' = [lastSnapshotIndex EXCEPT ![j] = m.LastIncludeIndex]
               /\ lastSnapshotTerm' = [lastSnapshotTerm EXCEPT ![j] = m.LastIncludeTerm]
      <4>1. InstalledLog(j, m) \in Seq(Entry) \ {<< >>}
        BY <1>5, <3>2, Zenon
      <4> QED
        BY <1>1, <3>2, <4>1, ZenonT(40) DEF TypeOK
    <3> QED
      BY <3>1, <3>2, Zenon DEF InstallSnapshot
  <2> QED
    BY <2>1, <2>2, Zenon DEF TypeOK, CoreType
<1>7. persisted' \in [Server -> PersistedState]
  <2>1. \/ PersistWithSnapshot(j, m.Data) \/ Persist(j) \/ UNCHANGED persisted
    BY Zenon DEF InstallSnapshot
  <2>2. UNCHANGED persisted => persisted' \in [Server -> PersistedState]
    BY Zenon DEF TypeOK
  <2> QED
    BY <1>1, <1>6, <2>1, <2>2, PersistType, PersistWithSnapshotType, Zenon
<1>8. state' \in [Server -> {"FOLLOWER", "CANDIDATE", "LEADER"}]
  <2>1. state' = [state EXCEPT ![j] = IF m.Term > currentTerm[j] THEN "FOLLOWER" ELSE @]
    BY Zenon DEF InstallSnapshot
  <2>2. state \in [Server -> {"FOLLOWER", "CANDIDATE", "LEADER"}]
    BY Zenon DEF TypeOK
  <2> QED
    BY <1>1, <2>1, <2>2, Zenon
<1>9. UNCHANGED <<nextIndex, matchIndex, lastApplied, applying, serving, sm, ballot, restarts, chosen>>
  BY Zenon DEF InstallSnapshot, leaderVars, applyVars
<1> QED
  BY <1>4, <1>6, <1>7, <1>8, <1>9, ZenonT(40)
   DEF TypeOK, CoreType, RpcType, CallSet, ReplySet, Fits, LateType

(* The unlocked write of the indexes after an InstallSnapshot keeps the *)
(* types.                                                               *)
LEMMA InstallSnapshotRepliedType ==
  ASSUME TypeOK, NEW i \in Server, NEW j \in Server, InstallSnapshotReplied(i, j)
  PROVE  TypeOK'
<1>1. lastSnapshotIndex[i] \in Int /\ lastSnapshotIndex[i] + 1 \in Int
  BY FieldTypes, CountSteps, Zenon
<1>2. /\ nextIndex' \in [Server -> [Server -> Int]]
      /\ matchIndex' \in [Server -> [Server -> Int]]
  <2>1. CASE UNCHANGED leaderVars
    BY <2>1, Zenon DEF TypeOK, leaderVars
  <2>2. CASE /\ nextIndex' = [nextIndex EXCEPT ![i][j] = lastSnapshotIndex[i] + 1]
             /\ matchIndex' = [matchIndex EXCEPT ![i][j] = lastSnapshotIndex[i]]
    BY <1>1, <2>2, ZenonT(40) DEF TypeOK
  <2> QED
    BY <2>1, <2>2, Zenon DEF InstallSnapshotReplied
<1>3. reply[i][j] # None /\ reply[i][j] \in InstallSnapshotReply
  BY CallType, Zenon DEF InstallSnapshotReplied
<1>4. /\ InstallDone \in CallSet /\ reply[i][j] \in ReplySet
      /\ Fits(InstallDone, reply[i][j])
  BY <1>3, Zenon DEF CallSet, ReplySet, Fits
<1>5. call' = [call EXCEPT ![i][j] = InstallDone] /\ reply' = reply
  BY DEF InstallSnapshotReplied
<1>6. RpcType'
  BY <1>4, <1>5, RpcTyped, RpcUpdate, ZenonT(40)
<1> QED
  BY <1>2, <1>6, ZenonT(40)
   DEF InstallSnapshotReplied, TypeOK, RpcType, CallSet, ReplySet, Fits, roleVars,
     snapVars, applyVars

(* The end of InstallSnapshotToPeers keeps the types. *)
LEMMA InstallSnapshotFinishType ==
  ASSUME TypeOK, NEW i \in Server, NEW j \in Server, InstallSnapshotFinish(i, j)
  PROVE  TypeOK'
<1>1. reply[i][j] \in InstallSnapshotReply
  BY CallType, Zenon DEF InstallSnapshotFinish
<1>2. reply[i][j].Term \in Nat
  BY <1>1 DEF InstallSnapshotReply
<1>3. RpcType'
  BY HangupType, ZenonT(40) DEF InstallSnapshotFinish
<1>4. /\ currentTerm' \in [Server -> Nat]
      /\ state' \in [Server -> {"FOLLOWER", "CANDIDATE", "LEADER"}]
  BY <1>2, ZenonT(40) DEF InstallSnapshotFinish, TypeOK
<1> QED
  BY <1>3, <1>4, ZenonT(40)
   DEF InstallSnapshotFinish, TypeOK, RpcType, CallSet, ReplySet, Fits, leaderVars,
     snapVars, applyVars

(* The snapshot message of Apply is a batch of its own *)
LEMMA OneMessage ==
  ASSUME NEW S, NEW e \in S
  PROVE  <<e>> \in Seq(S)
  OBVIOUS

(* Apply makes a sequence of messages, all from inside rf.log. *)
LEMMA BatchType ==
  ASSUME TypeOK, NEW i \in Server,
         \/ lastApplied[i] < lastSnapshotIndex[i]
         \/ lastApplied[i] < commitIndex[i] /\ InLog(i, commitIndex[i])
  PROVE  Batch(i) \in Seq(Message)
<1>1. lastApplied[i] \in Nat /\ lastSnapshotIndex[i] \in Nat /\ commitIndex[i] \in Int
  BY DEF TypeOK
<1>2. Len(log[i]) \in Nat
  BY LogType, ZenonT(40)
<1>3. CASE lastApplied[i] < lastSnapshotIndex[i]
  <2>1. [CommandValid |-> FALSE, CommandIndex |-> lastSnapshotIndex[i]] \in Message
    BY <1>1, ZenonT(40) DEF Message
  <2> DEFINE msg == [CommandValid |-> FALSE, CommandIndex |-> lastSnapshotIndex[i]]
  <2>2. Batch(i) = << msg >>
    BY <1>3, ZenonT(60) DEF Batch
  <2> HIDE DEF msg
  <2>3. msg \in Message
    BY <2>1 DEF msg
  <2> QED
    BY <2>2, <2>3, OneMessage, Zenon
<1>4. CASE /\ ~(lastApplied[i] < lastSnapshotIndex[i])
           /\ lastApplied[i] < commitIndex[i] /\ InLog(i, commitIndex[i])
  <2> DEFINE n == commitIndex[i] - lastApplied[i]
             msg(k) == [CommandValid |-> TRUE, CommandIndex |-> lastApplied[i] + k,
                        Entry |-> log[i][Real(i, lastApplied[i] + k)]]
  <2>1. n \in Nat
    BY <1>1, <1>4, BatchLength, Zenon
  <2>2. ASSUME NEW k \in 1 .. n
        PROVE  msg(k) \in Message
    <3>1. Real(i, lastApplied[i] + k) \in 1 .. Len(log[i]) /\ lastApplied[i] + k \in Nat
      BY <1>1, <1>2, <1>4, PositionDelivered, Zenon
    <3>2. log[i][Real(i, lastApplied[i] + k)] \in Entry
      BY <3>1, LogType, Zenon
    <3> QED
      BY <3>1, <3>2, ZenonT(40) DEF Message
  <2> HIDE DEF n, msg
  <2>3. [k \in 1 .. n |-> msg(k)] \in Seq(Message)
    <3>1. [k \in 1 .. n |-> msg(k)] \in [1 .. n -> Message]
      BY <2>2, Zenon
    <3> QED
      BY <2>1, <3>1, FunctionIsSeq, Zenon
  <2> QED
    BY <1>4, <2>3, ZenonT(60) DEF Batch, n, msg
<1> QED
  BY <1>3, <1>4, Zenon

(* Apply keeps the types. *)
LEMMA ApplyType ==
  ASSUME TypeOK, NEW i \in Server, Apply(i)
  PROVE  TypeOK'
<1>1. Batch(i) \in Seq(Message)
  BY BatchType, Zenon DEF Apply
<1>2. applying' \in [Server -> Seq(Message)]
  BY <1>1, Zenon DEF Apply, TypeOK
<1> QED
  BY <1>2, ZenonT(40) DEF Apply, TypeOK, roleVars, leaderVars, snapVars, rpcVars

(* Sending one message on applyCh keeps the types. *)
LEMMA DeliverType ==
  ASSUME TypeOK, NEW i \in Server, Deliver(i)
  PROVE  TypeOK'
<1> DEFINE msg == Head(applying[i])
<1>1. applying[i] \in Seq(Message) /\ applying[i] # << >>
  BY Zenon DEF Deliver, TypeOK
<1>2. msg \in Message /\ Tail(applying[i]) \in Seq(Message)
  BY <1>1, HeadTailProperties, Zenon
<1>3. msg.CommandIndex \in Nat
  BY <1>2, Zenon DEF Message
<1>4. msg.CommandValid => msg.Entry \in Entry
  BY <1>2, ZenonT(40) DEF Message
<1>5. sm[i] \in Seq(Entry)
  BY Zenon DEF TypeOK
<1>6. msg.CommandValid => Append(sm[i], msg.Entry) \in Seq(Entry)
  BY <1>4, <1>5, AppendProperties, Zenon
<1>7. sm' \in [Server -> Seq(Entry)]
  <2>1. CASE msg.CommandValid
    BY <1>6, <2>1, FieldTypes, ZenonT(40) DEF Deliver
  <2>2. CASE ~msg.CommandValid
    BY <2>2, Zenon DEF Deliver, TypeOK
  <2> QED
    BY <2>1, <2>2
<1>8. commitIndex' \in [Server -> Int]
  <2>1. commitIndex' = commitIndex \/ commitIndex' = [commitIndex EXCEPT ![i] = msg.CommandIndex]
    BY Zenon DEF Deliver
  <2>2. msg.CommandIndex \in Int
    BY <1>3, SMTT(60)
  <2> HIDE DEF msg
  <2> QED
    BY <2>1, <2>2, FieldTypes, Zenon
<1>9. lastApplied' \in [Server -> Nat] /\ applying' \in [Server -> Seq(Message)]
  <2>1. lastApplied' = [lastApplied EXCEPT ![i] = msg.CommandIndex]
    BY Zenon DEF Deliver
  <2>2. applying' = [applying EXCEPT ![i] = Tail(applying[i])]
    BY Zenon DEF Deliver
  <2>3. applying \in [Server -> Seq(Message)]
    BY Zenon DEF TypeOK
  <2> HIDE DEF msg
  <2> QED
    BY <1>2, <1>3, <2>1, <2>2, <2>3, FieldTypes, Zenon
<1>10. serving' \in [Server -> Int]
  <2>1. \E n \in Int : serving' = [serving EXCEPT ![i] = n]
    <3>1. CASE msg.CommandValid
      BY <1>3, <3>1, SMTT(60) DEF Deliver
    <3>2. CASE ~msg.CommandValid
      BY <3>2, SMTT(60) DEF Deliver, Loading
    <3> QED
      BY <3>1, <3>2, Zenon
  <2> QED
    BY <2>1, FieldTypes, ZenonT(40)
<1> QED
  BY <1>7, <1>8, <1>9, <1>10, ZenonT(40) DEF Deliver, TypeOK, roleVars, leaderVars, snapVars, rpcVars

(* readPersist restores a typed state from what was persisted. *)
LEMMA RestartType ==
  ASSUME TypeOK, NEW i \in Server, Restart(i)
  PROVE  TypeOK'
<1> DEFINE p == persisted[i]
           sent == {call[i][j] : j \in {k \in Server : reply[i][k] = None}}
                     \ {None, InstallNext, InstallDone}
           nothing == [j \in Server |-> None]
<1>1. p \in PersistedState
  BY Zenon DEF TypeOK
<1>2. /\ p.currentTerm \in Nat /\ p.voteFor \in Server \cup {None} /\ p.commitIndex \in Int
      /\ p.lastSnapshotTerm \in Nat /\ p.lastSnapshotIndex \in Nat
      /\ p.log \in Seq(Entry) \ {<< >>} /\ p.snapshot \in Seq(Entry)
  BY <1>1, ZenonT(60) DEF PersistedState
<1>3. CoreType'
  BY <1>2, ZenonT(40) DEF Restart, TypeOK, CoreType
<1>4. LateType'
  <2>1. sent \subseteq AppendEntriesArgs \cup InstallSnapshotArgs
    <3>1. ASSUME NEW x \in sent
          PROVE  x \in AppendEntriesArgs \cup InstallSnapshotArgs
      <4>1. PICK j \in Server : x = call[i][j] /\ x \notin {None, InstallNext, InstallDone}
        BY <3>1, Zenon
      <4>2. call[i][j] \in CallSet
        BY <4>1, CallSetType, Zenon
      <4> QED
        BY <4>1, <4>2, Zenon DEF CallSet
    <3> QED
      BY <3>1, Zenon
  <2> HIDE DEF sent
  <2>2. sent \cup Canvassing(i)
          \subseteq RequestVoteArgs \cup AppendEntriesArgs \cup InstallSnapshotArgs
    BY <2>1, CanvassingType, Zenon
  <2>3. Abandon(sent \cup Canvassing(i))
    BY Zenon DEF Restart, sent
  <2> QED
    BY <2>2, <2>3, AbandonType, Zenon
<1>5. RpcType'
  <2>1. call' = [call EXCEPT ![i] = nothing] /\ reply' = [reply EXCEPT ![i] = nothing]
    BY Zenon DEF Restart
  <2>2. None \in CallSet /\ None \in ReplySet /\ Fits(None, None)
    BY NoneAssumption, Zenon DEF CallSet, ReplySet, Fits
  <2>3. nothing \in [Server -> CallSet] /\ nothing \in [Server -> ReplySet]
    BY <2>2
  <2>4. RpcType
    BY RpcTyped
  <2>5. call' \in [Server -> [Server -> CallSet]] /\ reply' \in [Server -> [Server -> ReplySet]]
    BY <2>1, <2>3, <2>4, ZenonT(40) DEF RpcType
  <2>6. ASSUME NEW a \in Server, NEW b \in Server
        PROVE  Fits(call'[a][b], reply'[a][b])
    <3>1. CASE a = i
      BY <2>1, <2>2, <2>4, <3>1, Zenon DEF RpcType
    <3>2. CASE a # i
      BY <2>1, <2>4, <3>2, Zenon DEF RpcType
    <3> QED
      BY <3>1, <3>2, Zenon
  <2> QED
    BY <2>5, <2>6, ZenonT(60) DEF RpcType, CallSet, ReplySet, Fits, AppendEntriesArgs, InstallSnapshotArgs,
       AppendEntriesReply, InstallSnapshotReply, InstallNext, InstallDone
<1>6. /\ nextIndex' \in [Server -> [Server -> Int]]
      /\ matchIndex' \in [Server -> [Server -> Int]]
  <2>1. [j \in Server |-> 0] \in [Server -> Int]
    OBVIOUS
  <2> QED
    BY <2>1, ZenonT(40) DEF Restart, TypeOK
<1>7. /\ applying' \in [Server -> Seq(Message)] /\ lastApplied' \in [Server -> Nat]
      /\ sm' \in [Server -> Seq(Entry)] /\ serving' \in [Server -> Int]
  <2>1. << >> \in Seq(Message)
    OBVIOUS
  <2>2. applying' = [applying EXCEPT ![i] = << >>]
    BY Zenon DEF Restart
  <2>3. applying \in [Server -> Seq(Message)]
    BY DEF TypeOK
  <2>4. applying' \in [Server -> Seq(Message)]
    BY <2>1, <2>2, <2>3, Zenon
  <2>5. sm' \in [Server -> Seq(Entry)]
    BY <1>2, FieldTypes, ZenonT(40) DEF Restart
  <2>6. lastApplied' \in [Server -> Nat] /\ serving' \in [Server -> Int]
    <3>1. /\ lastApplied' = [lastApplied EXCEPT ![i] = 0]
          /\ serving' = [serving EXCEPT ![i] = 0]
      BY Zenon DEF Restart
    <3>2. 0 \in Nat /\ 0 \in Int
      OBVIOUS
    <3> QED
      BY <3>1, <3>2, FieldTypes, Zenon
  <2> QED
    BY <2>4, <2>5, <2>6, Zenon
<1>8. /\ ballot' \in [Server -> Ballot \cup {None}] /\ restarts' \in Nat
      /\ state' \in [Server -> {"FOLLOWER", "CANDIDATE", "LEADER"}]
      /\ UNCHANGED <<persisted, chosen>>
  <2>1. ballot' \in [Server -> Ballot \cup {None}]
    BY ZenonT(40) DEF Restart, TypeOK
  <2>2. restarts' \in Nat
    BY FieldTypes, CountSteps, Zenon DEF Restart
  <2>3. state' \in [Server -> {"FOLLOWER", "CANDIDATE", "LEADER"}]
    BY FieldTypes, Zenon DEF Restart
  <2> QED
    BY <2>1, <2>2, <2>3, ZenonT(40) DEF Restart
<1> QED
  BY <1>3, <1>4, <1>5, <1>6, <1>7, <1>8, ZenonT(40)
   DEF TypeOK, CoreType, RpcType, CallSet, ReplySet, Fits,
     LateType

(* Every step keeps the types. *)
LEMMA NextType ==
  ASSUME TypeOK, [Next]_vars
  PROVE  TypeOK'
<1>1. CASE UNCHANGED vars
  BY <1>1, ZenonT(60) DEF TypeOK, vars
<1>2. ASSUME NEW i \in Server, Election(i) \/ ElectionEnd(i)
      PROVE  TypeOK'
  BY <1>2, ElectionType, ElectionEndType, Zenon
<1>3. ASSUME NEW i \in Server, \/ Apply(i) \/ Deliver(i) \/ Restart(i)
                               \/ SaveSnapshot(i) \/ ReadSnapshot(i)
      PROVE  TypeOK'
  BY <1>3, ApplyType, DeliverType, SaveSnapshotType, ReadSnapshotType, RestartType, Zenon
<1>4. ASSUME NEW i \in Server, NEW c \in Command, Start(i, c)
      PROVE  TypeOK'
  BY <1>4, StartType, Zenon
<1>5. ASSUME NEW i \in Server, NEW j \in Server, SendAppendEntries(i, j) \/ RPCTimeout(i, j)
      PROVE  TypeOK'
  BY <1>5, SendAppendEntriesType, RPCTimeoutType, Zenon
<1>6. ASSUME NEW i \in Server, NEW j \in Server, AppendEntriesReplied(i, j)
      PROVE  TypeOK'
  <2>1. \/ AppendEntriesStepDown(i, j) \/ AppendEntriesIgnored(i, j)
        \/ AppendEntriesMatched(i, j) \/ AppendEntriesMismatched(i, j)
    BY <1>6, Zenon DEF AppendEntriesReplied
  <2> QED
    BY <1>6, <2>1, AppendEntriesStepDownType, AppendEntriesIgnoredType,
       AppendEntriesMatchedType, AppendEntriesMismatchedType, Zenon
<1>7. ASSUME NEW i \in Server, NEW j \in Server,
             \/ InstallSnapshotToPeers(i, j) \/ InstallSnapshotReplied(i, j)
             \/ InstallSnapshotFinish(i, j)
      PROVE  TypeOK'
  BY <1>7, InstallSnapshotToPeersType, InstallSnapshotRepliedType, InstallSnapshotFinishType, Zenon
<1>8. ASSUME NEW m \in InFlight, RequestVote(m)
      PROVE  TypeOK'
  BY <1>8, MessageType, RequestVoteType, ZenonT(40) DEF RequestVote
<1>9. ASSUME NEW m \in InFlight, AppendEntries(m)
      PROVE  TypeOK'
  <2>1. m \in AppendEntriesArgs
    BY <1>9, MessageType, Zenon DEF AppendEntries
  <2>2. AppendEntriesStale(m) \/ AppendEntriesReject(m) \/ AppendEntriesAccept(m)
    BY <1>9 DEF AppendEntries
  <2> QED
    BY <1>9, <2>1, <2>2, AppendEntriesStaleType, AppendEntriesRejectType, AppendEntriesAcceptType, Zenon
<1>10. ASSUME NEW m \in InFlight, InstallSnapshot(m)
       PROVE  TypeOK'
  BY <1>10, MessageType, InstallSnapshotType, Zenon DEF InstallSnapshot
<1> QED
  BY <1>1, <1>2, <1>3, <1>4, <1>5, <1>6, <1>7, <1>8, <1>9, <1>10, ZenonT(60) DEF Next

(* In every reachable state of any number of servers the variables have    *)
(* their types, rf.log of every server is non-empty in memory and on disk, *)
(* and no RPC answer is taken for one of another kind.                     *)
THEOREM TypeCorrect == Spec => []TypeOK
<1> QED
  BY InitType, NextType, PTL DEF Spec

=============================================================================
