---------------------------- MODULE KVRaftProofs ----------------------------
(***************************************************************************)
(* For any number of servers, clerks, keys, requests and faults: the data  *)
(* of every server, and every snapshot, are what the committed commands    *)
(* make of them, and to its clerks kvraft is the store of KVStore. Each    *)
(* Put and Append takes effect when its command is committed for the first *)
(* time; what is committed again is found in the table of last requests,   *)
(* since the commands of a clerk come in order in every log that can still *)
(* be committed.                                                           *)
(***************************************************************************)
EXTENDS KVRaft, SequenceTheorems, TLAPS

HandlerType == [server : Server, op : Op, state : HandlerState, value : Seq(Id)]

(* The state after the entry at the new end of the log is the second one    *)
(* after those of the old log.                                              *)
LEMMA TwoMore ==
  ASSUME NEW L \in Nat, NEW n, n = L + 1
  PROVE  n + 1 = L + 2
  OBVIOUS

(* Counts up to n, and the positions that they stand for. *)
LEMMA Counting ==
  ASSUME NEW n \in Nat
  PROVE  /\ \A k \in 0 .. n : k \in Nat /\ k + 1 > 0 /\ (k < n => k + 1 \in 1 .. n)
         /\ \A k \in 1 .. n : k \in Nat
         /\ \A k \in Nat : k <= n => k <= n + 1 /\ k # n + 1
         /\ 1 .. (n + 1) = (1 .. n) \cup {n + 1} /\ n + 1 \notin 1 .. n
         /\ 0 <= n /\ n <= n /\ ~(n + 1 <= n)
         /\ \A i, j \in 1 .. n : i < j => i + 1 < j + 1
  OBVIOUS

(* A positive count of applied entries is a position of the log. *)
LEMMA WithinLog ==
  ASSUME NEW L \in Nat, NEW k \in 0 .. L, k > 0
  PROVE  k \in 1 .. L
  OBVIOUS

(* What Call appends is a handler. *)
LEMMA StartedRequest ==
  ASSUME NEW s \in Server, NEW o \in Op
  PROVE  [server |-> s, op |-> o, state |-> "started", value |-> <<>>] \in HandlerType
  BY DEF HandlerType, HandlerState

(* The parts of TypeOK, one for each group of variables *)
RaftType ==
  /\ log \in Seq(Request)
  /\ tail \in [Server -> Seq(Request) \cup {None}]
  /\ leads \in [Server -> Nat] /\ term \in Nat
ServerType ==
  /\ kv \in [Server -> KV]
  /\ applied \in [Server -> 0 .. Len(log)]
  /\ notifyData \in [Server -> SUBSET Request]
  /\ sending \in [Server -> Request \cup {None}]
  /\ snapshot \in [Server -> [index : 0 .. Len(log), kv : KV]]
ClerkType ==
  /\ op \in [Client -> Op \cup {None}]
  /\ count \in [Client -> 0 .. MaxOps]
  /\ leaderId \in [Client -> Server \cup {None}]
  /\ Term \in [Client -> Nat]
  /\ call \in [Client -> Request \cup {None}]
HistoryType ==
  /\ states \in Seq(KV) /\ Len(states) = Len(log) + 1
  /\ seen \in [Client -> SUBSET Seq(Id)]
  /\ answer \in [Client -> Seq(Id)]
  /\ faults \in 0 .. MaxFaults

(* The history of states is that of the commands of the log *)
StatesFollowLog ==
  \A n \in 1 .. Len(log) : states[n + 1] = ApplyOp(states[n], handler[log[n]].op)

(* ReplicasFollowLog is inductive with the types and the history *)
IInv == TypeOK /\ StatesFollowLog /\ ReplicasFollowLog

(* TypeOK in its parts *)
LEMMA TypeParts ==
  TypeOK <=> RaftType /\ ServerType /\ handler \in Seq(HandlerType) /\ ClerkType /\ HistoryType
BY Zenon DEF TypeOK, RaftType, ServerType, HandlerType, ClerkType, HistoryType

(* The same after a step *)
LEMMA TypePartsNext ==
  TypeOK' <=> /\ RaftType' /\ ServerType' /\ handler' \in Seq(HandlerType)
              /\ ClerkType' /\ HistoryType'
BY Zenon DEF TypeOK, RaftType, ServerType, HandlerType, ClerkType, HistoryType

(* The bound on faults is kept *)
LEMMA FaultType ==
  ASSUME faults \in 0 .. MaxFaults, NEW cond, Fault(cond)
  PROVE  faults' \in 0 .. MaxFaults
<1>1. CASE cond
  BY <1>1, KVBounds DEF Fault
<1>2. CASE ~cond
  BY <1>2 DEF Fault
<1> QED BY <1>1, <1>2

(* A command turns data into data *)
LEMMA ApplyOpType ==
  ASSUME NEW st \in KV, NEW o \in Op
  PROVE  ApplyOp(st, o) \in KV
<1>1. /\ o.client \in Client /\ o.id \in Id /\ o.key \in Key
      /\ st.data \in [Key -> Seq(Id)] /\ st.lastApplied \in [Client -> Id \cup {None}]
  BY DEF Op, KV
<1>2. /\ <<o.id>> \in Seq(Id)
      /\ Append(st.data[o.key], o.id) \in Seq(Id)
  BY <1>1, AppendProperties
<1>3. [st.data EXCEPT ![o.key] =
         IF o.method = "Put" THEN <<o.id>> ELSE Append(@, o.id)] \in [Key -> Seq(Id)]
  BY <1>1, <1>2
<1>4. [st.lastApplied EXCEPT ![o.client] = o.id] \in [Client -> Id \cup {None}]
  BY <1>1
<1> QED BY <1>3, <1>4 DEF ApplyOp, KV

(* What the types say of the newest state *)
LEMMA NewestType ==
  ASSUME TypeOK
  PROVE  Newest \in KV /\ Len(states) \in Nat /\ Len(log) \in Nat
<1>1. states \in Seq(KV) /\ Len(states) = Len(log) + 1 /\ log \in Seq(Request)
  BY DEF TypeOK
<1>2. Len(log) \in Nat
  BY <1>1, LenProperties
<1>3. Len(states) \in 1 .. Len(states)
  BY <1>1, <1>2
<1> QED BY <1>1, <1>2, <1>3, ElementOfSeq DEF Newest

(* A handler that changes its state, and perhaps its result, keeps its       *)
(* operation, as do all others.                                              *)
LEMMA HandlerKeeps ==
  ASSUME handler \in Seq(HandlerType), NEW r \in Request, NEW x \in HandlerType,
         x.op = handler[r].op, handler' = [handler EXCEPT ![r] = x]
  PROVE  /\ handler' \in Seq(HandlerType) /\ Request' = Request
         /\ \A q \in Request : handler'[q].op = handler[q].op
<1>1. /\ Len(handler) \in Nat /\ DOMAIN handler = 1 .. Len(handler)
      /\ \A q \in 1 .. Len(handler) : handler[q] \in HandlerType
  BY LenProperties, ElementOfSeq
<1>2. handler' \in [1 .. Len(handler) -> HandlerType]
  BY <1>1 DEF Request
<1>3. handler' \in Seq(HandlerType) /\ Len(handler') = Len(handler)
  BY <1>1, <1>2, LenProperties
<1> QED BY <1>1, <1>3 DEF Request

(* The steps that change no state of a server and nothing of Raft keep what  *)
(* the replicas and the history have in common.                              *)
LEMMA OthersKeep ==
  ASSUME IInv, UNCHANGED <<log, states, kv, applied, snapshot>>,
         \A q \in Request : handler'[q].op = handler[q].op
  PROVE  StatesFollowLog' /\ ReplicasFollowLog'
<1>1. log \in Seq(Request)
  BY DEF IInv, TypeOK
<1>2. \A n \in 1 .. Len(log) : log[n] \in Request
  BY <1>1, ElementOfSeq
<1>3. StatesFollowLog'
  <2>1. \A n \in 1 .. Len(log) : handler'[log[n]].op = handler[log[n]].op
    BY <1>2
  <2>2. \A n \in 1 .. Len(log) : states[n + 1] = ApplyOp(states[n], handler[log[n]].op)
    BY DEF IInv, StatesFollowLog
  <2> QED BY <2>1, <2>2 DEF StatesFollowLog
<1>4. ReplicasFollowLog'
  BY DEF IInv, ReplicasFollowLog
<1> QED BY <1>3, <1>4

(* A handler changes its state only *)
LEMMA SetStateKeeps ==
  ASSUME handler \in Seq(HandlerType), NEW r \in Request, NEW x \in HandlerState,
         SetState(r, x)
  PROVE  /\ handler' \in Seq(HandlerType) /\ Request' = Request
         /\ \A q \in Request : handler'[q].op = handler[q].op
<1> DEFINE y == [handler[r] EXCEPT !.state = x]
<1>1. handler[r] \in HandlerType
  BY ElementOfSeq DEF Request
<1>2. y \in HandlerType /\ y.op = handler[r].op
  BY <1>1, Zenon DEF HandlerType
<1>3. handler' = [handler EXCEPT ![r] = y]
  BY DEF SetState
<1> HIDE DEF y
<1> QED BY <1>2, <1>3, HandlerKeeps, Zenon

(* A request keeps its type, and its operation one of the key it has *)
LEMMA RequestType ==
  ASSUME TypeOK, NEW r \in Request
  PROVE  /\ handler[r] \in HandlerType
         /\ handler[r].server \in Server /\ handler[r].op \in Op
         /\ handler[r].op.key \in Key
         /\ \A s \in Server : \A k \in Key : kv[s].data[k] \in Seq(Id)
<1>1. handler \in Seq(HandlerType) /\ kv \in [Server -> KV]
  BY TypeParts DEF ServerType
<1>2. handler[r] \in HandlerType
  BY <1>1, ElementOfSeq DEF Request
<1> QED BY <1>1, <1>2, Zenon DEF HandlerType, Op, KV

(* The steps of a handler leave the operations of all as they are *)
LEMMA HandlerStepsKeepOps ==
  ASSUME TypeOK, NEW r \in Request,
         Register(r) \/ Notified(r) \/ WaitTimeout(r) \/ removeCh(r)
  PROVE  /\ handler' \in Seq(HandlerType) /\ Request' = Request
         /\ \A q \in Request : handler'[q].op = handler[q].op
<1>a. handler \in Seq(HandlerType)
  BY TypeParts
<1>b. /\ handler[r] \in HandlerType /\ handler[r].server \in Server
      /\ handler[r].op.key \in Key
      /\ \A s \in Server : \A k \in Key : kv[s].data[k] \in Seq(Id)
  BY RequestType, SMTT(60)
<1>1. CASE Register(r)
  BY <1>1, <1>a, SetStateKeeps DEF Register, HandlerState
<1>2. CASE Notified(r)
  <2> DEFINE y == [handler[r] EXCEPT !.state = "notified",
                     !.value = kv[handler[r].server].data[handler[r].op.key]]
  <2>1. y \in HandlerType /\ y.op = handler[r].op
    BY <1>b, Zenon DEF HandlerType, HandlerState
  <2>2. handler' = [handler EXCEPT ![r] = y]
    BY <1>2, <1>b, Zenon DEF Notified, HandlerType
  <2> HIDE DEF y
  <2> QED BY <1>a, <2>1, <2>2, HandlerKeeps, Zenon
<1>3. CASE WaitTimeout(r)
  BY <1>3, <1>a, SetStateKeeps, Zenon DEF WaitTimeout, HandlerState
<1>4. CASE removeCh(r)
  BY <1>4, <1>a, SetStateKeeps DEF removeCh, Respond, HandlerState
<1> QED BY <1>1, <1>2, <1>3, <1>4

(* The steps of a handler: only notifyData, sending and handler change *)
LEMMA HandlerSteps ==
  ASSUME IInv, NEW r \in Request,
         Register(r) \/ Notified(r) \/ WaitTimeout(r) \/ removeCh(r)
  PROVE  IInv'
<1>1. TypeOK /\ RaftType /\ ServerType /\ handler \in Seq(HandlerType) /\ ClerkType /\ HistoryType
  BY TypeParts, SMTT(60) DEF IInv
<1>2. /\ handler[r] \in HandlerType /\ handler[r].server \in Server
      /\ handler[r].op.key \in Key
      /\ \A s \in Server : \A k \in Key : kv[s].data[k] \in Seq(Id)
  BY <1>1, RequestType, Zenon
<1>3. UNCHANGED <<raftVars, kv, applied, snapshot, clerkVars, historyVars, faults>>
  BY DEF Register, Notified, WaitTimeout, removeCh, serverVars
<1>4. /\ handler' \in Seq(HandlerType) /\ Request' = Request
      /\ \A q \in Request : handler'[q].op = handler[q].op
  BY <1>1, HandlerStepsKeepOps
<1>5. /\ notifyData' \in [Server -> SUBSET Request]
      /\ sending' \in [Server -> Request \cup {None}]
  <2>0. /\ notifyData \in [Server -> SUBSET Request]
        /\ sending \in [Server -> Request \cup {None}]
    BY <1>1, SMTT(60) DEF ServerType
  <2>1. CASE Register(r)
    BY <2>0, <2>1, <1>2, Zenon DEF Register
  <2>2. CASE Notified(r)
    BY <2>0, <2>2, <1>2, Zenon DEF Notified
  <2>3. CASE WaitTimeout(r)
    BY <2>0, <2>3, Zenon DEF WaitTimeout, serverVars
  <2>4. CASE removeCh(r)
    BY <2>0, <2>4, <1>2 DEF removeCh
  <2> QED BY <2>1, <2>2, <2>3, <2>4
<1>6. TypeOK'
  <2>1. RaftType'
    BY <1>1, <1>3, <1>4, Zenon DEF RaftType, raftVars
  <2>2. ServerType'
    BY <1>1, <1>3, <1>4, <1>5, Zenon DEF ServerType, raftVars
  <2>3. ClerkType'
    BY <1>1, <1>3, <1>4, Zenon DEF ClerkType, clerkVars
  <2>4. HistoryType'
    BY <1>1, <1>3 DEF HistoryType, historyVars, raftVars
  <2> QED BY <1>4, <2>1, <2>2, <2>3, <2>4, TypePartsNext, Zenon
<1>7. StatesFollowLog' /\ ReplicasFollowLog'
  BY <1>3, <1>4, OthersKeep DEF raftVars, historyVars
<1> QED BY <1>6, <1>7 DEF IInv

(* Elections and followers that catch up change nothing committed *)
LEMMA RaftSteps ==
  ASSUME IInv, NEW s \in Server, Elect(s) \/ RaftStep(s)
  PROVE  IInv'
<1>1. TypeOK /\ RaftType /\ ServerType /\ handler \in Seq(HandlerType) /\ ClerkType /\ HistoryType
  BY TypeParts, Zenon DEF IInv
<1>2. UNCHANGED <<log, serverVars, handler, clerkVars, historyVars>>
  BY DEF Elect, RaftStep, Election, StepDown, AppendEntries
<1>3. /\ tail' \in [Server -> Seq(Request) \cup {None}]
      /\ leads' \in [Server -> Nat] /\ term' \in Nat
  <2>0. /\ tail \in [Server -> Seq(Request) \cup {None}]
        /\ leads \in [Server -> Nat] /\ term \in Nat
    BY <1>1, Zenon DEF RaftType
  <2>1. CASE Elect(s)
    BY <2>0, <2>1 DEF Elect, Election
  <2>2. CASE StepDown(s)
    BY <2>0, <2>2 DEF StepDown
  <2>3. CASE AppendEntries(s)
    BY <2>0, <2>3 DEF AppendEntries
  <2> QED BY <2>1, <2>2, <2>3 DEF RaftStep
<1>4. faults' \in 0 .. MaxFaults
  <2>1. CASE Elect(s)
    BY <1>1, <2>1, FaultType DEF Elect, HistoryType
  <2>2. CASE RaftStep(s)
    BY <1>1, <2>2 DEF RaftStep, HistoryType
  <2> QED BY <2>1, <2>2
<1>5. TypeOK'
  BY <1>1, <1>2, <1>3, <1>4, Zenon
  DEF TypeOK, RaftType, ServerType, HandlerType, ClerkType, HistoryType, serverVars,
      clerkVars, historyVars, Request
<1>6. StatesFollowLog' /\ ReplicasFollowLog'
  BY <1>2, OthersKeep DEF serverVars, historyVars
<1> QED BY <1>5, <1>6 DEF IInv

(* The leader commits a command: the log and the history grow by one *)
LEMMA CommitStep ==
  ASSUME IInv, NEW r \in Request, Commit(r)
  PROVE  IInv'
<1>1. TypeOK /\ RaftType /\ ServerType /\ handler \in Seq(HandlerType) /\ ClerkType /\ HistoryType
  BY TypeParts, Zenon DEF IInv
<1> DEFINE st == ApplyOp(Newest, handler[r].op)
<1>2. st \in KV /\ Len(states) \in Nat /\ Len(log) \in Nat
  BY <1>1, NewestType, RequestType, ApplyOpType, SMTT(60)
<1>3. UNCHANGED <<serverVars, handler, clerkVars, answer, faults, leads, term>>
  BY ZenonT(60) DEF Commit, LeaderCommit
<1>4. log' = Append(log, r) /\ states' = Append(states, st)
  BY Zenon DEF Commit, LeaderCommit
<1>5. /\ log' \in Seq(Request) /\ Len(log') = Len(log) + 1
      /\ states' \in Seq(KV) /\ Len(states') = Len(states) + 1
      /\ \A n \in 1 .. Len(log) : log'[n] = log[n]
      /\ log'[Len(log) + 1] = r
      /\ \A n \in 1 .. Len(states) : states'[n] = states[n]
      /\ states'[Len(states) + 1] = st
  BY <1>1, <1>2, <1>4, AppendProperties DEF RaftType, HistoryType
<1>6. tail' \in [Server -> Seq(Request) \cup {None}]
  <2>1. tail' = [s \in Server |->
                IF tail[s] # None /\ tail[s] # <<>> /\ Head(tail[s]) = r
                THEN Tail(tail[s]) ELSE None]
    BY DEF Commit, LeaderCommit
  <2>2. \A s \in Server : tail[s] # None /\ tail[s] # <<>> => Tail(tail[s]) \in Seq(Request)
    BY <1>1, HeadTailProperties, Zenon DEF RaftType
  <2> QED BY <2>1, <2>2, Zenon
<1>7. seen' \in [Client -> SUBSET Seq(Id)]
  <2>1. seen' = [c \in Client |-> IF op[c] = None THEN {}
                                 ELSE seen[c] \cup {st.data[op[c].key]}]
    BY Zenon DEF Commit
  <2>2. \A c \in Client : op[c] # None => st.data[op[c].key] \in Seq(Id)
    BY <1>1, <1>2 DEF ClerkType, Op, KV
  <2> HIDE DEF st
  <2> QED BY <1>1, <2>1, <2>2, Zenon DEF HistoryType
<1> HIDE DEF st
<1>8. TypeOK'
  <2>1. RaftType'
    BY <1>1, <1>3, <1>5, <1>6, Zenon DEF RaftType, Request
  <2>2. ServerType'
    <3>1. 0 .. Len(log) \subseteq 0 .. Len(log')
      BY <1>2, <1>5
    <3>2. /\ applied' \in [Server -> 0 .. Len(log')]
          /\ snapshot' \in [Server -> [index : 0 .. Len(log'), kv : KV]]
      BY <1>1, <1>3, <3>1 DEF ServerType, serverVars
    <3> QED BY <1>1, <1>3, <3>2 DEF ServerType, serverVars, Request
  <2>3. ClerkType'
    BY <1>1, <1>3, Zenon DEF ClerkType, clerkVars, Request
  <2>4. HistoryType'
    BY <1>1, <1>2, <1>3, <1>5, <1>7, Zenon DEF HistoryType
  <2> QED BY <1>1, <1>3, <2>1, <2>2, <2>3, <2>4, TypePartsNext, Zenon
<1>9. StatesFollowLog'
  <2>1. Len(states) = Len(log) + 1
    BY <1>1, Zenon DEF HistoryType
  <2>2. states'[Len(log) + 2] = ApplyOp(states'[Len(log) + 1], handler[log'[Len(log) + 1]].op)
    BY <1>2, <1>5, <2>1 DEF st, Newest
  <2>3. ASSUME NEW n \in 1 .. Len(log)
        PROVE  states'[n + 1] = ApplyOp(states'[n], handler[log'[n]].op)
    <3>1. n \in 1 .. Len(states) /\ n + 1 \in 1 .. Len(states)
      BY <1>2, <2>1
    <3> QED BY <1>5, <3>1, Zenon DEF IInv, StatesFollowLog
  <2>4. \A n \in 1 .. Len(log') : n \in 1 .. Len(log) \/ n = Len(log) + 1
    BY <1>2, <1>5
  <2>5. \A n \in 1 .. Len(log') : states'[n + 1] = ApplyOp(states'[n], handler[log'[n]].op)
    BY <1>2, <2>2, <2>3, <2>4
  <2> QED BY <1>3, <2>5 DEF StatesFollowLog
<1>10. ReplicasFollowLog'
  <2>1. \A s \in Server : /\ applied[s] + 1 \in 1 .. Len(states)
                          /\ snapshot[s].index + 1 \in 1 .. Len(states)
    BY <1>1, <1>2 DEF ServerType, HistoryType
  <2> QED BY <1>3, <1>5, <2>1, Zenon DEF IInv, ReplicasFollowLog, serverVars
<1> QED BY <1>8, <1>9, <1>10, Zenon DEF IInv

(* A server takes the next command from applyCh *)
LEMMA WaitApplyChStep ==
  ASSUME IInv, NEW s \in Server, WaitApplyCh(s)
  PROVE  IInv'
<1>1. TypeOK /\ RaftType /\ ServerType /\ handler \in Seq(HandlerType) /\ ClerkType /\ HistoryType
  BY TypeParts, Zenon DEF IInv
<1> DEFINE n == applied[s] + 1
           st == ApplyOp(kv[s], handler[log[n]].op)
<1>2. /\ Len(log) \in Nat /\ n \in 1 .. Len(log) /\ log[n] \in Request
      /\ kv[s] \in KV
  <2>1. n <= Len(log)
    BY DEF WaitApplyCh
  <2>2. n \in 1 .. Len(log) /\ Len(log) \in Nat
    BY <1>1, <2>1, NewestType DEF ServerType
  <2> QED BY <1>1, <2>2, ElementOfSeq, Zenon DEF RaftType, ServerType
<1>3. st \in KV
  BY <1>1, <1>2, RequestType, ApplyOpType, Zenon
<1>4. st = states[n + 1]
  BY <1>2, Zenon DEF IInv, StatesFollowLog, ReplicasFollowLog
<1>5. /\ UNCHANGED <<raftVars, notifyData, handler, clerkVars, historyVars, faults>>
      /\ applied' = [applied EXCEPT ![s] = n]
      /\ kv' = [kv EXCEPT ![s] = st]
      /\ saveSnapshot(s, n, st)
  BY Zenon DEF WaitApplyCh
<1>6. sending' \in [Server -> Request \cup {None}]
  BY <1>1, <1>2, Zenon DEF WaitApplyCh, ServerType
<1> HIDE DEF n, st
<1>7. \/ UNCHANGED snapshot
      \/ snapshot' = [snapshot EXCEPT ![s] = [index |-> n, kv |-> st]]
  BY <1>5, Zenon DEF saveSnapshot
<1>8. snapshot' \in [Server -> [index : 0 .. Len(log), kv : KV]]
  <2>1. snapshot \in [Server -> [index : 0 .. Len(log), kv : KV]]
    BY <1>1 DEF ServerType
  <2>2. [index |-> n, kv |-> st] \in [index : 0 .. Len(log), kv : KV]
    BY <1>2, <1>3
  <2> QED BY <1>7, <2>1, <2>2
<1>9. TypeOK'
  <2>1. ServerType'
    <3>1. n \in 0 .. Len(log)
      BY <1>2
    <3>2. kv' \in [Server -> KV] /\ applied' \in [Server -> 0 .. Len(log)]
      BY <1>1, <1>3, <1>5, <3>1 DEF ServerType
    <3>3. notifyData' \in [Server -> SUBSET Request]
      BY <1>1, <1>5, Zenon DEF ServerType
    <3> QED BY <1>5, <1>6, <1>8, <3>2, <3>3, Zenon DEF ServerType, raftVars, Request
  <2>2. RaftType' /\ ClerkType' /\ HistoryType'
    BY <1>1, <1>5, Zenon DEF RaftType, ClerkType, HistoryType, raftVars, clerkVars, historyVars, Request
  <2> QED BY <1>1, <1>5, <2>1, <2>2, TypePartsNext, Zenon
<1>10. StatesFollowLog'
  BY <1>5, Zenon DEF IInv, StatesFollowLog, raftVars, historyVars
<1>11. ReplicasFollowLog'
  <2>1. \A t \in Server : kv'[t] = states[applied'[t] + 1]
    BY <1>1, <1>4, <1>5, Zenon DEF IInv, ReplicasFollowLog, ServerType, n
  <2>2. \A t \in Server : snapshot'[t].kv = states[snapshot'[t].index + 1]
    <3>1. CASE UNCHANGED snapshot
      BY <3>1 DEF IInv, ReplicasFollowLog
    <3>2. CASE snapshot' = [snapshot EXCEPT ![s] = [index |-> n, kv |-> st]]
      <4>1. snapshot'[s] = [index |-> n, kv |-> st]
        BY <1>1, <3>2, SMTT(60) DEF ServerType
      <4>2. \A t \in Server \ {s} : snapshot'[t] = snapshot[t]
        BY <1>1, <3>2, Zenon DEF ServerType
      <4>3. snapshot'[s].kv = states[snapshot'[s].index + 1]
        BY <1>4, <4>1
      <4> QED BY <4>2, <4>3, Zenon DEF IInv, ReplicasFollowLog
    <3> QED BY <1>7, <3>1, <3>2, Zenon
  <2> QED BY <1>5, <2>1, <2>2, SMTT(60) DEF ReplicasFollowLog, historyVars
<1> QED BY <1>9, <1>10, <1>11 DEF IInv

(* A snapshot arrives from the leader, is loaded, or survives a crash *)
LEMMA SnapshotSteps ==
  ASSUME IInv, NEW s \in Server, InstallSnapshot(s) \/ ReadSnapshot(s)
  PROVE  IInv'
<1>1. TypeOK /\ RaftType /\ ServerType /\ handler \in Seq(HandlerType) /\ ClerkType /\ HistoryType
  BY TypeParts DEF IInv
<1>2. UNCHANGED <<raftVars, notifyData, sending, handler, clerkVars, historyVars, faults>>
  BY Zenon DEF InstallSnapshot, ReadSnapshot
<1>3. \/ /\ UNCHANGED <<kv, applied>>
         /\ \E l \in Server : snapshot' = [snapshot EXCEPT ![s] = snapshot[l]]
      \/ /\ kv' = [kv EXCEPT ![s] = snapshot[s].kv]
         /\ applied' = [applied EXCEPT ![s] = snapshot[s].index]
         /\ UNCHANGED snapshot
  BY Zenon DEF InstallSnapshot, ReadSnapshot, Load
<1>4. \A l \in Server : snapshot[l].index \in 0 .. Len(log) /\ snapshot[l].kv \in KV
  BY <1>1 DEF ServerType
<1>5. ServerType'
  BY <1>1, <1>2, <1>3, <1>4, ZenonT(40) DEF ServerType, raftVars, Request
<1>6. RaftType' /\ ClerkType' /\ HistoryType'
  BY <1>1, <1>2 DEF RaftType, ClerkType, HistoryType, raftVars, clerkVars, historyVars, Request
<1>7. TypeOK'
  BY <1>1, <1>2, <1>5, <1>6, TypePartsNext, Zenon
<1>8. StatesFollowLog'
  BY <1>2, Zenon DEF IInv, StatesFollowLog, raftVars, historyVars
<1>9. ReplicasFollowLog'
  BY <1>1, <1>2, <1>3, ZenonT(100) DEF IInv, ReplicasFollowLog, ServerType, historyVars
<1> QED BY <1>7, <1>8, <1>9, Zenon DEF IInv

(* A restart changes the states of handlers only *)
LEMMA RestartKeepsOps ==
  ASSUME TypeOK, NEW s \in Server, Restart(s)
  PROVE  /\ handler' \in Seq(HandlerType) /\ Request' = Request
         /\ \A q \in Request : handler'[q].op = handler[q].op
<1>a. handler \in Seq(HandlerType)
  BY TypeParts
<1>1. Len(handler) \in Nat /\ \A q \in 1 .. Len(handler) : handler[q] \in HandlerType
  BY <1>a, LenProperties, ElementOfSeq
<1>2. handler' = [r \in 1 .. Len(handler) |->
                    IF handler[r].server = s
                    THEN [handler[r] EXCEPT !.state = "gone"] ELSE handler[r]]
  BY DEF Restart, Request
<1>3. \A q \in 1 .. Len(handler) :
        /\ [handler[q] EXCEPT !.state = "gone"] \in HandlerType
        /\ [handler[q] EXCEPT !.state = "gone"].op = handler[q].op
  BY <1>1 DEF HandlerType, HandlerState
<1>4. handler' \in [1 .. Len(handler) -> HandlerType]
  BY <1>1, <1>2, <1>3
<1>5. handler' \in Seq(HandlerType) /\ Len(handler') = Len(handler)
  BY <1>1, <1>4, LenProperties
<1>6. \A q \in 1 .. Len(handler) : handler'[q].op = handler[q].op
  BY <1>2, <1>3
<1> QED BY <1>5, <1>6 DEF Request

(* A server restarts from its snapshot: its handlers are gone *)
LEMMA RestartStep ==
  ASSUME IInv, NEW s \in Server, Restart(s)
  PROVE  IInv'
<1>1. TypeOK /\ RaftType /\ ServerType /\ handler \in Seq(HandlerType) /\ ClerkType /\ HistoryType
  BY TypeParts DEF IInv
<1>2. /\ UNCHANGED <<log, tail, term, snapshot, clerkVars, historyVars>>
      /\ leads' = [leads EXCEPT ![s] = 0]
      /\ kv' = [kv EXCEPT ![s] = snapshot[s].kv]
      /\ applied' = [applied EXCEPT ![s] = snapshot[s].index]
      /\ notifyData' = [notifyData EXCEPT ![s] = {}]
      /\ sending' = [sending EXCEPT ![s] = None]
  BY DEF Restart, Load, Make
<1>3. faults' \in 0 .. MaxFaults
  BY <1>1, FaultType, Zenon DEF Restart, HistoryType
<1>4. /\ handler' \in Seq(HandlerType) /\ Request' = Request
      /\ \A q \in Request : handler'[q].op = handler[q].op
  BY <1>1, RestartKeepsOps
<1>5. ServerType'
  <2>1. snapshot[s].index \in 0 .. Len(log) /\ snapshot[s].kv \in KV
    BY <1>1, Zenon DEF ServerType
  <2> QED BY <1>1, <1>2, <1>4, <2>1 DEF ServerType
<1>6. RaftType' /\ ClerkType' /\ HistoryType'
  BY <1>1, <1>2, <1>3, <1>4, Zenon DEF RaftType, ClerkType, HistoryType, clerkVars, historyVars
<1>7. TypeOK'
  BY <1>4, <1>5, <1>6, TypePartsNext, Zenon
<1>8. StatesFollowLog'
  <2>1. \A n \in 1 .. Len(log) : log[n] \in Request
    BY <1>1, ElementOfSeq, Zenon DEF RaftType
  <2>2. \A n \in 1 .. Len(log) : handler'[log[n]].op = handler[log[n]].op
    BY <1>4, <2>1, Zenon
  <2>3. \A n \in 1 .. Len(log) : states[n + 1] = ApplyOp(states[n], handler[log[n]].op)
    BY Zenon DEF IInv, StatesFollowLog
  <2> QED BY <1>2, <2>2, <2>3 DEF StatesFollowLog, historyVars
<1>9. ReplicasFollowLog'
  BY <1>1, <1>2, Zenon DEF IInv, ReplicasFollowLog, ServerType, historyVars
<1> QED BY <1>7, <1>8, <1>9 DEF IInv

(* The steps of a clerk that leave the servers and their handlers alone *)
LEMMA ClerkSteps ==
  ASSUME IInv, NEW c \in Client,
         Begin(c) \/ WrongLeader(c) \/ \E s \in Server : FindLeader(c, s)
  PROVE  IInv'
<1>1. TypeOK /\ RaftType /\ ServerType /\ handler \in Seq(HandlerType) /\ ClerkType /\ HistoryType
  BY TypeParts, Zenon DEF IInv
<1>2. UNCHANGED <<raftVars, states, serverVars, handler, call, faults>>
  BY Zenon DEF Begin, WrongLeader, FindLeader, historyVars
<1>3. ClerkType' /\ seen' \in [Client -> SUBSET Seq(Id)] /\ answer' \in [Client -> Seq(Id)]
  <2>0. /\ op \in [Client -> Op \cup {None}] /\ count \in [Client -> 0 .. MaxOps]
        /\ leaderId \in [Client -> Server \cup {None}] /\ Term \in [Client -> Nat]
        /\ call \in [Client -> Request \cup {None}]
        /\ seen \in [Client -> SUBSET Seq(Id)] /\ answer \in [Client -> Seq(Id)]
        /\ leads \in [Server -> Nat] /\ Request' = Request
    BY <1>1, <1>2, Zenon DEF ClerkType, HistoryType, RaftType, Request
  <2>1. CASE Begin(c)
    <3>1. count[c] + 1 \in 1 .. MaxOps /\ count' \in [Client -> 0 .. MaxOps]
      BY <2>0, <2>1, KVBounds, SMTT(40) DEF Begin
    <3>2. PICK m \in {"Get", "Put", "Append"}, k \in Key :
            /\ op' = [op EXCEPT ![c] = [client |-> c, id |-> <<c, count[c] + 1>>,
                                        method |-> m, key |-> k]]
            /\ seen' = [seen EXCEPT ![c] = {Newest.data[k]}]
      BY <2>1, Zenon DEF Begin
    <3>3. [client |-> c, id |-> <<c, count[c] + 1>>, method |-> m, key |-> k] \in Op
      BY <3>1, <3>2, SMTT(60) DEF Op, Id
    <3>4. Newest.data[k] \in Seq(Id)
      BY <1>1, <3>2, NewestType, Zenon DEF KV
    <3>5. op' \in [Client -> Op \cup {None}] /\ seen' \in [Client -> SUBSET Seq(Id)]
      BY <2>0, <3>2, <3>3, <3>4, Zenon
    <3>6. answer' \in [Client -> Seq(Id)] /\ UNCHANGED <<leaderId, Term, call>>
      BY <2>0, <2>1, SMTT(60) DEF Begin
    <3> QED BY <2>0, <3>1, <3>5, <3>6, Zenon DEF ClerkType
  <2>2. CASE WrongLeader(c)
    BY <2>0, <2>2, Zenon DEF WrongLeader, ClerkType, historyVars
  <2>3. ASSUME NEW s \in Server, FindLeader(c, s)
        PROVE  ClerkType' /\ seen' \in [Client -> SUBSET Seq(Id)] /\ answer' \in [Client -> Seq(Id)]
    BY <2>0, <2>3, Zenon DEF FindLeader, ClerkType, historyVars
  <2> QED BY <2>1, <2>2, <2>3
<1>4. RaftType' /\ ServerType' /\ HistoryType'
  BY <1>1, <1>2, <1>3, Zenon DEF RaftType, ServerType, HistoryType, raftVars, serverVars, Request
<1>5. TypeOK'
  BY <1>1, <1>2, <1>3, <1>4, TypePartsNext, Zenon
<1>6. StatesFollowLog' /\ ReplicasFollowLog'
  BY <1>2, OthersKeep, Zenon DEF raftVars, serverVars
<1> QED BY <1>5, <1>6 DEF IInv

(* A clerk that takes or gives up a reply leaves all operations as they are *)
LEMMA ReplyStepsKeepOps ==
  ASSUME TypeOK, NEW c \in Client, Reply(c) \/ CallFails(c)
  PROVE  /\ handler' \in Seq(HandlerType) /\ Request' = Request
         /\ \A q \in Request : handler'[q].op = handler[q].op
<1> DEFINE r == call[c]
<1>a. handler \in Seq(HandlerType) /\ ClerkType
  BY TypeParts, Zenon
<1>b. r \in Request /\ handler[r] \in HandlerType
  <2>1. r \in Request
    BY <1>a DEF Reply, CallFails, ClerkType
  <2> QED BY <1>a, <2>1, RequestType, Zenon
<1> DEFINE y == [handler[r] EXCEPT !.state = "gone", !.value = <<>>]
<1>0. \A h \in HandlerType :
        LET z == [h EXCEPT !.state = "gone", !.value = <<>>]
        IN  z \in HandlerType /\ z.op = h.op
  <2>1. <<>> \in Seq(Id) /\ "gone" \in HandlerState
    BY EmptySeq DEF HandlerState
  <2> QED BY <2>1, Zenon DEF HandlerType
<1>1. y \in HandlerType /\ y.op = handler[r].op
  BY <1>b, <1>0, Zenon
<1>2. \/ handler' = [handler EXCEPT ![r] = y]
      \/ handler' = [handler EXCEPT ![r] = handler[r]]
  <2>1. CASE Reply(c)
    BY <1>a, <1>b, <2>1, Zenon DEF Reply, HandlerType, Request
  <2>2. CASE CallFails(c)
    BY <1>b, <2>2, Zenon DEF CallFails
  <2> QED BY <2>1, <2>2
<1> HIDE DEF y, r
<1> QED BY <1>a, <1>b, <1>1, <1>2, HandlerKeeps, Zenon

(* A clerk takes a reply, or gives up waiting for one *)
LEMMA ReplySteps ==
  ASSUME IInv, NEW c \in Client, Reply(c) \/ CallFails(c)
  PROVE  IInv'
<1>1. TypeOK /\ RaftType /\ ServerType /\ handler \in Seq(HandlerType) /\ ClerkType /\ HistoryType
  BY TypeParts DEF IInv
<1> DEFINE r == call[c]
<1>2. UNCHANGED <<raftVars, states, serverVars, count, Term>>
  BY Zenon DEF Reply, CallFails, historyVars
<1>3. r \in Request /\ handler[r] \in HandlerType
  <2>1. r \in Request
    BY <1>1, Zenon DEF Reply, CallFails, ClerkType
  <2> QED BY <1>1, <2>1, RequestType
<1>4. /\ handler' \in Seq(HandlerType) /\ Request' = Request
      /\ \A q \in Request : handler'[q].op = handler[q].op
  BY <1>1, ReplyStepsKeepOps
<1>5. ClerkType' /\ HistoryType'
  <2>0. /\ op \in [Client -> Op \cup {None}] /\ call \in [Client -> Request \cup {None}]
        /\ leaderId \in [Client -> Server \cup {None}]
        /\ seen \in [Client -> SUBSET Seq(Id)] /\ answer \in [Client -> Seq(Id)]
        /\ faults \in 0 .. MaxFaults /\ handler[r].value \in Seq(Id)
    BY <1>1, <1>3, Zenon DEF ClerkType, HistoryType, HandlerType
  <2>1. CASE Reply(c)
    <3>1. /\ op' \in [Client -> Op \cup {None}] /\ call' \in [Client -> Request \cup {None}]
          /\ leaderId' \in [Client -> Server \cup {None}]
          /\ seen' \in [Client -> SUBSET Seq(Id)] /\ answer' \in [Client -> Seq(Id)]
          /\ UNCHANGED faults
      BY <2>0, <2>1, ZenonT(40) DEF Reply
    <3> QED BY <1>1, <1>2, <1>4, <3>1, Zenon DEF ClerkType, HistoryType, raftVars
  <2>2. CASE CallFails(c)
    <3>1. faults' \in 0 .. MaxFaults
      BY <2>0, <2>2, FaultType DEF CallFails
    <3>2. call' \in [Client -> Request \cup {None}] /\ UNCHANGED <<op, leaderId, seen, answer>>
      BY <2>0, <2>2, Zenon DEF CallFails, historyVars
    <3> QED BY <1>1, <1>2, <1>4, <3>1, <3>2, Zenon DEF ClerkType, HistoryType, raftVars
  <2> QED BY <2>1, <2>2, Zenon
<1>6. RaftType' /\ ServerType'
  BY <1>1, <1>2, <1>4, Zenon DEF RaftType, ServerType, raftVars, serverVars
<1>7. TypeOK'
  BY <1>4, <1>5, <1>6, TypePartsNext, Zenon
<1>8. StatesFollowLog' /\ ReplicasFollowLog'
  BY <1>2, <1>4, OthersKeep DEF raftVars, serverVars
<1> QED BY <1>7, <1>8 DEF IInv

(* A request reaches a server, and a new handler hands its command to Raft *)
LEMMA CallStep ==
  ASSUME IInv, NEW c \in Client, Call(c)
  PROVE  IInv'
<1>1. TypeOK /\ RaftType /\ ServerType /\ handler \in Seq(HandlerType) /\ ClerkType /\ HistoryType
  BY TypeParts DEF IInv
<1> DEFINE r == Len(handler) + 1
           x == [server |-> leaderId[c], op |-> op[c], state |-> "started", value |-> <<>>]
<1>2. /\ UNCHANGED <<serverVars, op, count, leaderId, Term, historyVars, faults, log, leads, term>>
      /\ handler' = Append(handler, x)
      /\ call' = [call EXCEPT ![c] = r]
  BY Zenon DEF Call, Start
<1>3. x \in HandlerType
  <2>1. leaderId[c] \in Server \cup {None} /\ op[c] \in Op \cup {None}
    BY <1>1, Zenon DEF ClerkType
  <2>2. leaderId[c] \in Server /\ op[c] \in Op
    BY <2>1, Zenon DEF Call
  <2> QED BY <2>2, StartedRequest, Zenon
<1> HIDE DEF x
<1>4. /\ handler' \in Seq(HandlerType) /\ Len(handler) \in Nat
      /\ Len(handler') = Len(handler) + 1
      /\ \A q \in 1 .. Len(handler) : handler'[q] = handler[q]
  BY <1>1, <1>2, <1>3, AppendProperties, LenProperties
<1>5. Request \subseteq Request' /\ r \in Request'
  BY <1>4 DEF Request
<1>6. \A q \in Request : handler'[q].op = handler[q].op
  BY <1>4 DEF Request
<1>7. \A q \in Seq(Request) : q \in Seq(Request')
  BY <1>5
<1>8. tail' \in [Server -> Seq(Request') \cup {None}]
  <2> DEFINE s == leaderId[c]
  <2>1. s \in Server
    BY <1>1, ZenonT(60) DEF Call, ClerkType
  <2>2. tail' = [tail EXCEPT ![s] = IF tail[s] = None THEN None ELSE Append(tail[s], r)]
    BY Zenon DEF Call, Start
  <2>3. tail \in [Server -> Seq(Request') \cup {None}]
    BY <1>1, <1>7 DEF RaftType
  <2>4. tail[s] # None => Append(tail[s], r) \in Seq(Request')
    BY <1>5, <2>1, <2>3, AppendProperties, ZenonT(60)
  <2> HIDE DEF s, r
  <2> QED BY <2>1, <2>2, <2>3, <2>4, Zenon
<1> HIDE DEF r
<1>9. RaftType'
  BY <1>1, <1>2, <1>7, <1>8, Zenon DEF RaftType
<1>10. ServerType'
  <2>1. notifyData' \in [Server -> SUBSET Request'] /\ sending' \in [Server -> Request' \cup {None}]
    BY <1>1, <1>2, <1>5, SMTT(60) DEF ServerType, serverVars
  <2> QED BY <1>1, <1>2, <2>1 DEF ServerType, serverVars
<1>11. ClerkType'
  <2>1. call' \in [Client -> Request' \cup {None}]
    BY <1>1, <1>2, <1>5, SMTT(60) DEF ClerkType
  <2> QED BY <1>1, <1>2, <2>1, SMTT(60) DEF ClerkType
<1>12. HistoryType'
  BY <1>1, <1>2, Zenon DEF HistoryType, historyVars
<1>13. TypeOK'
  BY <1>4, <1>9, <1>10, <1>11, <1>12, TypePartsNext, Zenon
<1>14. StatesFollowLog' /\ ReplicasFollowLog'
  BY <1>2, <1>6, OthersKeep, Zenon DEF serverVars, historyVars
<1> QED BY <1>13, <1>14, Zenon DEF IInv

(* Every step keeps the invariant *)
LEMMA StepKeepsInv ==
  ASSUME IInv, [Next]_vars
  PROVE  IInv'
<1>1. CASE UNCHANGED vars
  <2>1. TypeOK'
    BY <1>1, Zenon DEF IInv, TypeOK, vars, raftVars, serverVars, clerkVars, historyVars, Request
  <2>2. StatesFollowLog' /\ ReplicasFollowLog'
    BY <1>1, OthersKeep, Zenon DEF vars, raftVars, serverVars, historyVars
  <2> QED BY <2>1, <2>2 DEF IInv
<1>2. CASE Next
  <2>1. CASE \E s \in Server : \/ Elect(s) \/ RaftStep(s) \/ InstallSnapshot(s)
                               \/ WaitApplyCh(s) \/ ReadSnapshot(s) \/ Restart(s)
    BY <2>1, RaftSteps, WaitApplyChStep, SnapshotSteps, RestartStep, Zenon
  <2>2. CASE \E r \in Request : \/ Commit(r) \/ Register(r) \/ Notified(r)
                                \/ WaitTimeout(r) \/ removeCh(r)
    BY <2>2, HandlerSteps, CommitStep, Zenon
  <2>3. CASE \E c \in Client : \/ Begin(c) \/ Call(c) \/ WrongLeader(c) \/ Reply(c) \/ CallFails(c)
                               \/ \E s \in Server : FindLeader(c, s)
    BY <2>3, ClerkSteps, ReplySteps, CallStep
  <2> QED BY <1>2, <2>1, <2>2, <2>3, Zenon DEF Next
<1> QED BY <1>1, <1>2

(* Initially nothing is applied, and the history begins with the empty data *)
LEMMA InitInv == Init => IInv
<1> SUFFICES ASSUME Init PROVE IInv
  BY Zenon
<1>1. Fresh \in KV
  <2>1. <<>> \in Seq(Id)
    BY EmptySeq
  <2>2. [k \in Key |-> <<>>] \in [Key -> Seq(Id)]
    BY <2>1
  <2>3. [c \in Client |-> None] \in [Client -> Id \cup {None}]
    OBVIOUS
  <2> QED BY <2>2, <2>3 DEF Fresh, KV
<1>2. handler = <<>> /\ Len(handler) = 0 /\ log = <<>> /\ Len(log) = 0
  BY Zenon DEF Init, RaftInit
<1>3. RaftType
  BY <1>2 DEF Init, RaftInit, RaftType
<1>4. states = <<Fresh>> /\ states \in Seq(KV) /\ Len(states) = 1 /\ states[1] = Fresh
  BY <1>1, SMTT(60) DEF Init
<1>5. ServerType
  BY <1>1, <1>2, SMTT(60) DEF Init, ServerType
<1>6. ClerkType
  BY KVBounds, SMTT(60) DEF Init, ClerkType
<1>7. HistoryType
  BY <1>2, <1>4, KVBounds DEF Init, HistoryType
<1>8. TypeOK
  BY <1>2, <1>3, <1>5, <1>6, <1>7, TypeParts
<1>9. StatesFollowLog
  BY <1>2 DEF StatesFollowLog
<1>10. ReplicasFollowLog
  <2>1. ASSUME NEW s \in Server
        PROVE  /\ kv[s] = states[applied[s] + 1]
               /\ snapshot[s].kv = states[snapshot[s].index + 1]
    <3>1. kv[s] = Fresh /\ applied[s] = 0 /\ snapshot[s] = [index |-> 0, kv |-> Fresh]
      BY Zenon DEF Init
    <3>2. snapshot[s].kv = Fresh /\ snapshot[s].index = 0 /\ 0 + 1 = 1
      BY <3>1
    <3> QED BY <1>4, <3>1, <3>2, Zenon
  <2> QED BY <2>1, Zenon DEF ReplicasFollowLog
<1> QED BY <1>8, <1>9, <1>10 DEF IInv

(* A server's data and lastApplied, and its snapshot, are always what the    *)
(* commands it has taken from applyCh make of the empty data: commands taken *)
(* one by one, a snapshot of the leader and a restart lead to the same.      *)
THEOREM ReplicasFollow == Spec => []ReplicasFollowLog
<1>1. IInv /\ [Next]_vars => IInv'
  BY StepKeepsInv
<1>2. IInv => ReplicasFollowLog
  BY DEF IInv
<1> QED BY InitInv, <1>1, <1>2, PTL DEF Spec

(* Two servers that have applied equally many commands have the same data *)
ReplicasAgree == \A s, t \in Server : applied[s] = applied[t] => kv[s] = kv[t]

(* State machine safety at the service: replicas at the same log position    *)
(* agree on the data and on the table of last requests.                      *)
THEOREM ReplicasAgreeAlways == Spec => []ReplicasAgree
<1>1. ReplicasFollowLog => ReplicasAgree
  BY Zenon DEF ReplicasFollowLog, ReplicasAgree
<1> QED BY <1>1, ReplicasFollow, PTL

(* The variables of the service, its handlers and its clerks keep their types *)
THEOREM TypesHold == Spec => []TypeOK
<1>1. IInv /\ [Next]_vars => IInv'
  BY StepKeepsInv
<1>2. IInv => TypeOK
  BY DEF IInv
<1> QED BY InitInv, <1>1, <1>2, PTL DEF Spec

-----------------------------------------------------------------------------
(* kvraft is the store of KVStore *)

(* The number of request r among the operations of its clerk *)
OpNum(r) == handler[r].op.id[2]
OpOf(r) == handler[r].op
ClerkOf(r) == handler[r].op.client

(* The number of the last Put or Append of c that took effect *)
LastNum(c) == IF Newest.lastApplied[c] = None THEN 0 ELSE Newest.lastApplied[c][2]

(* Operations are named by their clerk and numbered, and a request for the   *)
(* latest one of its clerk is for what the clerk waits for.                  *)
Named ==
  /\ \A r \in Request :
       /\ OpOf(r).id = <<ClerkOf(r), OpNum(r)>>
       /\ OpNum(r) <= count[ClerkOf(r)]
       /\ OpNum(r) = count[ClerkOf(r)] /\ op[ClerkOf(r)] # None => OpOf(r) = op[ClerkOf(r)]
  /\ \A c \in Client :
       op[c] # None => op[c].client = c /\ op[c].id = <<c, count[c]>>

Calls ==
  \A c \in Client : call[c] # None => op[c] # None /\ OpOf(call[c]) = op[c]

InOrder(r, q) == ClerkOf(r) = ClerkOf(q) => OpNum(r) <= OpNum(q)

(* In a log that may still be committed, the commands of a clerk are in the  *)
(* order of its operations.                                                  *)
TailsInOrder ==
  \A s \in Server : tail[s] # None =>
    /\ \A i, j \in 1 .. Len(tail[s]) : i < j => InOrder(tail[s][i], tail[s][j])
    /\ \A n \in 1 .. Len(log), i \in 1 .. Len(tail[s]) : InOrder(log[n], tail[s][i])

(* The table of last requests names commands of the log *)
TableFromLog ==
  \A c \in Client : Newest.lastApplied[c] # None =>
    \E n \in 1 .. Len(log) :
      ClerkOf(log[n]) = c /\ Newest.lastApplied[c] = OpOf(log[n]).id

(* A write that is committed has taken effect, and so has one that returned *)
WritesApplied ==
  \A n \in 1 .. Len(log) :
    OpOf(log[n]).method # "Get" => OpNum(log[n]) <= LastNum(ClerkOf(log[n]))
FinishedApplied ==
  \A r \in Request :
    OpOf(r).method # "Get" /\ (OpNum(r) < count[ClerkOf(r)] \/ op[ClerkOf(r)] = None)
      => OpNum(r) <= LastNum(ClerkOf(r))

(* What a clerk has seen includes the present value, and the one its command *)
(* found.                                                                    *)
SeenNow ==
  \A c \in Client : IF op[c] = None THEN seen[c] = {}
                    ELSE Newest.data[op[c].key] \in seen[c]
SeenAtCommit ==
  \A n \in 1 .. Len(log), c \in Client :
    op[c] # None /\ OpOf(log[n]) = op[c] => states[n + 1].data[op[c].key] \in seen[c]

SendingLast ==
  \A s \in Server : sending[s] # None => applied[s] > 0 /\ log[applied[s]] = sending[s]

(* The result of a handler is that of its command, which is committed *)
Results ==
  \A r \in Request : handler[r].state \in {"notified", "OK"} =>
    /\ \E n \in 1 .. Len(log) : log[n] = r
    /\ \A c \in Client : op[c] # None /\ op[c] = OpOf(r) => handler[r].value \in seen[c]

RInv ==
  /\ Named /\ Calls /\ TailsInOrder
  /\ TableFromLog /\ WritesApplied /\ FinishedApplied
  /\ SeenNow /\ SeenAtCommit
  /\ SendingLast /\ Results
-----------------------------------------------------------------------------
(* What the types say of requests, clerks and logs *)
LEMMA RequestFacts ==
  ASSUME TypeOK, NEW r \in Request
  PROVE  /\ OpOf(r) \in Op /\ ClerkOf(r) \in Client /\ OpOf(r).id \in Id
         /\ OpNum(r) \in Nat \ {0} /\ OpOf(r).key \in Key
         /\ handler[r].server \in Server
<1>1. handler[r].op \in Op /\ handler[r].server \in Server
  BY RequestType, Zenon
<1>2. handler[r].op.id \in Id /\ handler[r].op.client \in Client /\ handler[r].op.key \in Key
  BY <1>1, Zenon DEF Op
<1>3. handler[r].op.id[2] \in 1 .. MaxOps
  BY <1>2, Zenon DEF Id
<1> QED BY <1>1, <1>2, <1>3, KVBounds DEF OpOf, ClerkOf, OpNum

(* The log and the tails hold requests *)
LEMMA LogFacts ==
  ASSUME TypeOK
  PROVE  /\ Len(log) \in Nat
         /\ \A n \in 1 .. Len(log) : log[n] \in Request
         /\ \A s \in Server : tail[s] # None =>
              /\ tail[s] \in Seq(Request) /\ Len(tail[s]) \in Nat
              /\ \A i \in 1 .. Len(tail[s]) : tail[s][i] \in Request
<1>1. log \in Seq(Request) /\ tail \in [Server -> Seq(Request) \cup {None}]
  BY Zenon DEF TypeOK
<1>2. Len(log) \in Nat /\ \A n \in 1 .. Len(log) : log[n] \in Request
  BY <1>1, LenProperties, ElementOfSeq, Zenon
<1>3. ASSUME NEW s \in Server, tail[s] # None
      PROVE  /\ tail[s] \in Seq(Request) /\ Len(tail[s]) \in Nat
             /\ \A i \in 1 .. Len(tail[s]) : tail[s][i] \in Request
  <2>1. tail[s] \in Seq(Request)
    BY <1>1, <1>3
  <2> QED BY <2>1, LenProperties, ElementOfSeq, Zenon
<1> QED BY <1>2, <1>3, Zenon

(* A clerk counts its operations, and so does the table of last requests *)
LEMMA ClerkFacts ==
  ASSUME TypeOK, NEW c \in Client
  PROVE  /\ count[c] \in Nat /\ LastNum(c) \in Nat
         /\ op[c] # None => op[c] \in Op /\ op[c].key \in Key /\ op[c].id \in Id
<1>1. count[c] \in Nat /\ op[c] \in Op \cup {None}
  BY KVBounds DEF TypeOK
<1>2. Newest.lastApplied[c] \in Id \cup {None}
  BY NewestType, Zenon DEF KV
<1>3. LastNum(c) \in Nat
  BY <1>2, KVBounds DEF LastNum, Id
<1> QED BY <1>1, <1>3, Zenon DEF Op

(* The steps that begin, commit and finish no operation keep what RInv says  *)
(* of operations and the log.                                                *)
CommittedInv ==
  Named /\ TableFromLog /\ WritesApplied /\ FinishedApplied /\ SeenNow /\ SeenAtCommit

(* It is about operations, the log and what clerks have seen alone *)
LEMMA CommittedKept ==
  ASSUME TypeOK, CommittedInv, Request' = Request,
         \A r \in Request : handler'[r].op = handler[r].op,
         UNCHANGED <<log, states, op, count, seen>>
  PROVE  CommittedInv'
<1>1. \A r \in Request : /\ OpOf(r)' = OpOf(r) /\ ClerkOf(r)' = ClerkOf(r)
                         /\ OpNum(r)' = OpNum(r)
  BY Zenon DEF OpOf, ClerkOf, OpNum
<1>2. \A n \in 1 .. Len(log) : log[n] \in Request
  BY LogFacts
<1>3. Newest' = Newest /\ \A c \in Client : LastNum(c)' = LastNum(c)
  BY Zenon DEF Newest, LastNum
<1>4. Named'
  BY <1>1, ZenonT(60) DEF CommittedInv, Named, OpOf, ClerkOf, OpNum
<1>5. TableFromLog'
  BY <1>2, <1>3, SMTT(40) DEF CommittedInv, TableFromLog, OpOf, ClerkOf
<1>6. WritesApplied'
  BY <1>2, Zenon DEF CommittedInv, WritesApplied, OpOf, ClerkOf, OpNum, LastNum, Newest
<1>7. FinishedApplied'
  BY ZenonT(40) DEF CommittedInv, FinishedApplied, OpOf, ClerkOf, OpNum, LastNum, Newest
<1>8. SeenNow' /\ SeenAtCommit'
  BY <1>2, Zenon DEF CommittedInv, SeenNow, SeenAtCommit, OpOf, Newest
<1> QED BY <1>4, <1>5, <1>6, <1>7, <1>8, Zenon DEF CommittedInv

(* The order of commands depends on the logs alone *)
LEMMA TailsKept ==
  ASSUME TypeOK, TailsInOrder,
         \A r \in Request : handler'[r].op = handler[r].op,
         UNCHANGED <<log, tail>>
  PROVE  TailsInOrder'
<1>1. /\ \A n \in 1 .. Len(log) : log[n] \in Request
      /\ \A s \in Server : tail[s] # None => \A i \in 1 .. Len(tail[s]) : tail[s][i] \in Request
  BY LogFacts
<1>2. \A r, q \in Request : InOrder(r, q) => InOrder(r, q)'
  BY DEF InOrder, ClerkOf, OpNum
<1> QED BY <1>1, <1>2, ZenonT(60) DEF TailsInOrder, InOrder, ClerkOf, OpNum

(* A handler has a result to give *)
HasResult(r) == handler[r].state \in {"notified", "OK"}

(* The steps that give no handler a result and no clerk a call keep what     *)
(* RInv says of these.                                                       *)
LEMMA CallsAndResultsKept ==
  ASSUME TypeOK, Calls, Results, Request' = Request,
         \A r \in Request : handler'[r].op = handler[r].op,
         UNCHANGED <<log, op, seen>>,
         \A c \in Client : call'[c] \in {call[c], None},
         \A r \in Request : HasResult(r)' => HasResult(r) /\ handler'[r].value = handler[r].value
  PROVE  Calls' /\ Results'
<1>1. \A c \in Client : call[c] \in Request \cup {None}
  BY DEF TypeOK
<1>2. Calls'
  BY <1>1, Zenon DEF Calls, OpOf
<1>3. Results'
  BY DEF Results, OpOf, HasResult
<1> QED BY <1>2, <1>3

(* Elections, catching up, applying, snapshots and restarts *)
LEMMA ServerKeepsRInv ==
  ASSUME IInv, RInv, NEW s \in Server,
         \/ Elect(s) \/ RaftStep(s) \/ InstallSnapshot(s)
         \/ WaitApplyCh(s) \/ ReadSnapshot(s) \/ Restart(s)
  PROVE  RInv'
<1>1. /\ TypeOK /\ CommittedInv /\ Calls /\ TailsInOrder /\ SendingLast /\ Results
  BY DEF IInv, RInv, CommittedInv
<1>2. UNCHANGED <<log, states, op, count, seen, call>>
  BY Zenon DEF Elect, RaftStep, InstallSnapshot, WaitApplyCh, ReadSnapshot, Restart, Election, StepDown,
         AppendEntries, Make, raftVars, clerkVars, historyVars
<1>3. handler' = handler \/ Restart(s)
  BY Zenon DEF Elect, RaftStep, InstallSnapshot, WaitApplyCh, ReadSnapshot
<1>4. Request' = Request /\ \A r \in Request : handler'[r].op = handler[r].op
  BY <1>1, <1>3, RestartKeepsOps DEF Request
<1>5. \A r \in Request : HasResult(r)' => HasResult(r) /\ handler'[r].value = handler[r].value
  <2>1. CASE handler' = handler
    BY <2>1, Zenon DEF HasResult
  <2>2. CASE Restart(s)
    <3>1. ASSUME NEW r \in Request
          PROVE  handler'[r] = handler[r] \/ handler'[r].state = "gone"
      <4>1. handler[r] \in HandlerType
        BY <1>1, RequestType
      <4>2. handler'[r] = IF handler[r].server = s
                          THEN [handler[r] EXCEPT !.state = "gone"] ELSE handler[r]
        BY <2>2 DEF Restart
      <4> QED BY <4>1, <4>2, Zenon DEF HandlerType
    <3> QED BY <3>1 DEF HasResult
  <2> QED BY <1>3, <2>1, <2>2, Zenon
<1>6. CommittedInv'
  BY <1>1, <1>2, <1>4, CommittedKept, Zenon
<1>7. Calls' /\ Results'
  BY <1>1, <1>2, <1>4, <1>5, CallsAndResultsKept, Zenon
<1>8. TailsInOrder'
  <2>1. CASE UNCHANGED tail
    BY <1>1, <1>2, <1>4, <2>1, TailsKept, Zenon
  <2>2. CASE AppendEntries(s) /\ RaftStep(s)
    <3>1. PICK l \in Server : tail' = [tail EXCEPT ![s] = tail[l]]
      BY <2>2, Zenon DEF AppendEntries
    <3>2. UNCHANGED handler
      BY <2>2 DEF RaftStep
    <3>3. \A t \in Server : \E k \in Server : tail'[t] = tail[k]
      BY <1>1, <3>1, Zenon DEF TypeOK
    <3>4. ASSUME NEW t \in Server, tail'[t] # None
          PROVE  /\ \A i, j \in 1 .. Len(tail'[t]) : i < j => InOrder(tail'[t][i], tail'[t][j])
                 /\ \A n \in 1 .. Len(log), i \in 1 .. Len(tail'[t]) : InOrder(log[n], tail'[t][i])
      <4>1. PICK k \in Server : tail'[t] = tail[k]
        BY <3>3, Zenon
      <4> QED BY <1>1, <3>4, <4>1, Zenon DEF TailsInOrder
    <3>5. \A r, q : InOrder(r, q)' <=> InOrder(r, q)
      BY <3>2 DEF InOrder, ClerkOf, OpNum
    <3> QED BY <1>2, <3>4, <3>5, ZenonT(40) DEF TailsInOrder, InOrder, ClerkOf, OpNum
  <2> QED BY <2>1, <2>2, ZenonT(40) DEF Elect, RaftStep, InstallSnapshot, WaitApplyCh, ReadSnapshot, Restart,
                           Election, StepDown, Make, raftVars
<1>9. SendingLast'
  <2>0. /\ sending \in [Server -> Request \cup {None}] /\ applied \in [Server -> 0 .. Len(log)]
        /\ Len(log) \in Nat
    BY <1>1, LogFacts, Zenon DEF TypeOK
  <2>1. CASE UNCHANGED <<sending, applied>>
    BY <1>1, <1>2, <2>1 DEF SendingLast
  <2>2. CASE WaitApplyCh(s)
    <3>1. /\ applied' = [applied EXCEPT ![s] = applied[s] + 1]
          /\ sending' = [sending EXCEPT ![s] = IF log[applied[s] + 1] \in notifyData[s]
                                               THEN log[applied[s] + 1] ELSE None]
      BY <2>2, Zenon DEF WaitApplyCh
    <3>2. applied[s] + 1 > 0
      BY <2>0, Counting, Zenon
    <3> QED BY <1>1, <1>2, <2>0, <3>1, <3>2, ZenonT(40) DEF SendingLast
  <2>3. CASE ReadSnapshot(s)
    BY <1>1, <1>2, <2>0, <2>3, Zenon DEF ReadSnapshot, SendingLast
  <2>4. CASE Restart(s)
    BY <1>1, <1>2, <2>0, <2>4, Zenon DEF Restart, SendingLast
  <2> QED BY <2>1, <2>2, <2>3, <2>4, Zenon DEF Elect, RaftStep, InstallSnapshot, serverVars
<1> QED BY <1>6, <1>7, <1>8, <1>9, Zenon DEF RInv, CommittedInv

(* The steps of handlers. What WaitApplyCh sends is the value that the key   *)
(* had when the command was committed, which the waiting clerk has seen.     *)
LEMMA HandlerKeepsRInv ==
  ASSUME IInv, RInv, NEW r \in Request,
         Register(r) \/ Notified(r) \/ WaitTimeout(r) \/ removeCh(r)
  PROVE  RInv'
<1>1. /\ TypeOK /\ CommittedInv /\ Calls /\ TailsInOrder /\ SendingLast /\ Results
      /\ handler \in Seq(HandlerType)
  BY TypeParts, ZenonT(40) DEF IInv, RInv, CommittedInv
<1>2. UNCHANGED <<log, tail, states, op, count, seen, call, applied>>
  BY DEF Register, Notified, WaitTimeout, removeCh, raftVars, clerkVars, historyVars, serverVars
<1>3. Request' = Request /\ \A q \in Request : handler'[q].op = handler[q].op
  BY <1>1, HandlerStepsKeepOps, ZenonT(40)
<1>4. DOMAIN handler = Request /\ \A q \in Request : handler[q] \in HandlerType
  BY <1>1, RequestType, LenProperties, Zenon DEF Request
<1>5. CommittedInv' /\ TailsInOrder'
  BY <1>1, <1>2, <1>3, CommittedKept, TailsKept, ZenonT(60)
<1>6. SendingLast'
  <2>1. CASE UNCHANGED sending
    BY <1>1, <1>2, <2>1, ZenonT(40) DEF SendingLast
  <2>2. CASE Notified(r)
    BY <1>1, <1>2, <2>2, Zenon DEF Notified, SendingLast, TypeOK
  <2> QED BY <2>1, <2>2 DEF Register, WaitTimeout, removeCh, serverVars
<1>7. CASE ~Notified(r)
  <2>1. \E x \in HandlerState : /\ handler' = [handler EXCEPT ![r].state = x]
                                /\ x \in {"notified", "OK"} => handler[r].state = "notified"
    BY <1>7 DEF Register, WaitTimeout, removeCh, SetState, Respond, HandlerState
  <2>2. \A q \in Request : HasResult(q)' => HasResult(q) /\ handler'[q].value = handler[q].value
    <3>1. PICK x : /\ handler' = [handler EXCEPT ![r].state = x]
                   /\ x \in {"notified", "OK"} => handler[r].state = "notified"
      BY <2>1, Zenon
    <3>2. handler'[r] = [handler[r] EXCEPT !.state = x]
      BY <1>4, <3>1, Zenon
    <3>3. handler'[r].state = x /\ handler'[r].value = handler[r].value
      BY <1>4, <3>2, Zenon DEF HandlerType
    <3>4. \A q \in Request \ {r} : handler'[q] = handler[q]
      BY <1>4, <3>1, Zenon
    <3> QED BY <3>1, <3>3, <3>4, Zenon DEF HasResult
  <2>3. Calls' /\ Results'
    BY <1>1, <1>2, <1>3, <2>2, CallsAndResultsKept, Zenon
  <2> QED BY <1>5, <1>6, <2>3, Zenon DEF RInv, CommittedInv
<1>8. CASE Notified(r)
  <2> DEFINE s == handler[r].server
             v == kv[s].data[handler[r].op.key]
             n == applied[s]
  <2>1. s \in Server /\ sending[s] = r /\ r # None
    <3>1. s \in Server /\ sending[s] = r
      BY <1>1, <1>8, RequestFacts, Zenon DEF Notified
    <3>2. r \in Nat
      <4>1. Len(handler) \in Nat
        BY <1>1, TypeParts, LenProperties, Zenon
      <4> QED BY <4>1, Counting, Zenon DEF Request
    <3> QED BY <3>1, <3>2, NoneIsNothing, Zenon
  <2>2. n \in 1 .. Len(log) /\ log[n] = r
    <3>1. applied[s] \in 0 .. Len(log) /\ Len(log) \in Nat
      BY <1>1, <2>1, LogFacts, Zenon DEF TypeOK
    <3>2. applied[s] > 0 /\ log[applied[s]] = r
      BY <1>1, <2>1 DEF SendingLast
    <3> QED BY <3>1, <3>2, SMTT(40)
  <2>3. kv[s] = states[n + 1]
    BY <2>1, Zenon DEF IInv, ReplicasFollowLog
  <2>4. handler'[r].value = v
    BY <1>4, <1>8 DEF Notified, HandlerType
  <2>5. \A q \in Request : q # r => handler'[q] = handler[q]
    BY <1>4, <1>8, Zenon DEF Notified
  <2>6. \A c \in Client : op[c] # None /\ op[c] = OpOf(r) => v \in seen[c]
    BY <1>1, <2>2, <2>3, Zenon DEF CommittedInv, SeenAtCommit, OpOf
  <2> HIDE DEF v
  <2>7. Results'
    <3> SUFFICES ASSUME NEW q \in Request, HasResult(q)'
                 PROVE  /\ \E m \in 1 .. Len(log) : log[m] = q
                        /\ \A c \in Client : op[c] # None /\ op[c] = handler[q].op
                                               => handler'[q].value \in seen[c]
      BY <1>2, <1>3, Zenon DEF Results, OpOf, HasResult
    <3>1. CASE q = r
      BY <2>2, <2>4, <2>6, <3>1, Zenon DEF OpOf
    <3>2. CASE q # r
      BY <1>1, <2>5, <3>2 DEF Results, OpOf, HasResult
    <3> QED BY <3>1, <3>2
  <2>8. Calls'
    BY <1>1, <1>2, <1>3, Zenon DEF Calls, OpOf, TypeOK
  <2> QED BY <1>5, <1>6, <2>7, <2>8, ZenonT(40) DEF RInv, CommittedInv
<1> QED BY <1>7, <1>8

(* A clerk looks for the leader, or gives up waiting for a reply *)
LEMMA ClerkKeepsRInv ==
  ASSUME IInv, RInv, NEW c \in Client,
         WrongLeader(c) \/ CallFails(c) \/ \E s \in Server : FindLeader(c, s)
  PROVE  RInv'
<1>1. /\ TypeOK /\ CommittedInv /\ Calls /\ TailsInOrder /\ SendingLast /\ Results
      /\ handler \in Seq(HandlerType)
  BY TypeParts DEF IInv, RInv, CommittedInv
<1>2. UNCHANGED <<log, tail, states, op, count, seen, applied, sending>>
  BY Zenon DEF WrongLeader, CallFails, FindLeader, raftVars, serverVars, historyVars
<1>3. handler' = handler \/ CallFails(c)
  BY Zenon DEF WrongLeader, FindLeader
<1>4. Request' = Request /\ \A q \in Request : handler'[q].op = handler[q].op
  BY <1>1, <1>3, ReplyStepsKeepOps, Zenon DEF Request
<1>5. \A d \in Client : call'[d] \in {call[d], None}
  <2>1. call \in [Client -> Request \cup {None}]
    BY <1>1 DEF TypeOK
  <2> QED BY <2>1, Zenon DEF WrongLeader, CallFails, FindLeader
<1>6. \A q \in Request : HasResult(q)' => HasResult(q) /\ handler'[q].value = handler[q].value
  <2>1. CASE handler' = handler
    BY <2>1 DEF HasResult
  <2>2. CASE CallFails(c)
    <3>1. DOMAIN handler = Request /\ \A q \in Request : handler[q] \in HandlerType
      BY <1>1, RequestType, LenProperties, Zenon DEF Request
    <3>2. \A q \in Request : handler'[q] = handler[q] \/ handler'[q].state = "gone"
      BY <2>2, <3>1 DEF CallFails, HandlerType
    <3> QED BY <3>2, Zenon DEF HasResult
  <2> QED BY <1>3, <2>1, <2>2, Zenon
<1>7. CommittedInv' /\ TailsInOrder'
  BY <1>1, <1>2, <1>4, CommittedKept, TailsKept, Zenon
<1>8. Calls' /\ Results'
  BY <1>1, <1>2, <1>4, <1>5, <1>6, CallsAndResultsKept, Zenon
<1>9. SendingLast'
  BY <1>1, <1>2, Zenon DEF SendingLast
<1> QED BY <1>7, <1>8, <1>9, Zenon DEF RInv, CommittedInv

(* A clerk begins an operation, whose number no request has yet *)
LEMMA BeginKeepsRInv ==
  ASSUME IInv, RInv, NEW c \in Client, Begin(c)
  PROVE  RInv'
<1>1. TypeOK /\ RInv
  BY Zenon DEF IInv
<1>2. UNCHANGED <<log, tail, states, handler, call, applied, sending>>
  BY DEF Begin, raftVars, serverVars
<1>3. PICK m \in {"Get", "Put", "Append"}, k \in Key :
        /\ op' = [op EXCEPT ![c] = [client |-> c, id |-> <<c, count[c] + 1>>,
                                    method |-> m, key |-> k]]
        /\ seen' = [seen EXCEPT ![c] = {Newest.data[k]}]
  BY Zenon DEF Begin
<1> DEFINE o == [client |-> c, id |-> <<c, count[c] + 1>>, method |-> m, key |-> k]
<1>4. /\ op[c] = None /\ count[c] \in Nat /\ o \in Op /\ o # None
      /\ o.client = c /\ o.id = <<c, count[c] + 1>> /\ o.key = k
  <2>1. op[c] = None /\ count[c] \in 0 .. MaxOps /\ count[c] < MaxOps
    BY <1>1, Zenon DEF Begin, TypeOK
  <2>2. count[c] + 1 \in 1 .. MaxOps
    BY <2>1, KVBounds, Counting, Zenon
  <2>3. o \in Op
    BY <2>2 DEF Op, Id
  <2>4. count[c] \in Nat
    BY <1>1, ClerkFacts, Zenon
  <2> QED BY <2>1, <2>3, <2>4, NoneIsNothing, Zenon
<1> HIDE DEF o
<1>5. /\ op'[c] = o /\ count'[c] = count[c] + 1 /\ seen'[c] = {Newest.data[k]}
      /\ \A d \in Client : d # c => op'[d] = op[d] /\ count'[d] = count[d] /\ seen'[d] = seen[d]
  BY <1>1, <1>3, Zenon DEF Begin, TypeOK, o
<1>6. \A d \in Client : count[d] \in Nat
  BY <1>1, ClerkFacts, Zenon
<1>7. \A r \in Request : /\ ClerkOf(r) \in Client /\ OpNum(r) \in Nat
                         /\ OpOf(r).id = <<ClerkOf(r), OpNum(r)>>
                         /\ OpNum(r) <= count[ClerkOf(r)]
  BY <1>1, RequestFacts, Zenon DEF RInv, Named
<1>8. \A r \in Request : OpOf(r) # o
  BY <1>4, <1>7 DEF OpOf, ClerkOf
<1>9. \A n \in 1 .. Len(log) : log[n] \in Request
  BY <1>1, LogFacts, Zenon
<1>10. Named'
  <2>1. ASSUME NEW r \in Request
        PROVE  /\ OpNum(r) <= count'[ClerkOf(r)]
               /\ OpNum(r) = count'[ClerkOf(r)] /\ op'[ClerkOf(r)] # None => OpOf(r) = op'[ClerkOf(r)]
    <3>1. CASE ClerkOf(r) = c
      <4>1. /\ OpNum(r) \in Nat /\ OpNum(r) <= count[c] /\ count[c] \in Nat
            /\ count'[ClerkOf(r)] = count[c] + 1
        BY <1>4, <1>5, <1>7, <3>1, Zenon
      <4>2. OpNum(r) <= count[c] + 1 /\ OpNum(r) # count[c] + 1
        BY <4>1, Counting, Zenon
      <4> QED BY <4>1, <4>2, Zenon
    <3>2. CASE ClerkOf(r) # c
      BY <1>1, <1>5, <1>7, <3>2, Zenon DEF RInv, Named
    <3> QED BY <3>1, <3>2, Zenon
  <2>2. ASSUME NEW d \in Client, op'[d] # None
        PROVE  op'[d].client = d /\ op'[d].id = <<d, count'[d]>>
    <3>1. CASE d = c
      BY <1>4, <1>5, <3>1, Zenon
    <3>2. CASE d # c
      BY <1>1, <1>5, <2>2, <3>2, ZenonT(40) DEF RInv, Named
    <3> QED BY <3>1, <3>2
  <2> QED BY <1>2, <1>7, <2>1, <2>2, Zenon DEF Named, OpOf, ClerkOf, OpNum, Request
<1>11. Calls'
  <2>1. call[c] = None
    BY <1>1, <1>4, Zenon DEF RInv, Calls
  <2> QED BY <1>1, <1>2, <1>5, <2>1, Zenon DEF RInv, Calls, OpOf
<1>12. TailsInOrder' /\ TableFromLog' /\ WritesApplied' /\ SendingLast'
  BY <1>1, <1>2, ZenonT(150) DEF RInv, TailsInOrder, TableFromLog, WritesApplied, SendingLast,
                    InOrder, OpOf, ClerkOf, OpNum, LastNum, Newest
<1>13. FinishedApplied'
  <2>1. ASSUME NEW r \in Request, OpOf(r).method # "Get",
               OpNum(r) < count'[ClerkOf(r)] \/ op'[ClerkOf(r)] = None
        PROVE  OpNum(r) <= LastNum(ClerkOf(r))
    <3>1. OpNum(r) < count[ClerkOf(r)] \/ op[ClerkOf(r)] = None
      BY <1>4, <1>5, <1>7, <2>1, Zenon
    <3> QED BY <1>1, <2>1, <3>1 DEF RInv, FinishedApplied
  <2> QED BY <1>2, <2>1, Zenon DEF FinishedApplied, OpOf, ClerkOf, OpNum, LastNum, Newest, Request
<1>14. SeenNow'
  BY <1>1, <1>2, <1>4, <1>5, ZenonT(100) DEF RInv, SeenNow, Newest
<1>15. SeenAtCommit'
  <2>1. ASSUME NEW n \in 1 .. Len(log), NEW d \in Client, op'[d] # None, OpOf(log[n]) = op'[d]
        PROVE  states[n + 1].data[op'[d].key] \in seen'[d]
    <3>1. d # c
      BY <1>5, <1>8, <1>9, <2>1, Zenon
    <3> QED BY <1>1, <1>5, <2>1, <3>1, Zenon DEF RInv, SeenAtCommit
  <2> QED BY <1>2, <2>1, Zenon DEF SeenAtCommit, OpOf
<1>16. Results'
  <2>1. ASSUME NEW r \in Request, NEW d \in Client, HasResult(r), op'[d] # None, op'[d] = OpOf(r)
        PROVE  handler[r].value \in seen'[d]
    <3>1. d # c
      BY <1>5, <1>8, <2>1, Zenon
    <3> QED BY <1>1, <1>5, <2>1, <3>1, ZenonT(40) DEF RInv, Results, HasResult
  <2> QED BY <1>1, <1>2, <2>1, Zenon DEF RInv, Results, OpOf, HasResult, Request
<1> QED BY <1>10, <1>11, <1>12, <1>13, <1>14, <1>15, <1>16, Zenon DEF RInv

(* A request starts a command at the end of a log. No command of its clerk   *)
(* there has a higher number.                                                *)
LEMMA CallKeepsRInv ==
  ASSUME IInv, RInv, NEW c \in Client, Call(c)
  PROVE  RInv'
<1>1. TypeOK /\ RInv /\ handler \in Seq(HandlerType)
  BY TypeParts DEF IInv
<1>0. PICK r \in Nat : r = Len(handler) + 1
  BY <1>1, LenProperties, SMTT(40)
<1> DEFINE x == [server |-> leaderId[c], op |-> op[c], state |-> "started", value |-> <<>>]
<1>2. /\ UNCHANGED <<log, states, op, count, seen, applied, sending>>
      /\ handler' = Append(handler, x)
      /\ call' = [call EXCEPT ![c] = r]
      /\ op[c] # None
  BY <1>0, ZenonT(40) DEF Call, Start, serverVars, historyVars
<1>3. x \in HandlerType
  <2>1. leaderId[c] \in Server \cup {None} /\ op[c] \in Op \cup {None}
    BY <1>1, Zenon DEF TypeOK
  <2>2. leaderId[c] \in Server /\ op[c] \in Op
    BY <2>1, Zenon DEF Call
  <2> QED BY <2>2, StartedRequest, Zenon
<1>4. x.op = op[c] /\ x.state = "started"
  BY Zenon
<1> HIDE DEF x
<1>5. /\ Len(handler) \in Nat /\ Len(handler') = Len(handler) + 1
      /\ \A q \in 1 .. Len(handler) : handler'[q] = handler[q]
      /\ handler'[r] = x
  BY <1>0, <1>1, <1>2, <1>3, AppendProperties, LenProperties, SMTT(60)
<1>6. /\ Request' = Request \cup {r} /\ r \notin Request
      /\ \A q \in Request : handler'[q] = handler[q]
  BY <1>0, <1>5, Counting, ZenonT(60) DEF Request
<1>8. op[c].client = c /\ op[c].id = <<c, count[c]>> /\ op[c].id[2] = count[c] /\ count[c] \in Nat
  <2>1. op[c].client = c /\ op[c].id = <<c, count[c]>> /\ count[c] \in Nat
    BY <1>1, <1>2, ClerkFacts, Zenon DEF RInv, Named
  <2>2. <<c, count[c]>>[2] = count[c]
    BY Zenon
  <2> QED BY <2>1, <2>2, Zenon
<1>9. /\ Len(log) \in Nat
      /\ \A n \in 1 .. Len(log) : log[n] \in Request
      /\ \A s \in Server : tail[s] # None =>
           /\ tail[s] \in Seq(Request) /\ Len(tail[s]) \in Nat
           /\ \A i \in 1 .. Len(tail[s]) : tail[s][i] \in Request
  BY <1>1, LogFacts
<1>10. Newest' = Newest /\ \A d \in Client : LastNum(d)' = LastNum(d)
  BY <1>2, Zenon DEF Newest, LastNum
<1>11. Named'
  <2>1. ASSUME NEW q \in Request'
        PROVE  /\ handler'[q].op.id = <<handler'[q].op.client, handler'[q].op.id[2]>>
               /\ handler'[q].op.id[2] <= count[handler'[q].op.client]
               /\ handler'[q].op.id[2] = count[handler'[q].op.client] /\ op[handler'[q].op.client] # None
                    => handler'[q].op = op[handler'[q].op.client]
    <3>1. CASE q \in Request
      BY <1>1, <1>6, <3>1, Zenon DEF RInv, Named, OpOf, ClerkOf, OpNum
    <3>2. CASE q = r
      BY <1>4, <1>5, <1>8, <3>2, SMTT(40)
    <3> QED BY <1>6, <3>1, <3>2, Zenon
  <2>3. \A d \in Client : op'[d] # None => op'[d].client = d /\ op'[d].id = <<d, count'[d]>>
    BY <1>1, <1>2, Zenon DEF RInv, Named
  <2> QED BY <1>2, <2>1, <2>3, ZenonT(40) DEF Named, OpOf, ClerkOf, OpNum
<1>12. Calls'
  <2>1. call \in [Client -> Request \cup {None}]
    BY <1>1, Zenon DEF TypeOK
  <2>2. ASSUME NEW d \in Client, call'[d] # None
        PROVE  op[d] # None /\ handler'[call'[d]].op = op[d]
    <3>1. CASE d = c
      BY <1>2, <1>4, <1>5, <2>1, <3>1, ZenonT(40)
    <3>2. CASE d # c
      BY <1>1, <1>2, <1>6, <2>1, <2>2, <3>2, ZenonT(40) DEF RInv, Calls, OpOf
    <3> QED BY <3>1, <3>2
  <2> QED BY <1>2, <2>2, ZenonT(40) DEF Calls, OpOf
<1>13. TableFromLog' /\ WritesApplied' /\ SeenAtCommit'
  <2>1. TableFromLog'
    <3>1. \A n \in 1 .. Len(log) : handler'[log[n]] = handler[log[n]]
      BY <1>6, <1>9
    <3>2. ASSUME NEW d \in Client, Newest.lastApplied[d] # None
          PROVE  \E n \in 1 .. Len(log) : /\ handler'[log[n]].op.client = d
                                          /\ Newest.lastApplied[d] = handler'[log[n]].op.id
      BY <1>1, <3>1, <3>2 DEF RInv, TableFromLog, OpOf, ClerkOf
    <3> QED BY <1>2, <1>10, <3>2, ZenonT(60) DEF TableFromLog, OpOf, ClerkOf
  <2>2. WritesApplied'
    BY <1>1, <1>2, <1>6, <1>9, ZenonT(150) DEF RInv, WritesApplied, OpOf, ClerkOf, OpNum, LastNum, Newest
  <2>3. SeenAtCommit'
    BY <1>1, <1>2, <1>6, <1>9, ZenonT(60) DEF RInv, SeenAtCommit, OpOf
  <2> QED BY <2>1, <2>2, <2>3, SMTT(60)
<1>14. FinishedApplied'
  <2>1. ASSUME NEW q \in Request', handler'[q].op.method # "Get",
               \/ handler'[q].op.id[2] < count[handler'[q].op.client]
               \/ op[handler'[q].op.client] = None
        PROVE  handler'[q].op.id[2] <= LastNum(handler'[q].op.client)
    <3>1. q \in Request
      <4>1. handler'[r].op.client = c /\ handler'[r].op.id[2] = count[c]
        BY <1>4, <1>5, <1>8, ZenonT(40)
      <4>2. op[c] # None /\ ~(count[c] < count[c])
        BY <1>2, <1>8
      <4>3. ASSUME q = r PROVE FALSE
        BY <2>1, <4>1, <4>2, <4>3, Zenon
      <4> QED BY <1>6, <4>3, Zenon
    <3> QED BY <1>1, <1>6, <2>1, <3>1, Zenon DEF RInv, FinishedApplied, OpOf, ClerkOf, OpNum
  <2> QED BY <1>2, <2>1, Zenon DEF FinishedApplied, OpOf, ClerkOf, OpNum, LastNum, Newest
<1>15. SeenNow' /\ SendingLast'
  BY <1>1, <1>2, <1>10, Zenon DEF RInv, SeenNow, SendingLast
<1>16. Results'
  <2>1. ASSUME NEW q \in Request', handler'[q].state \in {"notified", "OK"}
        PROVE  /\ \E n \in 1 .. Len(log) : log[n] = q
               /\ \A d \in Client : op[d] # None /\ op[d] = handler'[q].op
                                      => handler'[q].value \in seen[d]
    <3>1. q \in Request
      BY <1>4, <1>5, <1>6, <2>1, Zenon
    <3> QED BY <1>1, <1>6, <2>1, <3>1, ZenonT(60) DEF RInv, Results, OpOf
  <2> QED BY <1>2, <2>1, ZenonT(40) DEF Results, OpOf
<1>17. TailsInOrder'
  <2> DEFINE s == leaderId[c]
             Ordered(q, p) == handler'[q].op.client = handler'[p].op.client
                                => handler'[q].op.id[2] <= handler'[p].op.id[2]
  <2>1. s \in Server
    BY <1>1, Zenon DEF Call, TypeOK
  <2>2. tail' = [tail EXCEPT ![s] = IF tail[s] = None THEN None ELSE Append(tail[s], r)]
    BY <1>0, Zenon DEF Call, Start
  <2> HIDE DEF s
  <2>3. \A q, p \in Request : InOrder(q, p) => Ordered(q, p)
    BY <1>6, ZenonT(40) DEF InOrder, ClerkOf, OpNum
  <2>4. \A q \in Request : Ordered(q, r)
    <3> SUFFICES ASSUME NEW q \in Request, handler'[q].op.client = handler'[r].op.client
                 PROVE  handler'[q].op.id[2] <= handler'[r].op.id[2]
      BY Zenon
    <3>1. handler'[q] = handler[q] /\ handler'[r].op.client = c /\ handler'[r].op.id[2] = count[c]
      BY <1>4, <1>5, <1>6, <1>8, Zenon
    <3>2. handler[q].op.id[2] <= count[handler[q].op.client]
      BY <1>1, Zenon DEF RInv, Named, ClerkOf, OpNum
    <3> QED BY <3>1, <3>2, Zenon
  <2> HIDE DEF Ordered
  <2>5. ASSUME NEW t \in Server, tail'[t] # None
        PROVE  /\ \A i, j \in 1 .. Len(tail'[t]) : i < j => Ordered(tail'[t][i], tail'[t][j])
               /\ \A n \in 1 .. Len(log), i \in 1 .. Len(tail'[t]) : Ordered(log[n], tail'[t][i])
    <3>1. CASE tail'[t] = tail[t]
      BY <1>1, <1>9, <2>3, <2>5, <3>1, Zenon DEF RInv, TailsInOrder
    <3>2. CASE tail[t] # None /\ tail'[t] = Append(tail[t], r)
      <4>1. /\ Len(tail[t]) \in Nat /\ Len(tail'[t]) = Len(tail[t]) + 1
            /\ \A i \in 1 .. Len(tail[t]) : tail'[t][i] = tail[t][i] /\ tail[t][i] \in Request
            /\ tail'[t][Len(tail[t]) + 1] = r
        BY <1>9, <3>2, AppendProperties, SMTT(60)
      <4>2. \A i \in 1 .. Len(tail'[t]) : i \in 1 .. Len(tail[t]) \/ i = Len(tail[t]) + 1
        BY <4>1, SMTT(60)
      <4>3. ASSUME NEW i \in 1 .. Len(tail'[t]), NEW j \in 1 .. Len(tail'[t]), i < j
            PROVE  Ordered(tail'[t][i], tail'[t][j])
        <5>1. i \in 1 .. Len(tail[t])
          BY <4>1, <4>3, SMTT(40)
        <5>2. CASE j \in 1 .. Len(tail[t])
          BY <1>1, <2>3, <3>2, <4>1, <4>3, <5>1, <5>2, ZenonT(40) DEF RInv, TailsInOrder
        <5>3. CASE j = Len(tail[t]) + 1
          BY <2>4, <4>1, <5>1, <5>3, Zenon
        <5> QED BY <4>2, <5>2, <5>3, Zenon
      <4>4. ASSUME NEW n \in 1 .. Len(log), NEW i \in 1 .. Len(tail'[t])
            PROVE  Ordered(log[n], tail'[t][i])
        <5>1. CASE i \in 1 .. Len(tail[t])
          BY <1>1, <1>9, <2>3, <3>2, <4>1, <5>1, ZenonT(40) DEF RInv, TailsInOrder
        <5>2. CASE i = Len(tail[t]) + 1
          BY <1>9, <2>4, <4>1, <5>2, Zenon
        <5> QED BY <4>2, <5>1, <5>2, Zenon
      <4> QED BY <4>3, <4>4, ZenonT(40)
    <3>3. tail \in [Server -> Seq(Request) \cup {None}]
      BY <1>1, Zenon DEF TypeOK
    <3> QED BY <2>1, <2>2, <2>5, <3>1, <3>2, <3>3, Zenon
  <2> QED BY <1>2, <2>5, ZenonT(40) DEF TailsInOrder, InOrder, ClerkOf, OpNum, Ordered
<1> QED BY <1>11, <1>12, <1>13, <1>14, <1>15, <1>16, <1>17, Zenon DEF RInv

(* The table of last requests names the operation with number LastNum *)
LEMMA LastOfTable ==
  ASSUME TypeOK, RInv, NEW c \in Client, Newest.lastApplied[c] # None
  PROVE  /\ Newest.lastApplied[c] = <<c, LastNum(c)>>
         /\ \E n \in 1 .. Len(log) : ClerkOf(log[n]) = c /\ OpNum(log[n]) = LastNum(c)
<1>1. PICK n \in 1 .. Len(log) : ClerkOf(log[n]) = c /\ Newest.lastApplied[c] = OpOf(log[n]).id
  BY Zenon DEF RInv, TableFromLog
<1>2. log[n] \in Request
  BY LogFacts, Zenon
<1>3. OpOf(log[n]).id = <<c, OpNum(log[n])>>
  BY <1>1, <1>2, Zenon DEF RInv, Named
<1>4. LastNum(c) = OpNum(log[n])
  BY <1>1, <1>3, SMTT(40) DEF LastNum
<1> QED BY <1>1, <1>3, <1>4, Zenon

(* An operation of which a request has a result has taken effect *)
LEMMA ResultTookEffect ==
  ASSUME TypeOK, RInv, NEW c \in Client, NEW r \in Request,
         op[c] # None, OpOf(r) = op[c], HasResult(r), op[c].method # "Get"
  PROVE  OpNum(r) <= LastNum(c) /\ CheckApplied(Newest, op[c])
<1>1. PICK n \in 1 .. Len(log) : log[n] = r
  BY Zenon DEF RInv, Results, HasResult
<1>2. /\ op[c].client = c /\ op[c].id = <<c, count[c]>> /\ ClerkOf(r) = c
      /\ OpNum(r) = count[c]
  BY DEF RInv, Named, OpOf, ClerkOf, OpNum
<1>3. OpNum(r) <= LastNum(c)
  BY <1>1, <1>2, Zenon DEF RInv, WritesApplied
<1>4. OpNum(r) \in Nat \ {0} /\ LastNum(c) \in Nat
  BY RequestFacts, ClerkFacts, ZenonT(60)
<1>5. Newest.lastApplied[c] # None
  BY <1>3, <1>4 DEF LastNum
<1>6. PICK m \in 1 .. Len(log) : ClerkOf(log[m]) = c /\ OpNum(log[m]) = LastNum(c)
  BY <1>5, LastOfTable, Zenon
<1>7. LastNum(c) <= count[c]
  <2>1. log[m] \in Request
    BY LogFacts, ZenonT(40)
  <2> QED BY <1>6, <2>1, Zenon DEF RInv, Named
<1>8. LastNum(c) = count[c]
  BY <1>2, <1>3, <1>4, <1>7
<1> QED BY <1>2, <1>3, <1>5, <1>8, LastOfTable, Zenon DEF CheckApplied

(* A clerk takes a reply. When it ends the operation, that has taken effect. *)
LEMMA ReplyKeepsRInv ==
  ASSUME IInv, RInv, NEW c \in Client, Reply(c)
  PROVE  RInv'
<1>1. /\ TypeOK /\ RInv /\ CommittedInv /\ handler \in Seq(HandlerType)
  BY TypeParts, Zenon DEF IInv, RInv, CommittedInv
<1>0. PICK r \in Request : r = call[c]
  BY <1>1, Zenon DEF Reply, TypeOK
<1>2. UNCHANGED <<log, tail, states, count, applied, sending>>
  BY DEF Reply, raftVars, serverVars
<1>3. Request' = Request /\ \A q \in Request : handler'[q].op = handler[q].op
  BY <1>1, ReplyStepsKeepOps, Zenon
<1>4. DOMAIN handler = Request /\ \A q \in Request : handler[q] \in HandlerType
  BY <1>1, RequestType, LenProperties, Zenon DEF Request
<1>5. \A d \in Client : call'[d] = IF d = c THEN None ELSE call[d]
  BY <1>1, Zenon DEF Reply, TypeOK
<1>6. handler'[r].state = "gone" /\ \A q \in Request : q # r => handler'[q] = handler[q]
  BY <1>0, <1>4, Zenon DEF Reply, HandlerType
<1>7. \A q \in Request : HasResult(q)' => HasResult(q) /\ handler'[q].value = handler[q].value
  BY <1>6 DEF HasResult
<1>8. TailsInOrder' /\ SendingLast'
  <2>1. TailsInOrder'
    BY <1>1, <1>2, <1>3, TailsKept, Zenon DEF RInv
  <2>2. SendingLast'
    BY <1>1, <1>2, Zenon DEF RInv, SendingLast
  <2> QED BY <2>1, <2>2, SMTT(60)
<1>9. CASE UNCHANGED <<op, seen>>
  <2>1. CommittedInv'
    BY <1>1, <1>2, <1>3, <1>9, CommittedKept, ZenonT(40)
  <2>2. Calls' /\ Results'
    BY <1>1, <1>2, <1>3, <1>5, <1>7, <1>9, CallsAndResultsKept, Zenon DEF RInv
  <2> QED BY <1>8, <2>1, <2>2 DEF RInv, CommittedInv
<1>10. CASE /\ handler[r].state = "OK"
            /\ op' = [op EXCEPT ![c] = None] /\ seen' = [seen EXCEPT ![c] = {}]
  <2>1. /\ op'[c] = None /\ seen'[c] = {}
        /\ \A d \in Client : d # c => op'[d] = op[d] /\ seen'[d] = seen[d]
    BY <1>1, <1>10, Zenon DEF TypeOK
  <2>2. op[c] # None /\ OpOf(r) = op[c] /\ HasResult(r)
    <3>1. call[c] # None
      BY Zenon DEF Reply
    <3> QED BY <1>0, <1>1, <1>10, <3>1, ZenonT(40) DEF RInv, Calls, HasResult
  <2>3. \A d \in Client : count[d] \in Nat
    BY <1>1, ClerkFacts
  <2>4. \A q \in Request : ClerkOf(q) \in Client /\ OpNum(q) \in Nat
    BY <1>1, RequestFacts, Zenon
  <2>5. Named'
    <3>1. ASSUME NEW q \in Request
          PROVE  OpNum(q) = count[ClerkOf(q)] /\ op'[ClerkOf(q)] # None => OpOf(q) = op'[ClerkOf(q)]
      BY <1>1, <2>1, <2>4, Zenon DEF RInv, Named
    <3>2. \A d \in Client : op'[d] # None => op'[d].client = d /\ op'[d].id = <<d, count[d]>>
      BY <1>1, <2>1, Zenon DEF RInv, Named
    <3>3. \A q \in Request : /\ OpOf(q).id = <<ClerkOf(q), OpNum(q)>>
                             /\ OpNum(q) <= count[ClerkOf(q)]
      BY <1>1, Zenon DEF RInv, Named
    <3> QED BY <1>2, <1>3, <3>1, <3>2, <3>3, ZenonT(40) DEF Named, OpOf, ClerkOf, OpNum
  <2>6. Calls'
    <3>1. \A d \in Client : call[d] \in Request \cup {None}
      BY <1>1 DEF TypeOK
    <3> QED BY <1>1, <1>3, <1>5, <2>1, <3>1, ZenonT(60) DEF RInv, Calls, OpOf
  <2>7. TableFromLog' /\ WritesApplied'
    <3>1. \A n \in 1 .. Len(log) : log[n] \in Request
      BY <1>1, LogFacts, Zenon
    <3>2. TableFromLog'
      BY <1>1, <1>2, <1>3, <3>1, SMTT(40) DEF RInv, TableFromLog, OpOf, ClerkOf, Newest
    <3>3. WritesApplied'
      BY <1>1, <1>2, <1>3, <3>1, ZenonT(60) DEF RInv, WritesApplied, OpOf, ClerkOf, OpNum, LastNum, Newest
    <3> QED BY <3>2, <3>3
  <2>8. FinishedApplied'
    <3>1. ASSUME NEW q \in Request, OpOf(q).method # "Get",
                 OpNum(q) < count[ClerkOf(q)] \/ op'[ClerkOf(q)] = None
          PROVE  OpNum(q) <= LastNum(ClerkOf(q))
      <4>1. CASE OpNum(q) < count[ClerkOf(q)] \/ op[ClerkOf(q)] = None
        BY <1>1, <3>1, <4>1, Zenon DEF RInv, FinishedApplied
      <4>2. CASE ~(OpNum(q) < count[ClerkOf(q)] \/ op[ClerkOf(q)] = None)
        <5>1. ClerkOf(q) = c
          BY <2>1, <2>4, <3>1, <4>2, ZenonT(40)
        <5>2. OpNum(q) = count[c]
          BY <1>1, <2>3, <2>4, <4>2, <5>1, SMTT(40) DEF RInv, Named
        <5>3. OpOf(q) = op[c]
          BY <1>1, <2>2, <5>1, <5>2, Zenon DEF RInv, Named
        <5>4. OpNum(q) = OpNum(r) /\ op[c].method # "Get"
          BY <2>2, <3>1, <5>3, Zenon DEF OpNum, OpOf
        <5> QED BY <1>1, <2>2, <5>1, <5>4, ResultTookEffect, Zenon
      <4> QED BY <4>1, <4>2, Zenon
    <3>2. /\ Newest' = Newest /\ \A d : LastNum(d)' = LastNum(d)
          /\ \A q \in Request : OpOf(q)' = OpOf(q) /\ OpNum(q)' = OpNum(q) /\ ClerkOf(q)' = ClerkOf(q)
      <4>1. Newest' = Newest
        BY <1>2, Zenon DEF Newest
      <4> QED BY <1>3, <4>1, Zenon DEF OpOf, ClerkOf, OpNum, LastNum
    <3>3. count' = count
      BY <1>2
    <3> SUFFICES ASSUME NEW q \in Request, OpOf(q)'.method # "Get",
                        OpNum(q)' < count'[ClerkOf(q)'] \/ op'[ClerkOf(q)'] = None
                 PROVE  OpNum(q)' <= LastNum(ClerkOf(q))'
      BY <1>3, Zenon DEF FinishedApplied
    <3> QED BY <3>1, <3>2, <3>3, Zenon
  <2>9. SeenNow'
    BY <1>1, <1>2, <2>1, Zenon DEF RInv, SeenNow, Newest
  <2>10. SeenAtCommit'
    <3>1. \A n \in 1 .. Len(log) : log[n] \in Request
      BY <1>1, LogFacts
    <3>2. \A n \in 1 .. Len(log), d \in Client :
            op'[d] # None /\ OpOf(log[n]) = op'[d] => states[n + 1].data[op'[d].key] \in seen'[d]
      BY <1>1, <2>1, Zenon DEF RInv, SeenAtCommit
    <3> QED BY <1>2, <1>3, <3>1, <3>2, ZenonT(40) DEF SeenAtCommit, OpOf
  <2>11. Results'
    <3>1. ASSUME NEW q \in Request, HasResult(q)'
          PROVE  /\ \E n \in 1 .. Len(log) : log[n] = q
                 /\ \A d \in Client : op'[d] # None /\ op'[d] = OpOf(q)
                                        => handler'[q].value \in seen'[d]
      BY <1>1, <1>7, <2>1, <3>1, Zenon DEF RInv, Results, HasResult
    <3> QED BY <1>2, <1>3, <3>1, ZenonT(40) DEF Results, OpOf, HasResult
  <2> QED BY <1>8, <2>5, <2>6, <2>7, <2>8, <2>9, <2>10, <2>11, Zenon DEF RInv
<1> QED BY <1>0, <1>9, <1>10 DEF Reply

(* The command that is committed next is not older than those of its clerk   *)
(* in the log, and found in the table if its number is the last one there.   *)
LEMMA NextInOrder ==
  ASSUME IInv, RInv, NEW r \in Request, Commit(r)
  PROVE  /\ \A n \in 1 .. Len(log) : InOrder(log[n], r)
         /\ LastNum(ClerkOf(r)) <= OpNum(r)
         /\ LastNum(ClerkOf(r)) = OpNum(r) => CheckApplied(Newest, OpOf(r))
<1>1. TypeOK /\ RInv
  BY Zenon DEF IInv
<1>2. PICK l \in Server : tail[l] # None /\ tail[l] # <<>> /\ r = Head(tail[l])
  BY Zenon DEF Commit, LeaderCommit
<1>3. ClerkOf(r) \in Client /\ OpNum(r) \in Nat \ {0} /\ OpOf(r).id = <<ClerkOf(r), OpNum(r)>>
  BY <1>1, RequestFacts, Zenon DEF RInv, Named
<1>4. tail[l] \in Seq(Request) /\ Len(tail[l]) \in Nat /\ Len(tail[l]) # 0 /\ r = tail[l][1]
  <2>1. tail[l] \in Seq(Request) /\ Len(tail[l]) \in Nat
    BY <1>1, <1>2, LogFacts, Zenon
  <2>2. Len(tail[l]) # 0
    BY <1>2, <2>1, EmptySeq, ZenonT(60)
  <2> QED BY <1>2, <2>1, <2>2, HeadTailProperties
<1>5. \A n \in 1 .. Len(log) : InOrder(log[n], r)
  BY <1>1, <1>2, <1>4, SMTT(60) DEF RInv, TailsInOrder
<1>6. LastNum(ClerkOf(r)) <= OpNum(r)
  <2>1. CASE Newest.lastApplied[ClerkOf(r)] = None
    BY <1>3, <2>1, Counting, Zenon DEF LastNum
  <2>2. CASE Newest.lastApplied[ClerkOf(r)] # None
    <3>1. PICK n \in 1 .. Len(log) : /\ ClerkOf(log[n]) = ClerkOf(r)
                                     /\ OpNum(log[n]) = LastNum(ClerkOf(r))
      BY <1>1, <1>3, <2>2, LastOfTable, Zenon
    <3> QED BY <1>5, <3>1 DEF InOrder
  <2> QED BY <2>1, <2>2, Zenon
<1>7. ASSUME LastNum(ClerkOf(r)) = OpNum(r) PROVE CheckApplied(Newest, OpOf(r))
  <2>1. Newest.lastApplied[ClerkOf(r)] # None
    BY <1>3, <1>7, Zenon DEF LastNum
  <2>2. Newest.lastApplied[ClerkOf(r)] = OpOf(r).id
    BY <1>1, <1>3, <1>7, <2>1, LastOfTable, Zenon
  <2> QED BY <2>2, Zenon DEF CheckApplied, OpOf, ClerkOf
<1> QED BY <1>5, <1>6, <1>7

(* What a commit changes *)
LEMMA CommitFacts ==
  ASSUME TypeOK, NEW r \in Request, Commit(r)
  PROVE  /\ UNCHANGED <<handler, op, count, call, applied, sending, answer>> /\ Request' = Request
         /\ Len(log) \in Nat /\ Len(log') = Len(log) + 1 /\ log'[Len(log) + 1] = r
         /\ \A n \in 1 .. Len(log) : log'[n] = log[n] /\ states'[n + 1] = states[n + 1]
         /\ states'[Len(log) + 2] = ApplyOp(Newest, OpOf(r))
         /\ Newest' = ApplyOp(Newest, OpOf(r))
         /\ \A c \in Client : seen'[c] = IF op[c] = None THEN {}
                                         ELSE seen[c] \cup {ApplyOp(Newest, OpOf(r)).data[op[c].key]}
<1> DEFINE st == ApplyOp(Newest, handler[r].op)
<1>1. /\ UNCHANGED <<handler, op, count, call, applied, sending, answer>>
      /\ log' = Append(log, r) /\ states' = Append(states, st)
      /\ seen' = [c \in Client |-> IF op[c] = None THEN {}
                                   ELSE seen[c] \cup {st.data[op[c].key]}]
  BY Zenon DEF Commit, LeaderCommit, serverVars, clerkVars
<1>2. st \in KV /\ Len(states) \in Nat /\ Len(log) \in Nat
  BY NewestType, RequestType, ApplyOpType, Zenon
<1>3. log \in Seq(Request) /\ states \in Seq(KV) /\ Len(states) = Len(log) + 1
  BY ZenonT(40) DEF TypeOK
<1> HIDE DEF st
<1>4. /\ Len(log') = Len(log) + 1 /\ log'[Len(log) + 1] = r
      /\ \A n \in 1 .. Len(log) : log'[n] = log[n]
      /\ Len(states') = Len(states) + 1 /\ states'[Len(states) + 1] = st
      /\ \A n \in 1 .. Len(states) : states'[n] = states[n]
  BY <1>1, <1>2, <1>3, AppendProperties, SMTT(60)
<1>5. Len(log) + 2 = Len(states) + 1 /\ \A n \in 1 .. Len(log) : n + 1 \in 1 .. Len(states)
  BY <1>2, <1>3
<1>6. Newest' = st
  BY <1>4, ZenonT(40) DEF Newest
<1> QED BY <1>1, <1>2, <1>4, <1>5, <1>6, Zenon DEF st, OpOf, Request

(* What a command does to the table of last requests *)
LEMMA CommitTable ==
  ASSUME IInv, RInv, NEW r \in Request, Commit(r), NEW c \in Client
  PROVE  /\ LastNum(c) <= LastNum(c)'
         /\ OpOf(r).method # "Get" /\ c = ClerkOf(r) => OpNum(r) <= LastNum(c)'
         /\ \/ Newest'.lastApplied[c] = Newest.lastApplied[c]
            \/ Newest'.lastApplied[c] = OpOf(r).id /\ c = ClerkOf(r)
<1>1. TypeOK /\ TypeOK'
  BY CommitStep, Zenon DEF IInv
<1>2. Newest' = ApplyOp(Newest, OpOf(r))
  BY <1>1, CommitFacts, Zenon
<1>3. /\ ClerkOf(r) \in Client /\ OpOf(r).id \in Id /\ OpOf(r).id # None
      /\ OpNum(r) \in Nat /\ OpOf(r).client = ClerkOf(r) /\ OpOf(r).id[2] = OpNum(r)
  BY <1>1, RequestFacts, NoneIsNothing, ZenonT(40) DEF OpOf, ClerkOf, OpNum
<1>4. LastNum(c) \in Nat /\ LastNum(ClerkOf(r)) <= OpNum(r)
  BY <1>1, ClerkFacts, NextInOrder, Zenon
<1>5. Newest.lastApplied \in [Client -> Id \cup {None}]
  BY <1>1, NewestType, ZenonT(40) DEF KV
<1>6. CASE Executes(Newest, OpOf(r)) /\ c = ClerkOf(r)
  <2>1. Newest'.lastApplied[c] = OpOf(r).id
    BY <1>2, <1>3, <1>5, <1>6, Zenon DEF ApplyOp
  <2>2. LastNum(c)' = OpNum(r)
    BY <1>3, <2>1, ZenonT(40) DEF LastNum
  <2> QED BY <1>3, <1>4, <1>6, <2>1, <2>2, Counting, Zenon
<1>7. CASE ~(Executes(Newest, OpOf(r)) /\ c = ClerkOf(r))
  <2>1. Newest'.lastApplied[c] = Newest.lastApplied[c]
    BY <1>2, <1>3, <1>5, <1>7, Zenon DEF ApplyOp
  <2>2. LastNum(c)' = LastNum(c)
    BY <2>1, Zenon DEF LastNum
  <2>3. ASSUME OpOf(r).method # "Get", c = ClerkOf(r)
        PROVE  OpNum(r) = LastNum(c)
    <3>1. Newest.lastApplied[c] = OpOf(r).id
      BY <1>3, <1>7, <2>3, Zenon DEF Executes, CheckApplied
    <3> QED BY <1>3, <3>1, Zenon DEF LastNum
  <2>4. LastNum(c) <= LastNum(c)
    BY <1>4, Counting, Zenon
  <2> QED BY <2>1, <2>2, <2>3, <2>4, Zenon
<1> QED BY <1>6, <1>7, Zenon

(* A commit moves the first command of the tails that have it to the log *)
LEMMA CommitKeepsOrder ==
  ASSUME IInv, RInv, NEW r \in Request, Commit(r)
  PROVE  TailsInOrder'
<1>1. TypeOK /\ TailsInOrder
  BY DEF IInv, RInv
<1>2. /\ UNCHANGED handler /\ Len(log) \in Nat /\ Len(log') = Len(log) + 1
      /\ log'[Len(log) + 1] = r /\ \A n \in 1 .. Len(log) : log'[n] = log[n]
  BY <1>1, CommitFacts, ZenonT(40)
<1>3. tail' = [s \in Server |->
                 IF tail[s] # None /\ tail[s] # <<>> /\ Head(tail[s]) = r
                 THEN Tail(tail[s]) ELSE None]
  BY Zenon DEF Commit, LeaderCommit
<1>4. ASSUME NEW s \in Server, tail'[s] # None
      PROVE  /\ \A i, j \in 1 .. Len(tail'[s]) : i < j => InOrder(tail'[s][i], tail'[s][j])
             /\ \A n \in 1 .. Len(log'), i \in 1 .. Len(tail'[s]) : InOrder(log'[n], tail'[s][i])
  <2>1. tail[s] # None /\ tail[s] # <<>> /\ Head(tail[s]) = r /\ tail'[s] = Tail(tail[s])
    BY <1>3, <1>4, Zenon
  <2>2. tail[s] \in Seq(Request) /\ Len(tail[s]) \in Nat
    BY <1>1, <2>1, LogFacts, Zenon
  <2>3. /\ Len(tail[s]) # 0 /\ Len(tail'[s]) = Len(tail[s]) - 1 /\ r = tail[s][1]
        /\ \A i \in 1 .. Len(tail'[s]) : tail'[s][i] = tail[s][i + 1]
    BY <2>1, <2>2, EmptySeq, HeadTailProperties, SMTT(60)
  <2>4. \A i \in 1 .. Len(tail'[s]) : i + 1 \in 1 .. Len(tail[s]) /\ 1 < i + 1
    BY <2>2, <2>3, SMTT(40)
  <2>5. ASSUME NEW i \in 1 .. Len(tail'[s]), NEW j \in 1 .. Len(tail'[s]), i < j
        PROVE  InOrder(tail'[s][i], tail'[s][j])
    <3>1. i + 1 < j + 1
      BY <2>5, SMTT(60)
    <3> QED BY <1>1, <2>1, <2>3, <2>4, <3>1, Zenon DEF TailsInOrder
  <2>6. ASSUME NEW n \in 1 .. Len(log'), NEW i \in 1 .. Len(tail'[s])
        PROVE  InOrder(log'[n], tail'[s][i])
    <3>1. CASE n \in 1 .. Len(log)
      BY <1>1, <1>2, <2>1, <2>3, <2>4, <3>1, ZenonT(40) DEF TailsInOrder
    <3>2. CASE n = Len(log) + 1
      <4>1. 1 \in 1 .. Len(tail[s])
        BY <2>2, <2>3
      <4> QED BY <1>1, <1>2, <2>1, <2>3, <2>4, <3>2, <4>1, Zenon DEF TailsInOrder
    <3> QED BY <1>2, <3>1, <3>2, SMTT(40)
  <2> QED BY <2>5, <2>6, ZenonT(40)
<1> QED BY <1>2, <1>4, ZenonT(40) DEF TailsInOrder, InOrder, ClerkOf, OpNum

(* A commit keeps the rest: the log, the history and the table grow *)
LEMMA CommitKeepsRInv ==
  ASSUME IInv, RInv, NEW r \in Request, Commit(r)
  PROVE  RInv'
<1>1. TypeOK /\ RInv
  BY DEF IInv
<1> DEFINE st == ApplyOp(Newest, OpOf(r))
<1>2. /\ UNCHANGED <<handler, op, count, call, applied, sending>> /\ Request' = Request
      /\ Len(log) \in Nat /\ Len(log') = Len(log) + 1 /\ log'[Len(log) + 1] = r
      /\ \A n \in 1 .. Len(log) : log'[n] = log[n] /\ states'[n + 1] = states[n + 1]
      /\ states'[Len(log) + 2] = st /\ Newest' = st
      /\ \A c \in Client : seen'[c] = IF op[c] = None THEN {}
                                      ELSE seen[c] \cup {st.data[op[c].key]}
  BY <1>1, CommitFacts, ZenonT(40)
<1> HIDE DEF st
<1>3. \A n \in 1 .. Len(log') : n \in 1 .. Len(log) \/ n = Len(log) + 1
  <2>1. Len(log) \in Nat /\ Len(log') = Len(log) + 1
    BY <1>2, Zenon
  <2>2. 1 .. Len(log') = (1 .. Len(log)) \cup {Len(log) + 1}
    BY <2>1, Counting, Zenon
  <2> QED BY <2>2, Zenon
<1>4. 1 .. Len(log) \subseteq 1 .. Len(log') /\ Len(log) + 1 \in 1 .. Len(log')
  <2>1. Len(log) \in Nat /\ Len(log') = Len(log) + 1
    BY <1>2, Zenon
  <2>2. 1 .. Len(log') = (1 .. Len(log)) \cup {Len(log) + 1}
    BY <2>1, Counting, Zenon
  <2> QED BY <2>2, Zenon
<1>5. /\ \A q \in Request : /\ ClerkOf(q) \in Client /\ OpNum(q) \in Nat
                            /\ LastNum(ClerkOf(q)) \in Nat
      /\ \A n \in 1 .. Len(log) : log[n] \in Request
  BY <1>1, RequestFacts, ClerkFacts, LogFacts, Zenon
<1>6. Named' /\ Calls'
  BY <1>1, <1>2, Zenon DEF RInv, Named, Calls, OpOf, ClerkOf, OpNum
<1>7. TableFromLog'
  <2>1. ASSUME NEW c \in Client, Newest'.lastApplied[c] # None
        PROVE  \E n \in 1 .. Len(log') : ClerkOf(log'[n]) = c /\ Newest'.lastApplied[c] = OpOf(log'[n]).id
    <3>1. CASE Newest'.lastApplied[c] = Newest.lastApplied[c]
      <4>1. PICK n \in 1 .. Len(log) : ClerkOf(log[n]) = c /\ Newest.lastApplied[c] = OpOf(log[n]).id
        BY <1>1, <2>1, <3>1, ZenonT(40) DEF RInv, TableFromLog
      <4> QED BY <1>2, <1>4, <3>1, <4>1, ZenonT(40)
    <3>2. CASE Newest'.lastApplied[c] = OpOf(r).id /\ c = ClerkOf(r)
      BY <1>2, <1>4, <3>2, ZenonT(40)
    <3> QED BY <3>1, <3>2, CommitTable, Zenon
  <2> QED BY <1>2, <2>1, ZenonT(40) DEF TableFromLog, OpOf, ClerkOf
<1>8. \A c \in Client : LastNum(c)' \in Nat
  <2>1. Newest' \in KV
    <3>1. Newest \in KV /\ OpOf(r) \in Op
      BY <1>1, NewestType, RequestFacts, Zenon
    <3>2. st \in KV
      BY <3>1, ApplyOpType, Zenon DEF st
    <3> QED BY <1>2, <3>2, Zenon
  <2>2. \A c \in Client : Newest'.lastApplied[c] \in Id \cup {None}
    BY <2>1, Zenon DEF KV
  <2>3. \A x \in Id : x[2] \in Nat
    BY KVBounds, Counting, Zenon DEF Id
  <2>4. 0 \in Nat
    OBVIOUS
  <2> QED BY <2>2, <2>3, <2>4, ZenonT(60) DEF LastNum
<1>9. WritesApplied'
  <2>1. ASSUME NEW n \in 1 .. Len(log'), OpOf(log'[n]).method # "Get",
               NEW q \in Request, q = log'[n]
        PROVE  \A c \in Client : c = ClerkOf(q) => OpNum(q) <= LastNum(c)'
    <3>1. CASE n \in 1 .. Len(log)
      <4>1. OpNum(q) <= LastNum(ClerkOf(q))
        BY <1>1, <1>2, <2>1, <3>1, Zenon DEF RInv, WritesApplied
      <4> QED BY <1>5, <1>8, <4>1, CommitTable, SMTT(40)
    <3>2. CASE n = Len(log) + 1
      BY <1>2, <2>1, <3>2, CommitTable, Zenon
    <3> QED BY <1>3, <3>1, <3>2
  <2>2. \A n \in 1 .. Len(log') : log'[n] \in Request
    BY <1>2, <1>3, <1>5, Zenon
  <2> QED BY <1>2, <1>5, <2>1, <2>2, ZenonT(100) DEF WritesApplied, OpOf, ClerkOf, OpNum, LastNum
<1>10. FinishedApplied'
  <2>1. ASSUME NEW q \in Request, OpOf(q).method # "Get",
               OpNum(q) < count[ClerkOf(q)] \/ op[ClerkOf(q)] = None
        PROVE  \A c \in Client : c = ClerkOf(q) => OpNum(q) <= LastNum(c)'
    <3>1. OpNum(q) <= LastNum(ClerkOf(q))
      BY <1>1, <2>1, Zenon DEF RInv, FinishedApplied
    <3> QED BY <1>5, <1>8, <3>1, CommitTable, SMTT(40)
  <2> QED BY <1>2, <1>5, <2>1, ZenonT(40) DEF FinishedApplied, OpOf, ClerkOf, OpNum, LastNum
<1>11. SeenNow'
  BY <1>2, ZenonT(40) DEF SeenNow
<1>12. SeenAtCommit'
  <2>1. ASSUME NEW n \in 1 .. Len(log'), NEW c \in Client, op[c] # None, OpOf(log'[n]) = op[c]
        PROVE  states'[n + 1].data[op[c].key] \in seen'[c]
    <3>1. CASE n \in 1 .. Len(log)
      <4>1. states[n + 1].data[op[c].key] \in seen[c]
        BY <1>1, <1>2, <2>1, <3>1, Zenon DEF RInv, SeenAtCommit
      <4>2. states'[n + 1] = states[n + 1] /\ seen[c] \subseteq seen'[c]
        BY <1>2, <2>1, <3>1, Zenon
      <4> QED BY <4>1, <4>2, Zenon
    <3>2. CASE n = Len(log) + 1
      <4>1. n + 1 = Len(log) + 2
        BY <1>2, <3>2, LenProperties, TwoMore, Zenon
      <4> QED BY <1>2, <2>1, <4>1, ZenonT(40)
    <3> QED BY <1>3, <3>1, <3>2, Zenon
  <2> QED BY <1>2, <2>1, Zenon DEF SeenAtCommit, OpOf
<1>13. SendingLast'
  <2>1. \A s \in Server : applied[s] \in 0 .. Len(log)
    BY <1>1, ZenonT(40) DEF TypeOK
  <2>2. \A s \in Server : applied[s] > 0 => log'[applied[s]] = log[applied[s]]
    BY <1>2, <2>1, LenProperties, WithinLog, Zenon
  <2> QED BY <1>1, <1>2, <2>2, Zenon DEF RInv, SendingLast
<1>14. Results'
  <2>1. ASSUME NEW q \in Request, handler[q].state \in {"notified", "OK"}
        PROVE  /\ \E n \in 1 .. Len(log') : log'[n] = q
               /\ \A c \in Client : op[c] # None /\ op[c] = OpOf(q) => handler[q].value \in seen'[c]
    <3>1. PICK n \in 1 .. Len(log) : log[n] = q
      BY <1>1, <2>1, Zenon DEF RInv, Results
    <3>2. log'[n] = q /\ n \in 1 .. Len(log')
      BY <1>2, <1>4, <3>1, Zenon
    <3>3. \A c \in Client : op[c] # None /\ op[c] = OpOf(q) => handler[q].value \in seen'[c]
      BY <1>1, <1>2, <2>1, ZenonT(60) DEF RInv, Results
    <3> QED BY <3>2, <3>3, ZenonT(40)
  <2> QED BY <1>2, <2>1, Zenon DEF Results, OpOf
<1> QED BY <1>6, <1>7, <1>9, <1>10, <1>11, <1>12, <1>13, <1>14, CommitKeepsOrder, ZenonT(40) DEF RInv

(* Initially there are no requests and no operations *)
LEMMA InitRInv == Init => RInv
<1> SUFFICES ASSUME Init PROVE RInv
  OBVIOUS
<1>1. handler = <<>> /\ Len(handler) = 0 /\ log = <<>> /\ Len(log) = 0
  BY DEF Init, RaftInit
<1>2. Request = {} /\ 1 .. Len(log) = {}
  BY <1>1 DEF Request
<1>3. Newest = Fresh
  BY Zenon DEF Init, Newest
<1>4. /\ \A s \in Server : tail[s] = <<>> /\ Len(tail[s]) = 0 /\ sending[s] = None
      /\ \A c \in Client : op[c] = None /\ call[c] = None /\ seen[c] = {}
  BY DEF Init, RaftInit
<1>5. Named /\ Calls /\ FinishedApplied /\ SendingLast /\ Results
  BY <1>2, <1>4, Zenon DEF Named, Calls, FinishedApplied, SendingLast, Results
<1>6. TailsInOrder
  BY <1>4 DEF TailsInOrder
<1>7. TableFromLog /\ WritesApplied
  BY <1>2, <1>3, Zenon DEF TableFromLog, WritesApplied, Fresh
<1>8. SeenNow /\ SeenAtCommit
  BY <1>2, <1>4, Zenon DEF SeenNow, SeenAtCommit
<1> QED BY <1>5, <1>6, <1>7, <1>8 DEF RInv

(* Every step keeps RInv *)
LEMMA StepKeepsRInv ==
  ASSUME IInv, RInv, [Next]_vars
  PROVE  RInv'
<1>1. CASE UNCHANGED vars
  <2>1. TypeOK /\ CommittedInv /\ Calls /\ TailsInOrder /\ SendingLast /\ Results
    BY Zenon DEF IInv, RInv, CommittedInv
  <2>2. UNCHANGED <<log, tail, states, handler, op, count, seen, call, applied, sending>>
    BY <1>1, Zenon DEF vars, raftVars, serverVars, clerkVars, historyVars
  <2>3. Request' = Request
    BY <2>2, Zenon DEF Request
  <2>4. CommittedInv' /\ TailsInOrder'
    BY <2>1, <2>2, <2>3, CommittedKept, TailsKept, Zenon
  <2>5. Calls' /\ Results'
    BY <2>1, <2>2, <2>3, CallsAndResultsKept, Zenon DEF HasResult
  <2>6. SendingLast'
    BY <2>1, <2>2, Zenon DEF SendingLast
  <2> QED BY <2>4, <2>5, <2>6, Zenon DEF RInv, CommittedInv
<1>2. CASE \E s \in Server : \/ Elect(s) \/ RaftStep(s) \/ InstallSnapshot(s)
                             \/ WaitApplyCh(s) \/ ReadSnapshot(s) \/ Restart(s)
  BY <1>2, ServerKeepsRInv, Zenon
<1>3. CASE \E r \in Request : \/ Commit(r) \/ Register(r) \/ Notified(r)
                              \/ WaitTimeout(r) \/ removeCh(r)
  BY <1>3, CommitKeepsRInv, HandlerKeepsRInv, Zenon
<1>4. CASE \E c \in Client : \/ Begin(c) \/ Call(c) \/ WrongLeader(c) \/ Reply(c) \/ CallFails(c)
                             \/ \E s \in Server : FindLeader(c, s)
  BY <1>4, BeginKeepsRInv, CallKeepsRInv, ReplyKeepsRInv, ClerkKeepsRInv, Zenon
<1> QED BY <1>1, <1>2, <1>3, <1>4, Zenon DEF Next
-----------------------------------------------------------------------------
(* What the store of KVStore is in a state of the service *)
Effect == [c \in Client |-> op[c] # None /\ CheckApplied(Newest, op[c])]

(* A step that leaves the newest data and the operations alone is not seen *)
LEMMA StoreStutters ==
  ASSUME UNCHANGED <<states, op, seen, answer>>
  PROVE  UNCHANGED Store!vars
<1>1. Newest' = Newest
  BY DEF Newest
<1> QED BY <1>1, Zenon DEF Store!vars, CheckApplied

(* Begin is the call of the store: the operation is new to the table *)
LEMMA BeginIsCall ==
  ASSUME IInv, RInv, NEW c \in Client, Begin(c)
  PROVE  Store!Call(c)
<1>1. TypeOK /\ RInv
  BY DEF IInv
<1>2. PICK m \in {"Get", "Put", "Append"}, k \in Key :
        /\ op' = [op EXCEPT ![c] = [client |-> c, id |-> <<c, count[c] + 1>>,
                                    method |-> m, key |-> k]]
        /\ seen' = [seen EXCEPT ![c] = {Newest.data[k]}]
  BY Zenon DEF Begin
<1> DEFINE o == [client |-> c, id |-> <<c, count[c] + 1>>, method |-> m, key |-> k]
<1>3. /\ op[c] = None /\ Newest' = Newest /\ op'[c] = o
      /\ answer' = [answer EXCEPT ![c] = <<>>]
      /\ \A d \in Client : d # c => op'[d] = op[d]
  BY <1>1, <1>2, Zenon DEF Begin, TypeOK, Newest
<1>4. count[c] \in Nat /\ <<c, count[c] + 1>> \in Id
  <2>1. count[c] \in 0 .. MaxOps /\ count[c] < MaxOps
    BY <1>1, Zenon DEF Begin, TypeOK
  <2>2. count[c] + 1 \in 1 .. MaxOps /\ count[c] \in Nat
    BY <2>1, KVBounds, Counting, ZenonT(60)
  <2> QED BY <2>2, Zenon DEF Id
<1>5. Newest.lastApplied[c] # <<c, count[c] + 1>>
  <2> SUFFICES ASSUME Newest.lastApplied[c] = <<c, count[c] + 1>> PROVE FALSE
    OBVIOUS
  <2>1. Newest.lastApplied[c] # None
    BY <1>4, NoneIsNothing, Zenon
  <2>2. PICK n \in 1 .. Len(log) : ClerkOf(log[n]) = c /\ OpNum(log[n]) = LastNum(c)
    BY <1>1, <2>1, LastOfTable, ZenonT(40)
  <2>3. log[n] \in Request /\ LastNum(c) = count[c] + 1
    <3>1. log[n] \in Request
      BY <1>1, LogFacts, Zenon
    <3>2. <<c, count[c] + 1>>[2] = count[c] + 1
      BY Zenon
    <3> QED BY <2>1, <3>1, <3>2, Zenon DEF LastNum
  <2>4. OpNum(log[n]) <= count[c]
    BY <1>1, <2>2, <2>3, Zenon DEF RInv, Named
  <2> QED BY <1>4, <2>2, <2>3, <2>4, Counting, Zenon
<1>6. ~CheckApplied(Newest, o)
  BY <1>5, Zenon DEF CheckApplied
<1> HIDE DEF o
<1>7. Effect' = Effect
  BY <1>3, <1>6, ZenonT(40) DEF Effect, CheckApplied
<1> QED BY <1>2, <1>3, <1>4, <1>7, Zenon DEF Store!Call, Effect

(* A command that executes is for the operation its clerk waits for: if that *)
(* had ended, the table would have it.                                       *)
LEMMA ExecutesCurrent ==
  ASSUME IInv, RInv, NEW r \in Request, Commit(r), Executes(Newest, OpOf(r))
  PROVE  op[ClerkOf(r)] # None /\ OpOf(r) = op[ClerkOf(r)]
<1>1. TypeOK /\ RInv
  BY ZenonT(40) DEF IInv
<1>2. ClerkOf(r) \in Client /\ OpNum(r) \in Nat /\ LastNum(ClerkOf(r)) \in Nat
      /\ count[ClerkOf(r)] \in Nat
  <2>1. ClerkOf(r) \in Client /\ OpNum(r) \in Nat \ {0}
    BY <1>1, RequestFacts, Zenon
  <2>2. OpNum(r) \in Nat
    BY <2>1, Zenon
  <2> QED BY <1>1, <2>1, <2>2, ClerkFacts, Zenon
<1>3. OpOf(r).method # "Get" /\ ~CheckApplied(Newest, OpOf(r))
  BY Zenon DEF Executes
<1>4. LastNum(ClerkOf(r)) < OpNum(r)
  BY <1>2, <1>3, NextInOrder, SMTT(40)
<1>5. ~(OpNum(r) < count[ClerkOf(r)]) /\ op[ClerkOf(r)] # None
  <2>1. ~(OpNum(r) <= LastNum(ClerkOf(r)))
    BY <1>2, <1>4
  <2> QED BY <1>1, <1>3, <2>1, Zenon DEF RInv, FinishedApplied
<1>6. OpNum(r) <= count[ClerkOf(r)]
  BY <1>1, Zenon DEF RInv, Named
<1>7. OpNum(r) = count[ClerkOf(r)]
  <2> DEFINE n == OpNum(r)
             m == count[ClerkOf(r)]
  <2>1. n \in Nat /\ m \in Nat /\ ~(n < m) /\ n <= m
    BY <1>2, <1>5, <1>6, Zenon
  <2> HIDE DEF n, m
  <2>2. n = m
    BY <2>1
  <2> QED BY <2>2 DEF n, m
<1> QED BY <1>1, <1>5, <1>7, Zenon DEF RInv, Named

(* The first commit of a Put or Append is its effect; any other commit is    *)
(* not seen.                                                                 *)
LEMMA CommitIsEffect ==
  ASSUME IInv, RInv, NEW r \in Request, Commit(r)
  PROVE  (\E c \in Client : Store!TakeEffect(c)) \/ UNCHANGED Store!vars
<1>1. TypeOK /\ RInv
  BY DEF IInv
<1> DEFINE o == OpOf(r)
           st == ApplyOp(Newest, o)
<1>2. /\ UNCHANGED <<handler, op, answer>> /\ Newest' = st
      /\ \A c \in Client : seen'[c] = IF op[c] = None THEN {}
                                      ELSE seen[c] \cup {st.data[op[c].key]}
  BY <1>1, CommitFacts, Zenon
<1>3. seen \in [Client -> SUBSET Seq(Id)] /\ seen' \in [Client -> SUBSET Seq(Id)]
  BY <1>1, CommitStep, ZenonT(40) DEF TypeOK, IInv
<1>4. CASE ~Executes(Newest, o)
  <2>1. st = Newest
    BY <1>4, Zenon DEF ApplyOp
  <2> HIDE DEF st
  <2>2. ASSUME NEW c \in Client PROVE seen'[c] = seen[c]
    <3>1. CASE op[c] = None
      BY <1>1, <1>2, <3>1, Zenon DEF RInv, SeenNow
    <3>2. CASE op[c] # None
      <4>1. Newest.data[op[c].key] \in seen[c]
        BY <1>1, <3>2, Zenon DEF RInv, SeenNow
      <4>2. seen'[c] = seen[c] \cup {Newest.data[op[c].key]}
        BY <1>2, <2>1, <3>2, ZenonT(40)
      <4> QED BY <4>1, <4>2, Zenon
    <3> QED BY <3>1, <3>2, Zenon
  <2>3. seen' = seen
    <3>1. seen = [c \in Client |-> seen[c]] /\ seen' = [c \in Client |-> seen'[c]]
      BY <1>3, Zenon
    <3>2. [c \in Client |-> seen'[c]] = [c \in Client |-> seen[c]]
      BY <2>2, Zenon
    <3> QED BY <3>1, <3>2, Zenon
  <2>4. Newest' = Newest
    BY <1>2, <2>1, Zenon
  <2> QED BY <1>2, <2>3, <2>4, Zenon DEF Store!vars, CheckApplied
<1>5. CASE Executes(Newest, o)
  <2>1. PICK c \in Client : c = ClerkOf(r)
    BY <1>1, RequestFacts
  <2>2. /\ op[c] # None /\ o = op[c] /\ o.method # "Get" /\ ~CheckApplied(Newest, op[c])
        /\ o.client = c /\ o.key \in Key /\ o.id \in Id
    BY <1>1, <1>5, <2>1, ExecutesCurrent, RequestFacts, Zenon DEF Executes, OpOf, ClerkOf
  <2> DEFINE v == IF o.method = "Put" THEN <<o.id>> ELSE Append(Newest.data[o.key], o.id)
  <2>3. Newest.data \in [Key -> Seq(Id)] /\ Newest.lastApplied \in [Client -> Id \cup {None}]
    BY <1>1, NewestType, Zenon DEF KV
  <2>4. /\ st.data = [Newest.data EXCEPT ![o.key] = v]
        /\ st.lastApplied = [Newest.lastApplied EXCEPT ![c] = o.id]
    BY <1>5, <2>2, Zenon DEF ApplyOp
  <2> HIDE DEF st, v
  <2>5. st.data[o.key] = v /\ \A k \in Key : k # o.key => st.data[k] = Newest.data[k]
    BY <2>2, <2>3, <2>4, Zenon
  <2>6. seen' = [d \in Client |-> IF op[d] # None /\ op[d].key = o.key
                                  THEN seen[d] \cup {v} ELSE seen[d]]
    <3>1. ASSUME NEW d \in Client
          PROVE  seen'[d] = IF op[d] # None /\ op[d].key = o.key
                            THEN seen[d] \cup {v} ELSE seen[d]
      <4>1. CASE op[d] = None
        BY <1>1, <1>2, <4>1, Zenon DEF RInv, SeenNow
      <4>2. CASE op[d] # None /\ op[d].key = o.key
        BY <1>2, <2>5, <4>2, ZenonT(40)
      <4>3. CASE op[d] # None /\ op[d].key # o.key
        <5>1. op[d].key \in Key
          BY <1>1, <4>3, ClerkFacts, Zenon
        <5>2. st.data[op[d].key] = Newest.data[op[d].key]
          BY <2>5, <4>3, <5>1, Zenon
        <5>3. Newest.data[op[d].key] \in seen[d]
          BY <1>1, <4>3, Zenon DEF RInv, SeenNow
        <5>4. seen'[d] = seen[d] \cup {st.data[op[d].key]}
          BY <1>2, <4>3, Zenon
        <5>5. seen'[d] = seen[d]
          BY <5>2, <5>3, <5>4, Zenon
        <5> QED BY <4>3, <5>5, Zenon
      <4> QED BY <4>1, <4>2, <4>3, Zenon
    <3> QED BY <1>3, <3>1, Zenon
  <2>7. Effect' = [Effect EXCEPT ![c] = TRUE]
    <3>1. ASSUME NEW d \in Client
          PROVE  (op[d] # None /\ CheckApplied(st, op[d]))
                   <=> (d = c \/ (op[d] # None /\ CheckApplied(Newest, op[d])))
      <4>1. CASE d = c
        BY <2>2, <2>3, <2>4, <4>1, Zenon DEF CheckApplied
      <4>2. CASE d # c
        <5>1. op[d] # None => op[d].client = d
          BY <1>1, Zenon DEF RInv, Named
        <5> QED BY <2>3, <2>4, <4>2, <5>1, ZenonT(40) DEF CheckApplied
      <4> QED BY <4>1, <4>2, Zenon
    <3>2. Effect' = [d \in Client |-> op[d] # None /\ CheckApplied(st, op[d])]
      BY <1>2, Zenon DEF Effect, CheckApplied
    <3> QED BY <3>1, <3>2, Zenon DEF Effect
  <2>8. Newest'.data = [Newest.data EXCEPT ![o.key] = v]
    BY <1>2, <2>4, Zenon
  <2>9. ~Effect[c]
    BY <2>2, ZenonT(40) DEF Effect
  <2>10. v = Store!Written(op[c], Newest.data[op[c].key])
    BY <2>2, Zenon DEF v, Store!Written
  <2>11. Newest'.data = [Newest.data EXCEPT ![op[c].key] = Store!Written(op[c], Newest.data[op[c].key])]
    BY <2>2, <2>8, <2>10, Zenon
  <2>12. seen' = [d \in Client |-> IF op[d] # None /\ op[d].key = op[c].key
                                   THEN seen[d] \cup {Store!Written(op[c], Newest.data[op[c].key])}
                                   ELSE seen[d]]
    BY <2>2, <2>6, <2>10, Zenon
  <2>13. Store!TakeEffect(c)
    BY <1>2, <2>2, <2>7, <2>9, <2>11, <2>12, ZenonT(40) DEF Store!TakeEffect, Effect
  <2> QED BY <2>13, Zenon
<1> QED BY <1>4, <1>5, Zenon

(* A reply with OK is the return of the operation *)
LEMMA ReplyIsReturn ==
  ASSUME IInv, RInv, NEW c \in Client, Reply(c)
  PROVE  Store!Return(c) \/ UNCHANGED Store!vars
<1>1. TypeOK /\ RInv
  BY DEF IInv
<1>2. PICK r \in Request : r = call[c]
  BY <1>1, Zenon DEF Reply, TypeOK
<1>3. UNCHANGED states /\ Newest' = Newest
  BY Zenon DEF Reply, Newest
<1>4. CASE UNCHANGED <<op, seen, answer>>
  BY <1>3, <1>4, StoreStutters, Zenon
<1>5. CASE /\ handler[r].state = "OK"
           /\ op' = [op EXCEPT ![c] = None] /\ seen' = [seen EXCEPT ![c] = {}]
           /\ answer' = IF op[c].method = "Get" THEN [answer EXCEPT ![c] = handler[r].value]
                        ELSE answer
  <2>1. op[c] # None /\ OpOf(r) = op[c] /\ HasResult(r)
    <3>1. call[c] # None
      BY DEF Reply
    <3> QED BY <1>1, <1>2, <1>5, <3>1, ZenonT(40) DEF RInv, Calls, HasResult
  <2>2. handler[r].value \in seen[c]
    BY <1>1, <2>1, Zenon DEF RInv, Results, HasResult
  <2>3. op[c].method # "Get" => Effect[c]
    BY <1>1, <2>1, ResultTookEffect, ZenonT(40) DEF Effect
  <2>4. op'[c] = None /\ \A d \in Client : d # c => op'[d] = op[d]
    BY <1>1, <1>5, Zenon DEF TypeOK
  <2>5. Effect' = [Effect EXCEPT ![c] = FALSE]
    <3>1. Effect' = [d \in Client |-> op'[d] # None /\ CheckApplied(Newest, op'[d])]
      BY <1>3, Zenon DEF Effect, CheckApplied
    <3> QED BY <2>4, <3>1, Zenon DEF Effect
  <2>6. Store!Return(c)
    BY <1>3, <1>5, <2>1, <2>2, <2>3, <2>5, ZenonT(40) DEF Store!Return, Effect
  <2> QED BY <2>6
<1> QED BY <1>2, <1>4, <1>5, Zenon DEF Reply

(* Every other step is not seen *)
LEMMA StepIsStoreStep ==
  ASSUME IInv, RInv, [Next]_vars
  PROVE  [Store!Next]_(Store!vars)
<1>1. CASE UNCHANGED vars
  BY <1>1, StoreStutters, Zenon DEF vars, clerkVars, historyVars
<1>2. ASSUME NEW s \in Server,
             \/ Elect(s) \/ RaftStep(s) \/ InstallSnapshot(s)
             \/ WaitApplyCh(s) \/ ReadSnapshot(s) \/ Restart(s)
      PROVE  UNCHANGED Store!vars
  <2>1. UNCHANGED <<states, op, seen, answer>>
    BY <1>2, Zenon DEF Elect, RaftStep, InstallSnapshot, WaitApplyCh, ReadSnapshot, Restart,
                clerkVars, historyVars
  <2> QED BY <2>1, StoreStutters
<1>3. ASSUME NEW r \in Request, Register(r) \/ Notified(r) \/ WaitTimeout(r) \/ removeCh(r)
      PROVE  UNCHANGED Store!vars
  <2>1. UNCHANGED <<states, op, seen, answer>>
    BY <1>3, Zenon DEF Register, Notified, WaitTimeout, removeCh, clerkVars, historyVars
  <2> QED BY <2>1, StoreStutters, Zenon
<1>4. ASSUME NEW c \in Client,
             Call(c) \/ WrongLeader(c) \/ CallFails(c) \/ \E s \in Server : FindLeader(c, s)
      PROVE  UNCHANGED Store!vars
  <2>1. UNCHANGED <<states, op, seen, answer>>
    BY <1>4, Zenon DEF Call, WrongLeader, CallFails, FindLeader, historyVars
  <2> QED BY <2>1, StoreStutters
<1>5. ASSUME NEW c \in Client, Begin(c) \/ Reply(c)
      PROVE  [Store!Next]_(Store!vars)
  BY <1>5, BeginIsCall, ReplyIsReturn, Zenon DEF Store!Next
<1>6. ASSUME NEW r \in Request, Commit(r)
      PROVE  [Store!Next]_(Store!vars)
  BY <1>6, CommitIsEffect, Zenon DEF Store!Next
<1>7. CASE \E s \in Server : \/ Elect(s) \/ RaftStep(s) \/ InstallSnapshot(s)
                             \/ WaitApplyCh(s) \/ ReadSnapshot(s) \/ Restart(s)
  BY <1>2, <1>7, Zenon
<1>8. CASE \E r \in Request : \/ Commit(r) \/ Register(r) \/ Notified(r)
                              \/ WaitTimeout(r) \/ removeCh(r)
  BY <1>3, <1>6, <1>8, Zenon
<1>9. CASE \E c \in Client : \/ Begin(c) \/ Call(c) \/ WrongLeader(c) \/ Reply(c) \/ CallFails(c)
                             \/ \E s \in Server : FindLeader(c, s)
  BY <1>4, <1>5, <1>9, Zenon
<1> QED BY <1>1, <1>7, <1>8, <1>9, Zenon DEF Next

(* The empty servers are the empty store *)
LEMMA InitIsStoreInit == Init => Store!Init
<1> SUFFICES ASSUME Init PROVE Store!Init
  OBVIOUS
<1>1. Newest = Fresh /\ Newest.data = [k \in Key |-> <<>>]
  BY DEF Init, Newest, Fresh
<1>2. [c \in Client |-> op[c] # None /\ CheckApplied(Newest, op[c])] = [c \in Client |-> FALSE]
  BY Zenon DEF Init
<1> QED BY <1>1, <1>2, ZenonT(40) DEF Init, Store!Init

(* To its clerks kvraft is one key/value store: each Put and Append takes    *)
(* effect once, between its call and its return, and a Get returns a value   *)
(* its key had in that time, for any number of servers, clerks, keys,        *)
(* requests, lost and repeated calls, elections, snapshots and restarts.     *)
THEOREM Linearizable == Spec => ImplementsKVStore
<1>1. Init => IInv /\ RInv
  BY InitInv, InitRInv, Zenon
<1>2. IInv /\ RInv /\ [Next]_vars => (IInv /\ RInv)'
  BY StepKeepsInv, StepKeepsRInv
<1>3. IInv /\ RInv /\ [Next]_vars => [Store!Next]_(Store!vars)
  BY StepIsStoreStep
<1> QED BY <1>1, <1>2, <1>3, InitIsStoreInit, PTL DEF Spec, ImplementsKVStore, Store!Spec
=============================================================================
