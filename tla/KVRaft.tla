------------------------------- MODULE KVRaft -------------------------------
(***************************************************************************)
(* The key/value service of kvraft: its servers (server.go), its clerks    *)
(* (client.go), and below them a Raft that keeps the promise of module     *)
(* ReplicatedLog. Of Raft a service sees the committed log, who takes      *)
(* commands, and that a command it started may be lost.                    *)
(*                                                                         *)
(* kv.mu is not a variable: a critical section is one step, except that    *)
(* WaitApplyCh holds the mutex while it sends on a waiter's channel, which *)
(* has no buffer. While sending[s] # None no other section of s can run.   *)
(***************************************************************************)
EXTENDS RaftService

CONSTANTS
  Client, Key,
  MaxRaftState,  \* a snapshot is taken at this size
  MaxOps,        \* operations of one clerk
  MaxRequests,   \* RPCs that reach a server, of all clerks
  MaxFaults      \* restarts, leaders replaced while they run, calls that fail

ASSUME KVBounds == /\ MaxOps \in Nat /\ MaxRequests \in Nat
                   /\ MaxRaftState \in Nat /\ MaxFaults \in Nat
                   /\ None \notin Server

VARIABLES
  \* the servers
  kv,           \* kv[s]: data and lastApplied
  applied,      \* applied[s]: how much of the log s has taken from applyCh
  notifyData,   \* notifyData[s]: the requests that wait for a result
  sending,      \* sending[s]: the request WaitApplyCh is sending to, or None
  snapshot,     \* snapshot[s]: the snapshot on the disk of s, with its index
  handler,      \* handler[r]: the RPC handler that runs request r
  \* the clerks
  op,           \* op[c]: the operation c performs, or None
  count,        \* count[c]: how many it has begun
  leaderId, Term,  \* whom c takes for the leader, and in which term
  call,         \* call[c]: the request c waits for, or None
  \* history
  states,       \* states[n + 1]: kv after the first n commands of the log
  seen,         \* seen[c]: the values the key of op[c] has had since the call
  answer,       \* answer[c]: what the Get that c has just finished returned
  faults

serverVars == <<kv, applied, notifyData, sending, snapshot>>
clerkVars == <<op, count, leaderId, Term, call>>
historyVars == <<states, seen, answer>>
vars == <<raftVars, serverVars, handler, clerkVars, historyVars, faults>>

Request == 1 .. Len(handler)
Id == Client \X (1 .. MaxOps)
Op == [client : Client, id : Id, method : {"Get", "Put", "Append"}, key : Key]
KV == [data : [Key -> Seq(Id)], lastApplied : [Client -> Id \cup {None}]]

ASSUME NoneIsNothing == None \notin Nat /\ None \notin Id /\ None \notin Op

Fresh == [data |-> [k \in Key |-> <<>>], lastApplied |-> [c \in Client |-> None]]
Newest == states[Len(states)]

Init ==
  /\ RaftInit
  /\ states = <<Fresh>>
  /\ kv = [s \in Server |-> Fresh]
  /\ applied = [s \in Server |-> 0]
  /\ notifyData = [s \in Server |-> {}]
  /\ sending = [s \in Server |-> None]
  /\ snapshot = [s \in Server |-> [index |-> 0, kv |-> Fresh]]
  /\ handler = <<>>
  /\ op = [c \in Client |-> None]
  /\ count = [c \in Client |-> 0]
  /\ leaderId = [c \in Client |-> None]
  /\ Term = [c \in Client |-> 0]
  /\ call = [c \in Client |-> None]
  /\ seen = [c \in Client |-> {}]
  /\ answer = [c \in Client |-> <<>>]
  /\ faults = 0
-----------------------------------------------------------------------------
(* The bound on faults: a step with cond is one *)
Fault(cond) ==
  /\ cond => faults < MaxFaults
  /\ faults' = IF cond THEN faults + 1 ELSE faults
-----------------------------------------------------------------------------
(* What a command does to the data and to lastApplied *)

CheckApplied(st, o) == st.lastApplied[o.client] = o.id

(* Mutant of Executes: without the check for repeated requests *)
ExecutesAlways(st, o) == o.method # "Get"

Executes(st, o) == o.method # "Get" /\ ~CheckApplied(st, o)

ApplyOp(st, o) ==
  IF ~Executes(st, o) THEN st
  ELSE [data |-> [st.data EXCEPT ![o.key] =
                    IF o.method = "Put" THEN <<o.id>> ELSE Append(@, o.id)],
        lastApplied |-> [st.lastApplied EXCEPT ![o.client] = o.id]]
-----------------------------------------------------------------------------
(* Raft *)

Elect(s) ==
  /\ Election(s)
  /\ Fault(HasLeader)
  /\ UNCHANGED <<serverVars, handler, clerkVars, historyVars>>

RaftStep(s) ==
  /\ StepDown(s) \/ AppendEntries(s)
  /\ UNCHANGED <<serverVars, handler, clerkVars, historyVars, faults>>

Commit(r) ==
  /\ LeaderCommit(r)
  /\ LET st == ApplyOp(Newest, handler[r].op)
     IN  /\ states' = Append(states, st)
         /\ seen' = [c \in Client |-> IF op[c] = None THEN {}
                                      ELSE seen[c] \cup {st.data[op[c].key]}]
  /\ UNCHANGED <<serverVars, handler, clerkVars, answer, faults>>
-----------------------------------------------------------------------------
(* The handlers Get and PutAppend, and waitForRaft *)

SetState(r, st) == handler' = [handler EXCEPT ![r].state = st]

(* A handler returns; nobody may be waiting for its reply any more *)
Respond(r, st) ==
  SetState(r, IF \E c \in Client : call[c] = r THEN st ELSE "gone")

Register(r) ==
  LET s == handler[r].server IN
  /\ handler[r].state = "started"
  /\ sending[s] = None
  /\ notifyData' = [notifyData EXCEPT ![s] = @ \cup {r}]
  /\ SetState(r, "waiting")
  /\ UNCHANGED <<raftVars, kv, applied, sending, snapshot, clerkVars, historyVars, faults>>

(* The waiter takes the result from its channel *)
Notified(r) ==
  LET s == handler[r].server IN
  /\ handler[r].state = "waiting"
  /\ sending[s] = r
  /\ handler' = [handler EXCEPT ![r].state = "notified",
                                ![r].value = kv[s].data[handler[r].op.key]]
  /\ sending' = [sending EXCEPT ![s] = None]
  /\ UNCHANGED <<raftVars, kv, applied, notifyData, snapshot, clerkVars, historyVars, faults>>

WaitTimeout(r) ==
  /\ handler[r].state = "waiting"
  /\ SetState(r, "timedout")
  /\ UNCHANGED <<raftVars, serverVars, clerkVars, historyVars, faults>>

removeCh(r) ==
  LET s == handler[r].server IN
  /\ handler[r].state \in {"notified", "timedout"}
  /\ sending[s] = None
  /\ notifyData' = [notifyData EXCEPT ![s] = @ \ {r}]
  /\ Respond(r, IF handler[r].state = "notified" THEN "OK" ELSE "ErrTimeOut")
  /\ UNCHANGED <<raftVars, kv, applied, sending, snapshot, clerkVars, historyVars, faults>>
-----------------------------------------------------------------------------
(* The goroutine WaitApplyCh. The size of the Raft state is the number of    *)
(* committed commands that no snapshot contains.                             *)

(* Mutant of saveSnapshot: the snapshot claims the next command as well *)
SaveSnapshotNext(s, index, st) ==
  snapshot' = [snapshot EXCEPT ![s] = [index |-> index + 1, kv |-> st]]

saveSnapshot(s, index, st) ==
  IF index - snapshot[s].index < MaxRaftState THEN UNCHANGED snapshot
  ELSE snapshot' = [snapshot EXCEPT ![s] = [index |-> index, kv |-> st]]

WaitApplyCh(s) ==
  LET n == applied[s] + 1
      r == log[n]
      st == ApplyOp(kv[s], handler[r].op)
  IN  /\ sending[s] = None
      /\ n <= Len(log)
      /\ applied' = [applied EXCEPT ![s] = n]
      /\ kv' = [kv EXCEPT ![s] = st]
      /\ saveSnapshot(s, n, st)
      /\ sending' = [sending EXCEPT ![s] = IF r \in notifyData[s] THEN r ELSE None]
      /\ UNCHANGED <<raftVars, notifyData, handler, clerkVars, historyVars, faults>>

(* Raft puts the snapshot of the leader on the disk of s ...                 *)
InstallSnapshot(s) ==
  /\ \E l \in Server :
       /\ Leading(l)
       /\ snapshot[l].index > snapshot[s].index
       /\ snapshot' = [snapshot EXCEPT ![s] = snapshot[l]]
  /\ UNCHANGED <<raftVars, kv, applied, notifyData, sending, handler, clerkVars, historyVars, faults>>

(* Mutant of Load: only the data are loaded, not the table of last requests *)
LoadData(s) == [kv[s] EXCEPT !.data = snapshot[s].kv.data]

Load(s) == snapshot[s].kv

(* ... and the service is told to load it. Assumed here: the snapshot it     *)
(* finds is the one of the message, whose index Raft takes for lastApplied.  *)
(* Raft has the message and the snapshot apart: see the run raft_late.       *)
ReadSnapshot(s) ==
  /\ sending[s] = None
  /\ snapshot[s].index > applied[s]
  /\ kv' = [kv EXCEPT ![s] = Load(s)]
  /\ applied' = [applied EXCEPT ![s] = snapshot[s].index]
  /\ UNCHANGED <<raftVars, notifyData, sending, snapshot, handler, clerkVars, historyVars, faults>>

(* Kill, and StartKVServer on the same disk *)
Restart(s) ==
  /\ Fault(TRUE)
  /\ Make(s)
  /\ kv' = [kv EXCEPT ![s] = Load(s)]
  /\ applied' = [applied EXCEPT ![s] = snapshot[s].index]
  /\ notifyData' = [notifyData EXCEPT ![s] = {}]
  /\ sending' = [sending EXCEPT ![s] = None]
  /\ handler' = [r \in Request |->
                   IF handler[r].server = s
                   THEN [handler[r] EXCEPT !.state = "gone"] ELSE handler[r]]
  /\ UNCHANGED <<snapshot, clerkVars, historyVars>>
-----------------------------------------------------------------------------
(* The clerks *)

Begin(c) ==
  /\ op[c] = None
  /\ count[c] < MaxOps
  /\ count' = [count EXCEPT ![c] = @ + 1]
  /\ \E m \in {"Get", "Put", "Append"}, k \in Key :
       /\ op' = [op EXCEPT ![c] = [client |-> c, id |-> <<c, count[c] + 1>>,
                                   method |-> m, key |-> k]]
       /\ seen' = [seen EXCEPT ![c] = {Newest.data[k]}]
  /\ answer' = [answer EXCEPT ![c] = <<>>]
  /\ UNCHANGED <<raftVars, states, serverVars, handler, leaderId, Term, call, faults>>

(* A request reaches a server that believes to lead, and the handler calls   *)
(* Start. Get asks GetState first: that and Start either both find a leader  *)
(* or end in ErrWrongLeader, so the two are one. A lost request has no effect. *)
Call(c) ==
  LET s == leaderId[c]
      r == Len(handler) + 1
  IN  /\ op[c] # None /\ call[c] = None
      /\ s # None
      /\ r <= MaxRequests
      /\ Start(s, r)
      /\ handler' = Append(handler, [server |-> s, op |-> op[c],
                                     state |-> "started", value |-> <<>>])
      /\ call' = [call EXCEPT ![c] = r]
      /\ UNCHANGED <<serverVars, op, count, leaderId, Term, historyVars, faults>>

(* ErrWrongLeader: the clerk starts a round of FindLeader, which forgets the *)
(* leader, and waits for its result.                                         *)
WrongLeader(c) ==
  /\ op[c] # None /\ call[c] = None
  /\ leaderId[c] # None
  /\ leads[leaderId[c]] = 0
  /\ leaderId' = [leaderId EXCEPT ![c] = None]
  /\ UNCHANGED <<raftVars, serverVars, handler, op, count, Term, call, historyVars, faults>>

(* The reply arrives. OK ends the operation; after ErrTimeOut the clerk      *)
(* looks for the leader and repeats the request.                             *)
Reply(c) ==
  LET r == call[c]
      o == op[c]
  IN  /\ r # None
      /\ \/ /\ handler[r].state = "OK"
            /\ op' = [op EXCEPT ![c] = None]
            /\ seen' = [seen EXCEPT ![c] = {}]
            /\ answer' = IF o.method = "Get" THEN [answer EXCEPT ![c] = handler[r].value] ELSE answer
            /\ UNCHANGED leaderId
         \/ /\ handler[r].state = "ErrTimeOut"
            /\ leaderId' = [leaderId EXCEPT ![c] = None]
            /\ UNCHANGED <<op, seen, answer>>
      /\ handler' = [handler EXCEPT ![r].state = "gone", ![r].value = <<>>]
      /\ call' = [call EXCEPT ![c] = None]
      /\ UNCHANGED <<raftVars, states, serverVars, count, Term, faults>>

(* Call returns false: the reply is lost, or the server is cut off or dead.  *)
(* labrpc looks for that every 100 ms, when a live handler has called Start. *)
CallFails(c) ==
  LET r == call[c]
  IN  /\ r # None
      /\ Fault(handler[r].state # "gone")
      /\ call' = [call EXCEPT ![c] = None]
      /\ handler' = [handler EXCEPT ![r] =
                       IF @.state \in {"OK", "ErrTimeOut"}
                       THEN [@ EXCEPT !.state = "gone", !.value = <<>>] ELSE @]
      /\ UNCHANGED <<raftVars, serverVars, op, count, leaderId, Term, historyVars>>

(* Mutant of IsNewsOfLeader: only a later term counts as news *)
IsNewerLeader(c, s) == leads[s] > Term[c]

IsNewsOfLeader(c, s) == leads[s] > 0 /\ leads[s] >= Term[c]

(* In a round of FindLeader s answers that it leads. Other answers, and lost *)
(* ones, have no effect.                                                     *)
FindLeader(c, s) ==
  /\ op[c] # None /\ call[c] = None
  /\ IsNewsOfLeader(c, s)
  /\ leaderId[c] # s
  /\ leaderId' = [leaderId EXCEPT ![c] = s]
  /\ Term' = [Term EXCEPT ![c] = leads[s]]
  /\ UNCHANGED <<raftVars, serverVars, handler, op, count, call, historyVars, faults>>
-----------------------------------------------------------------------------
Next ==
  \/ \E s \in Server :
       \/ Elect(s) \/ RaftStep(s) \/ InstallSnapshot(s)
       \/ WaitApplyCh(s) \/ ReadSnapshot(s) \/ Restart(s)
  \/ \E r \in Request :
       Commit(r) \/ Register(r) \/ Notified(r) \/ WaitTimeout(r) \/ removeCh(r)
  \/ \E c \in Client :
       \/ Begin(c) \/ Call(c) \/ WrongLeader(c) \/ Reply(c) \/ CallFails(c)
       \/ \E s \in Server : FindLeader(c, s)

Spec == Init /\ [][Next]_vars

(* What happens without anyone outside: goroutines go on, timers fire, and   *)
(* some server is elected when none leads.                                   *)
GoOn ==
  \/ \E s \in Server : \/ Elect(s) /\ faults' = faults
                       \/ RaftStep(s) \/ WaitApplyCh(s) \/ ReadSnapshot(s)
  \/ \E r \in Request :
       Commit(r) \/ Register(r) \/ Notified(r) \/ WaitTimeout(r) \/ removeCh(r)
  \/ \E c \in Client : Reply(c) \/ (CallFails(c) /\ faults' = faults)

(* A clerk repeats its requests and its rounds of FindLeader without end, so *)
(* that it calls, and hears from the leader, if it can again and again.      *)
Fairness ==
  /\ WF_vars(GoOn)
  /\ \A c \in Client : /\ WF_vars(WrongLeader(c))
                       /\ SF_vars(Call(c))
                       /\ SF_vars(\E s \in Server : Leading(s) /\ FindLeader(c, s))

FairSpec == Spec /\ Fairness
-----------------------------------------------------------------------------
(* Properties *)

HandlerState ==
  {"started", "waiting", "notified", "timedout", "OK", "ErrTimeOut", "gone"}

(* The variables have their types *)
TypeOK ==
  /\ log \in Seq(Request)
  /\ tail \in [Server -> Seq(Request) \cup {None}]
  /\ leads \in [Server -> Nat] /\ term \in Nat
  /\ states \in Seq(KV) /\ Len(states) = Len(log) + 1
  /\ kv \in [Server -> KV]
  /\ applied \in [Server -> 0 .. Len(log)]
  /\ notifyData \in [Server -> SUBSET Request]
  /\ sending \in [Server -> Request \cup {None}]
  /\ snapshot \in [Server -> [index : 0 .. Len(log), kv : KV]]
  /\ handler \in Seq([server : Server, op : Op, state : HandlerState, value : Seq(Id)])
  /\ op \in [Client -> Op \cup {None}]
  /\ count \in [Client -> 0 .. MaxOps]
  /\ leaderId \in [Client -> Server \cup {None}]
  /\ Term \in [Client -> Nat]
  /\ call \in [Client -> Request \cup {None}]
  /\ seen \in [Client -> SUBSET Seq(Id)]
  /\ answer \in [Client -> Seq(Id)]
  /\ faults \in 0 .. MaxFaults

(* The data and the table of last requests of a server are what the commands *)
(* it has taken from applyCh make of them, and so is its snapshot: whether   *)
(* it came by them one by one, over a snapshot of its own or of the leader,  *)
(* or after a restart.                                                       *)
ReplicasFollowLog ==
  \A s \in Server :
    /\ kv[s] = states[applied[s] + 1]
    /\ snapshot[s].kv = states[snapshot[s].index + 1]

(* Clerks see one store on which each Put and Append takes effect once,      *)
(* although a clerk repeats a request whose reply was lost, timed out or     *)
(* came from a leader that lost its commands.                                *)
Store == INSTANCE KVStore WITH
  store <- Newest.data,
  request <- op,
  effect <- [c \in Client |-> op[c] # None /\ CheckApplied(Newest, op[c])]

ImplementsKVStore == Store!Spec

(* WaitApplyCh is sending to a waiter that has already timed out and wants   *)
(* kv.mu, which WaitApplyCh holds: neither goes on, nor does any later call. *)
Stuck(s) == sending[s] # None /\ handler[sending[s]].state # "waiting"

(* Every operation ends, as long as requests are left to repeat it, except   *)
(* when a server is stuck.                                                   *)
OpsFinish ==
  \A c \in Client :
    op[c] # None ~> \/ op[c] = None
                    \/ Len(handler) = MaxRequests
                    \/ \E s \in Server : Stuck(s)
=============================================================================
