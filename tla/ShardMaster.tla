---------------------------- MODULE ShardMaster ----------------------------
(***************************************************************************)
(* The servers of the shard master (shardmaster/server.go) and its clerks  *)
(* (client.go) over Raft. A server keeps all configurations it has made,   *)
(* and a state that is to keep changes of the configuration apart: STABLE, *)
(* TRANSITION while one is being agreed on, FREEZE while the groups move   *)
(* their shards. As in KVRaft, a critical section under sm.mu is a step,   *)
(* except that apply holds the mutex while it sends to a waiter.           *)
(***************************************************************************)
EXTENDS RaftService, ShardConfig

CONSTANTS
  Client,
  MaxOps,       \* operations of one clerk
  MaxRequests,  \* RPCs that reach a leader, of all clerks
  MaxFaults     \* restarts, leaders replaced, calls that fail, timeouts of a leader

ASSUME NoneIsNoRequest == None \notin Nat

VARIABLES
  configs,      \* configs[s]: the configurations of s, number 0 first
  lastApplies,  \* lastApplies[s][c]: the last request of c that s applied
  state,        \* state[s]: STABLE, TRANSITION or FREEZE
  applied,      \* applied[s]: how much of the log s has taken from applyCh
  notifyData,   \* notifyData[s]: the requests that wait for a result
  sending,      \* sending[s]: the request apply is sending to, or None
  handler,      \* handler[r]: the RPC handler that runs request r
  op, count, call,  \* the operation of clerk c, how many it began, its request
  known,        \* history: the latest configuration some clerk knows of
  floor,        \* history: floor[c] is known when c began its operation
  faults

serverVars == <<configs, lastApplies, state, applied, notifyData, sending>>
clerkVars == <<op, count, call, known, floor>>
vars == <<raftVars, serverVars, handler, clerkVars, faults>>

Request == 1 .. Len(handler)
Id == Client \X (1 .. MaxOps)
Latest(s) == configs[s][Len(configs[s])]

OpOf(c, id) ==
  [client : {c}, id : {id}, method : {"Join", "Leave"}, gids : SUBSET Gid]
  \cup [client : {c}, id : {id}, method : {"Move"}, shard : Shard, gid : Gid]
  \cup [client : {c}, id : {id}, method : {"Query"}, num : -1 .. MaxOps]

Init ==
  /\ RaftInit
  /\ configs = [s \in Server |-> <<NoConfig>>]
  /\ lastApplies = [s \in Server |-> [c \in Client |-> None]]
  /\ state = [s \in Server |-> "STABLE"]
  /\ applied = [s \in Server |-> 0]
  /\ notifyData = [s \in Server |-> {}]
  /\ sending = [s \in Server |-> None]
  /\ handler = <<>>
  /\ op = [c \in Client |-> None]
  /\ count = [c \in Client |-> 0]
  /\ call = [c \in Client |-> None]
  /\ known = 0
  /\ floor = [c \in Client |-> 0]
  /\ faults = 0

(* The bound on faults: a step with cond is one *)
Fault(cond) ==
  /\ cond => faults < MaxFaults
  /\ faults' = IF cond THEN faults + 1 ELSE faults
-----------------------------------------------------------------------------
(* Raft *)

Elect(s) ==
  /\ Election(s)
  /\ Fault(HasLeader)
  /\ UNCHANGED <<serverVars, handler, clerkVars>>

RaftStep(s) ==
  /\ StepDown(s) \/ AppendEntries(s)
  /\ UNCHANGED <<serverVars, handler, clerkVars, faults>>

Commit(r) ==
  /\ LeaderCommit(r)
  /\ UNCHANGED <<serverVars, handler, clerkVars, faults>>
-----------------------------------------------------------------------------
(* The handlers Join, Leave, Move and Query *)

Changes(r) == handler[r].op.method # "Query"
Freezes(r) == handler[r].op.method \in {"Join", "Leave"}
On(r) == handler[r].server

(* sm.mu is free *)
Unlocked(s) == sending[s] = None

changeState(s, new) == state' = [state EXCEPT ![s] = new]

GoTo(r, at) == handler' = [handler EXCEPT ![r].at = at]

(* Mutant of WaitStable: query answers from the server's own configurations *)
WaitStableQueryLocal(r) ==
  /\ handler[r].at = "check"
  /\ Unlocked(On(r))
  /\ state[On(r)] \in IF Changes(r) THEN {"STABLE"} ELSE {"STABLE", "FREEZE"}
  /\ GoTo(r, IF Changes(r) THEN "start" ELSE "finish")
  /\ UNCHANGED <<raftVars, serverVars, clerkVars, faults>>

(* The loop until the state is STABLE; for Query, until it is not TRANSITION *)
WaitStable(r) ==
  /\ handler[r].at = "check"
  /\ Unlocked(On(r))
  /\ state[On(r)] \in IF Changes(r) THEN {"STABLE"} ELSE {"STABLE", "FREEZE"}
  /\ GoTo(r, "start")
  /\ UNCHANGED <<raftVars, serverVars, clerkVars, faults>>

(* changeState(TRANSITION), not under the lock of the check, and Start. When *)
(* s does not lead any more the handler goes on to FREEZE.                   *)
StartOp(r) ==
  LET s == On(r) IN
  /\ handler[r].at = "start"
  /\ Unlocked(s)
  /\ \/ /\ Start(s, r)
        /\ IF Changes(r) THEN changeState(s, "TRANSITION") ELSE UNCHANGED state
        /\ GoTo(r, "started")
     \/ /\ leads[s] = 0
        /\ CASE Freezes(r) -> changeState(s, "FREEZE")
             [] Changes(r) /\ ~Freezes(r) -> changeState(s, "TRANSITION")
             [] ~Changes(r) -> UNCHANGED state
        /\ handler' = [handler EXCEPT ![r].at = "finish", ![r].err = "ErrWrongLeader"]
        /\ UNCHANGED raftVars
  /\ UNCHANGED <<configs, lastApplies, applied, notifyData, sending, clerkVars, faults>>

Register(r) ==
  /\ handler[r].at = "started"
  /\ Unlocked(On(r))
  /\ notifyData' = [notifyData EXCEPT ![On(r)] = @ \cup {r}]
  /\ GoTo(r, "waiting")
  /\ UNCHANGED <<raftVars, configs, lastApplies, state, applied, sending, clerkVars, faults>>

(* The waiter takes the result. num is the configuration of that moment.     *)
Notified(r) ==
  /\ handler[r].at = "waiting"
  /\ sending[On(r)] = r
  /\ sending' = [sending EXCEPT ![On(r)] = None]
  /\ handler' = [handler EXCEPT ![r].at = "remove", ![r].err = "OK",
                                ![r].num = Latest(On(r)).num]
  /\ UNCHANGED <<raftVars, configs, lastApplies, state, applied, notifyData, clerkVars, faults>>

WaitTimeout(r) ==
  /\ handler[r].at = "waiting"
  /\ Fault(Leading(On(r)))
  /\ handler' = [handler EXCEPT ![r].at = "remove", ![r].err = "ErrTimeOut"]
  /\ UNCHANGED <<raftVars, serverVars, clerkVars>>

(* removeCh, and changeState(FREEZE) *)
removeCh(r) ==
  LET s == On(r) IN
  /\ handler[r].at = "remove"
  /\ Unlocked(s)
  /\ notifyData' = [notifyData EXCEPT ![s] = @ \ {r}]
  /\ IF Freezes(r) THEN changeState(s, "FREEZE") ELSE UNCHANGED state
  /\ GoTo(r, "finish")
  /\ UNCHANGED <<raftVars, configs, lastApplies, applied, sending, clerkVars, faults>>

(* getConfigCopy(i) *)
getConfigCopy(s, i) ==
  IF i < 0 \/ i >= Len(configs[s]) THEN Latest(s) ELSE configs[s][i + 1]

(* Mutant of Unfrozen: an error returns before changeState(STABLE) *)
UnfrozenOnOK(r) == IF Changes(r) /\ handler[r].err = "OK" THEN "STABLE" ELSE state[On(r)]

(* The state of the server when handler r returns *)
Unfrozen(r) == IF Changes(r) THEN "STABLE" ELSE state[On(r)]

(* changeState(STABLE), or the configuration that Query returns; the reply.  *)
(* Nobody may be waiting for it any more.                                    *)
Respond(r) ==
  LET s == On(r) IN
  /\ handler[r].at = "finish"
  /\ Unlocked(s)
  /\ changeState(s, Unfrozen(r))
  /\ handler' = [handler EXCEPT
       ![r].at = IF \E c \in Client : call[c] = r THEN "done" ELSE "gone",
       ![r].num = IF Changes(r) THEN @ ELSE getConfigCopy(s, handler[r].op.num).num]
  /\ UNCHANGED <<raftVars, configs, lastApplies, applied, notifyData, sending, clerkVars, faults>>
-----------------------------------------------------------------------------
(* The goroutine apply *)

CheckApplied(s, o) == lastApplies[s][o.client] = o.id

(* Mutant of Added: the new configuration shares its groups with the old one *)
AddedShared(seq, next) == Append([seq EXCEPT ![Len(seq)].groups = next.groups], next)

(* The configurations seq and one more, a copy *)
Added(seq, next) == Append(seq, next)

(* The configurations a command may add at s: none, or one of these *)
Results(s, o) ==
  CASE o.method = "Join" -> join(Latest(s), o.gids)
    [] o.method = "Leave" -> leave(Latest(s), o.gids)
    [] o.method = "Move" -> move(Latest(s), o.shard, o.gid)

apply(s) ==
  LET n == applied[s] + 1
      r == log[n]
      o == handler[r].op
  IN  /\ n <= Len(log)
      /\ Unlocked(s)
      /\ applied' = [applied EXCEPT ![s] = n]
      /\ IF o.method = "Query" \/ CheckApplied(s, o) THEN UNCHANGED configs
         ELSE \E next \in Results(s, o) : configs' = [configs EXCEPT ![s] = Added(@, next)]
      /\ lastApplies' = [lastApplies EXCEPT ![s][o.client] = o.id]
      /\ sending' = [sending EXCEPT ![s] = IF r \in notifyData[s] THEN r ELSE None]
      /\ UNCHANGED <<raftVars, state, notifyData, handler, clerkVars, faults>>

(* Kill and StartServer: nothing is on disk but the log of Raft *)
Restart(s) ==
  /\ Fault(TRUE)
  /\ Make(s)
  /\ configs' = [configs EXCEPT ![s] = <<NoConfig>>]
  /\ lastApplies' = [lastApplies EXCEPT ![s] = [c \in Client |-> None]]
  /\ state' = [state EXCEPT ![s] = "STABLE"]
  /\ applied' = [applied EXCEPT ![s] = 0]
  /\ notifyData' = [notifyData EXCEPT ![s] = {}]
  /\ sending' = [sending EXCEPT ![s] = None]
  /\ handler' = [r \in Request |->
                   IF On(r) = s THEN [handler[r] EXCEPT !.at = "gone"] ELSE handler[r]]
  /\ UNCHANGED clerkVars
-----------------------------------------------------------------------------
(* The clerks *)

(* Mutant of MsgId: the number of the operation before *)
MsgIdOld(c) == <<c, count[c]>>

(* nrand(), new for every operation *)
MsgId(c) == <<c, count[c] + 1>>

Begin(c) ==
  /\ op[c] = None
  /\ count[c] < MaxOps /\ Len(handler) < MaxRequests
  /\ count' = [count EXCEPT ![c] = @ + 1]
  /\ \E o \in OpOf(c, MsgId(c)) : op' = [op EXCEPT ![c] = o]
  /\ floor' = [floor EXCEPT ![c] = known]
  /\ UNCHANGED <<raftVars, serverVars, handler, call, known, faults>>

(* A clerk tries one server after the other. One that does not lead, and a   *)
(* request that is lost, have no effect.                                     *)
Call(c, s) ==
  /\ op[c] # None /\ call[c] = None
  /\ leads[s] > 0
  /\ Len(handler) < MaxRequests
  /\ handler' = Append(handler, [server |-> s, op |-> op[c], at |-> "check",
                                 err |-> "OK", num |-> 0])
  /\ call' = [call EXCEPT ![c] = Len(handler) + 1]
  /\ UNCHANGED <<raftVars, serverVars, op, count, known, floor, faults>>

(* The reply. A clerk looks only at WrongLeader, which a timeout leaves FALSE *)
Reply(c) ==
  LET r == call[c] IN
  /\ r # None
  /\ handler[r].at = "done"
  /\ call' = [call EXCEPT ![c] = None]
  /\ handler' = [handler EXCEPT ![r].at = "gone"]
  /\ op' = [op EXCEPT ![c] = IF handler[r].err = "ErrWrongLeader" THEN @ ELSE None]
  /\ known' = IF handler[r].err = "OK" /\ handler[r].num > known
              THEN handler[r].num ELSE known
  /\ UNCHANGED <<raftVars, serverVars, count, floor, faults>>

(* Call returns false: the reply is lost, or the server is cut off or dead.  *)
(* The handler goes on; it may be waiting for STABLE and call Start later.   *)
CallFails(c) ==
  LET r == call[c] IN
  /\ r # None
  /\ Fault(handler[r].at # "gone")
  /\ call' = [call EXCEPT ![c] = None]
  /\ handler' = [handler EXCEPT ![r].at = IF @ = "done" THEN "gone" ELSE @]
  /\ UNCHANGED <<raftVars, serverVars, op, count, known, floor>>
-----------------------------------------------------------------------------
Next ==
  \/ \E s \in Server : Elect(s) \/ RaftStep(s) \/ apply(s) \/ Restart(s)
  \/ \E r \in Request :
       \/ WaitStable(r) \/ StartOp(r) \/ Commit(r) \/ Register(r)
       \/ Notified(r) \/ WaitTimeout(r) \/ removeCh(r) \/ Respond(r)
  \/ \E c \in Client : \/ Begin(c) \/ Reply(c) \/ CallFails(c)
                       \/ \E s \in Server : Call(c, s)

Spec == Init /\ [][Next]_vars
-----------------------------------------------------------------------------
(* Properties *)

(* The variables have their types *)
TypeOK ==
  /\ log \in Seq(Request)
  /\ tail \in [Server -> Seq(Request) \cup {None}]
  /\ leads \in [Server -> Nat] /\ term \in Nat
  /\ \A s \in Server : configs[s] \in Seq(Config) /\ configs[s] # <<>>
  /\ lastApplies \in [Server -> [Client -> Id \cup {None}]]
  /\ state \in [Server -> {"STABLE", "TRANSITION", "FREEZE"}]
  /\ applied \in [Server -> 0 .. Len(log)]
  /\ notifyData \in [Server -> SUBSET Request]
  /\ sending \in [Server -> Request \cup {None}]
  /\ \A c \in Client : op[c] \in OpOf(c, <<c, count[c]>>) \cup {None}
  /\ call \in [Client -> Request \cup {None}]

(* Whatever was repeated, lost or replayed after a restart, the servers make *)
(* the same groups in the same order, and number them 0, 1, ... The shards   *)
(* need not agree: adjustConfig follows the order of a map.                  *)
ReplicasAgreeOnGroups ==
  \A s, t \in Server : \A n \in 1 .. Len(configs[s]) :
    /\ configs[s][n].num = n - 1
    /\ n <= Len(configs[t]) => configs[s][n].groups = configs[t][n].groups

(* Every shard belongs to a group, and no group has two more than another *)
Balanced(c) ==
  /\ \A i \in Shard : c.shards[i] \in c.groups
  /\ \A g, h \in c.groups : Count(c.shards, g) <= Count(c.shards, h) + 1

Steps(P(_, _)) ==
  \A s \in Server : \A n \in 2 .. Len(configs[s]) : P(configs[s][n - 1], configs[s][n])

(* Groups that join a balanced configuration leave it balanced, and a shard  *)
(* moves only to a group that joined (test_test.go, "Minimal transfers after *)
(* joins").                                                                  *)
JoinBalances ==
  Steps(LAMBDA old, new :
    old.groups # {} /\ Balanced(old) /\ old.groups \subseteq new.groups
      /\ old.groups # new.groups =>
        /\ Balanced(new)
        /\ \A i \in Shard : new.shards[i] \in {old.shards[i]} \cup (new.groups \ old.groups))

(* When groups leave a balanced configuration every shard goes to a group    *)
(* that is left (test_test.go: check fails on "shard %v -> invalid group %v") *)
LeaveReassigns ==
  Steps(LAMBDA old, new :
    Balanced(old) /\ new.groups \subseteq old.groups /\ new.groups \notin {{}, old.groups} =>
      \A i \in Shard : new.shards[i] \in new.groups)

(* A server on which no change is under way is STABLE, however the changes   *)
(* before overlapped, timed out or found that it does not lead.              *)
IdleIsStable ==
  \A s \in Server :
    (\A r \in Request : On(r) = s => handler[r].at \in {"check", "start", "done", "gone"}
                                     \/ ~Changes(r))
      => state[s] = "STABLE"

(* The answer to a Query for the latest configuration that did not time out  *)
(* is not older than what any clerk knew when the Query was called.          *)
QueryIsFresh ==
  \A c \in Client : call[c] # None =>
    LET h == handler[call[c]] IN
    h.at = "done" /\ h.err = "OK" /\ h.op.method = "Query" /\ h.op.num = -1
      => h.num >= floor[c]
=============================================================================
