------------------------------ MODULE ShardKV ------------------------------
(***************************************************************************)
(* The sharded store of shardkv: groups of servers (server.go,             *)
(* waitApply.go), the migration of shards between them (migration.go), and *)
(* the clerks (client.go). The shard master is the sequence of its         *)
(* configurations, which module ShardConfig makes.                         *)
(*                                                                         *)
(* Of the Raft of a group there is one log: a command that the leader      *)
(* hands to Start is in it, and is lost when nobody has applied it and     *)
(* another server is elected.                                              *)
(***************************************************************************)
EXTENDS ShardConfig, Sequences

CONSTANTS
  Client,
  Key,           \* numbers; the first byte of a key is all that matters
  Peers,         \* Peers[g]: the servers of group g, in the order of its configuration
  None, Nil, Absent,
  MaxRaftState,  \* a snapshot is taken at this size
  MaxOps,        \* operations of one clerk
  MaxConfigs,    \* configurations after number 0
  MaxLog,        \* commands in the log of a group
  MaxFaults      \* restarts, leaders replaced, timeouts, replies lost, laggards,
                 \* handlers that register late, polls before the last one is applied

VARIABLES
  configs,       \* the configurations of the shard master
  \* Raft
  log, committed, leader,  \* of a group
  leads,         \* leads[s]: s believes to lead
  \* the servers
  data,          \* data[s][i]: the map of shard i, Nil, or Absent
  lastApplied, config, state, applied, snapshot,
  find,          \* find[s]: where FindConfig is
  down,          \* the servers that have panicked
  stuck,         \* the servers whose WaitApplyCh holds kv.mu for ever
  handler,       \* the RPC handlers, with the one each answers
  \* the clerks
  op, count, known,
  tried,         \* tried[c]: how many servers of the group c has asked in this round
  \* history
  store,         \* the values of one store, on which all operations act
  done,          \* the operations that have acted on it
  seen, answer,  \* as in KVRaft
  faults

raftVars == <<log, committed, leader, leads>>
kvVars == <<data, lastApplied, config, applied, snapshot>>
failVars == <<down, stuck>>
clerkVars == <<op, count, known, tried>>
historyVars == <<store, done, seen, answer>>
vars == <<configs, raftVars, kvVars, state, find, failVars, handler, clerkVars, historyVars, faults>>

Id == Client \X (1 .. MaxOps)
Op == [client : Client, id : Id, method : {"Get", "Put", "Append"}, key : Key]
Latest == configs[Len(configs)]
Members(g) == {Peers[g][i] : i \in DOMAIN Peers[g]}
Server == UNION {Members(g) : g \in Gid}
Group == [s \in Server |-> CHOOSE g \in Gid : s \in Members(g)]
Log(s) == log[Group[s]]
Up(s) == s \notin down

(* kv.mu of s can be had *)
Unlocked(s) == s \notin down \cup stuck

key2shard(k) == k % NShards

EmptyMap == [k \in Key |-> <<>>]
Idle == [at |-> "idle", cur |-> NoConfig, todo |-> {}, shard |-> None]

Init ==
  /\ configs = <<NoConfig>>
  /\ log = [g \in Gid |-> <<>>]
  /\ committed = [g \in Gid |-> 0]
  /\ leader = [g \in Gid |-> None]
  /\ leads = [s \in Server |-> FALSE]
  /\ data = [s \in Server |-> [i \in Shard |-> Absent]]
  /\ lastApplied = [s \in Server |-> [c \in Client |-> None]]
  /\ config = [s \in Server |-> None]
  /\ state = [s \in Server |-> "STABLE"]
  /\ applied = [s \in Server |-> 0]
  /\ snapshot = [s \in Server |-> [index |-> 0, data |-> data[s], lastApplied |-> lastApplied[s]]]
  /\ find = [s \in Server |-> Idle]
  /\ down = {}
  /\ stuck = {}
  /\ handler = {}
  /\ op = [c \in Client |-> None]
  /\ count = [c \in Client |-> 0]
  /\ known = [c \in Client |-> NoConfig]
  /\ tried = [c \in Client |-> 0]
  /\ store = EmptyMap
  /\ done = {}
  /\ seen = [c \in Client |-> {}]
  /\ answer = [c \in Client |-> <<>>]
  /\ faults = 0

(* The bound on faults: a step with cond is one *)
Fault(cond) ==
  /\ cond => faults < MaxFaults
  /\ faults' = IF cond THEN faults + 1 ELSE faults

(* Every server has the latest configuration, and nothing is on its way *)
Settled ==
  /\ handler = {}
  /\ \A s \in Server : Up(s) => /\ config[s] = Latest
                                /\ find[s] = Idle
                                /\ applied[s] = Len(Log(s))

-----------------------------------------------------------------------------
(* The shard master *)

Changes(last) ==
  UNION {join(last, {g}) : g \in Gid \ last.groups}
  \cup UNION {leave(last, {g}) : g \in last.groups}

Reconfigure ==
  /\ Len(configs) <= MaxConfigs
  /\ \E new \in Changes(Latest) : configs' = Append(configs, new)
  /\ UNCHANGED <<raftVars, kvVars, state, find, failVars, handler, clerkVars, historyVars, faults>>
-----------------------------------------------------------------------------
(* Raft *)

Elect(s) ==
  LET g == Group[s] IN
  /\ Up(s) /\ leader[g] # s
  /\ Fault(leader[g] # None)
  /\ leader' = [leader EXCEPT ![g] = s]
  /\ leads' = [leads EXCEPT ![s] = TRUE]
  /\ \E n \in committed[g] .. Len(log[g]) :
       /\ log' = [log EXCEPT ![g] = SubSeq(@, 1, n)]
       /\ handler' = {IF Group[h.server] = g /\ h.index > n THEN [h EXCEPT !.index = 0] ELSE h :
                        h \in handler}
  /\ UNCHANGED <<configs, committed, kvVars, state, find, failVars, clerkVars, historyVars>>

StepDown(s) ==
  /\ leads[s] /\ leader[Group[s]] # s
  /\ leads' = [leads EXCEPT ![s] = FALSE]
  /\ UNCHANGED <<configs, log, committed, leader, kvVars, state, find, failVars, handler,
                 clerkVars, historyVars, faults>>

(* The log of the group of s after s has handed in cmd, which it may do when *)
(* it believes to lead.                                                      *)
Start(s, cmd) ==
  LET g == Group[s] IN
  /\ leads[s]
  /\ Len(log[g]) < MaxLog
  /\ log' = IF leader[g] = s THEN [log EXCEPT ![g] = Append(@, cmd)] ELSE log
  /\ UNCHANGED <<committed, leader, leads>>

StartIndex(s) == IF leader[Group[s]] = s THEN Len(Log(s)) + 1 ELSE 0
-----------------------------------------------------------------------------
(* The handlers Get, PutAppend and Migration *)

Answers == {"OK", "ErrWrongLeader", "ErrWrongGroup", "ErrTimeOut"}

(* A handler that has nobody to answer ends *)
GoTo(h, at) ==
  handler' = (handler \ {h})
             \cup IF h.from = None /\ at \in Answers THEN {} ELSE {[h EXCEPT !.at = at]}

(* The calls H fail. What their handlers still do, they do for nobody.      *)
Fail(H) ==
  (handler \ H) \cup {[h EXCEPT !.from = None] : h \in {h \in H : h.at \notin Answers}}

(* What is left of the handlers when s dies: not its own, nor answers to it  *)
HandlersWithout(s) == {h \in Fail({h \in handler : h.from = s}) : h.server # s}

(* The loop until the state is STABLE *)
WaitStable(h) ==
  /\ h.at = "check"
  /\ Unlocked(h.server)
  /\ state[h.server] = "STABLE"
  /\ GoTo(h, "shard")
  /\ UNCHANGED <<configs, raftVars, kvVars, state, find, failVars, clerkVars, historyVars, faults>>

(* The process of s dies, and its handlers with it *)
Panic(s) ==
  /\ down' = down \cup {s}
  /\ leads' = [leads EXCEPT ![s] = FALSE]
  /\ leader' = [leader EXCEPT ![Group[s]] = IF @ = s THEN None ELSE @]
  /\ handler' = HandlersWithout(s)
  /\ UNCHANGED <<log, committed>>

(* Whether the group has the shard, read from a configuration that may be nil *)
checkAndMigrateShard(h) ==
  LET s == h.server IN
  /\ h.at = "shard"
  /\ Unlocked(s)
  /\ \/ /\ config[s] = None
        /\ Panic(s)
     \/ /\ config[s] # None
        /\ GoTo(h, IF config[s].shards[key2shard(h.op.key)] = Group[s]
                   THEN "start" ELSE "ErrWrongGroup")
        /\ UNCHANGED <<raftVars, down>>
  /\ UNCHANGED <<configs, kvVars, state, find, stuck, clerkVars, historyVars, faults>>

(* Mutant of waitForRaft: it does not wait until the command is applied *)
WaitForRaftNot(h) ==
  /\ h.at = "start"
  /\ \/ /\ Start(h.server, h.op)
        /\ GoTo(h, "OK")
     \/ /\ ~leads[h.server]
        /\ GoTo(h, "ErrWrongLeader")
        /\ UNCHANGED raftVars
  /\ UNCHANGED <<configs, kvVars, state, find, failVars, clerkVars, historyVars, faults>>

(* Start, before the channel is there *)
waitForRaft(h) ==
  /\ h.at = "start"
  /\ \/ /\ Start(h.server, h.op)
        /\ handler' = (handler \ {h})
                      \cup {[h EXCEPT !.at = "register", !.index = StartIndex(h.server)]}
     \/ /\ ~leads[h.server]
        /\ GoTo(h, "ErrWrongLeader")
        /\ UNCHANGED raftVars
  /\ UNCHANGED <<configs, kvVars, state, find, failVars, clerkVars, historyVars, faults>>

(* The channel is entered in notifyData. If the command has been applied by  *)
(* then, nothing will come through it.                                       *)
Register(h) ==
  /\ h.at = "register"
  /\ Unlocked(h.server)
  /\ GoTo(h, "wait")
  /\ UNCHANGED <<configs, raftVars, kvVars, state, find, failVars, clerkVars, historyVars, faults>>

(* The timer fires. The channel stays in notifyData until removeCh has kv.mu. *)
WaitTimeout(h) ==
  /\ h.at = "wait"
  /\ Fault(h.index > applied[h.server])
  /\ GoTo(h, "timedOut")
  /\ UNCHANGED <<configs, raftVars, kvVars, state, find, failVars, clerkVars, historyVars>>

removeCh(h) ==
  /\ h.at = "timedOut"
  /\ Unlocked(h.server)
  /\ GoTo(h, "ErrTimeOut")
  /\ UNCHANGED <<configs, raftVars, kvVars, state, find, failVars, clerkVars, historyVars, faults>>

(* The request or the reply is lost, or the caller no longer waits *)
CallFails(h) ==
  /\ h.from # None
  /\ Fault(TRUE)
  /\ handler' = Fail({h})
  /\ UNCHANGED <<configs, raftVars, kvVars, state, find, failVars, clerkVars, historyVars>>
-----------------------------------------------------------------------------
(* WaitApplyCh: applyOp and applyConfig *)

CheckApplied(s, o) == lastApplied[s][o.client] = o.id

Writes(o) == o.method \in {"Put", "Append"}

(* Mutant of Executes: a repeated request is executed again *)
ExecutesAlways(s, o) == Writes(o)

Executes(s, o) == Writes(o) /\ ~CheckApplied(s, o)

Map(m) == IF m \in {Nil, Absent} THEN EmptyMap ELSE m

Written(o, old) == IF o.method = "Put" THEN <<o.id>> ELSE Append(old, o.id)

(* The shards of s after command o *)
NewData(s, o) ==
  CASE o.method = "Migration" -> [data[s] EXCEPT ![o.shard] = o.data]
    [] Executes(s, o) ->
         [data[s] EXCEPT ![key2shard(o.key)] = [Map(@) EXCEPT ![o.key] = Written(o, @)]]
    [] OTHER -> data[s]

(* Mutant of saveSnapshot: the snapshot claims the next command as well *)
SaveSnapshotNext(s, index, d, l) ==
  snapshot' = [snapshot EXCEPT ![s] = [index |-> index + 1, data |-> d, lastApplied |-> l]]

(* The log that no snapshot of s contains is large *)
Large(s) == Len(Log(s)) - snapshot[s].index >= MaxRaftState

(* Among the shards, gob makes an empty map of a nil one *)
saveSnapshot(s, index, d, l) ==
  IF ~Large(s) THEN UNCHANGED snapshot
  ELSE snapshot' = [snapshot EXCEPT ![s] =
         [index |-> index, lastApplied |-> l,
          data |-> [i \in Shard |-> IF d[i] = Nil THEN EmptyMap ELSE d[i]]]]

(* What the operation does to the one store *)
Act(o) ==
  IF o.id \in done THEN UNCHANGED <<store, done, seen>>
  ELSE LET v == Written(o, store[o.key]) IN
       /\ store' = [store EXCEPT ![o.key] = v]
       /\ done' = done \cup {o.id}
       /\ seen' = [c \in Client |-> IF op[c] # None /\ op[c].key = o.key
                                    THEN seen[c] \cup {v} ELSE seen[c]]

(* A handler that waits gets its answer, and one that is about to register   *)
(* misses it. For one that has timed out and is still in notifyData, s waits *)
(* with kv.mu held, which the handler needs to go on.                        *)
applyOp(s, n, o) ==
  LET d == NewData(s, o)
      l == IF Executes(s, o) THEN [lastApplied[s] EXCEPT ![o.client] = o.id] ELSE lastApplied[s]
      At(at) == {h \in handler : h.server = s /\ h.at = at /\ h.index = n}
  IN  /\ data' = [data EXCEPT ![s] = d]
      /\ lastApplied' = [lastApplied EXCEPT ![s] = l]
      /\ saveSnapshot(s, n, d, l)
      /\ handler' = (handler \ At("wait"))
                    \cup {[h EXCEPT !.at = "OK",
                                    !.value = IF o.method = "Get"
                                              THEN Map(d[key2shard(o.key)])[o.key] ELSE <<>>] :
                            h \in {h \in At("wait") : h.from # None}}
      /\ stuck' = IF At("timedOut") = {} THEN stuck ELSE stuck \cup {s}
      /\ Fault(At("register") # {})
      /\ IF Executes(s, o) THEN Act(o) ELSE UNCHANGED <<store, done, seen>>
      /\ UNCHANGED <<log, leader, leads, config, down>>

applyConfig(s, n, new) ==
  /\ IF config[s] # None /\ new.num <= config[s].num
     THEN saveSnapshot(s, n, data[s], lastApplied[s]) /\ UNCHANGED config
     ELSE config' = [config EXCEPT ![s] = new] /\ UNCHANGED snapshot
  /\ UNCHANGED <<data, lastApplied, log, leader, leads, failVars, handler, store, done, seen,
                 faults>>

(* An Append to a shard whose map is nil, or a snapshot with a configuration *)
(* that is nil, which gob refuses: the process panics.                       *)
MeetsNil(s, o) ==
  \/ o.method = "Append" /\ Executes(s, o) /\ data[s][key2shard(o.key)] = Nil
  \/ config[s] = None /\ Large(s)

WaitApplyCh(s) ==
  LET n == applied[s] + 1
      o == Log(s)[n]
      g == Group[s]
  IN  /\ Unlocked(s)
      /\ n <= Len(Log(s))
      /\ \/ /\ o.method # "Config" /\ MeetsNil(s, o)
            /\ Panic(s)
            /\ UNCHANGED <<kvVars, stuck, store, done, seen, faults>>
         \/ /\ o.method # "Config" /\ ~MeetsNil(s, o)
            /\ applied' = [applied EXCEPT ![s] = n]
            /\ committed' = [committed EXCEPT ![g] = IF n > @ THEN n ELSE @]
            /\ applyOp(s, n, o)
         \/ /\ o.method = "Config"
            /\ applied' = [applied EXCEPT ![s] = n]
            /\ committed' = [committed EXCEPT ![g] = IF n > @ THEN n ELSE @]
            /\ applyConfig(s, n, o.config)
      /\ UNCHANGED <<configs, state, find, clerkVars, answer>>

(* ReadSnapshot does not restore the configuration *)
ReadSnapshot(s, snap) ==
  /\ data' = [data EXCEPT ![s] = snap.data]
  /\ lastApplied' = [lastApplied EXCEPT ![s] = snap.lastApplied]
  /\ applied' = [applied EXCEPT ![s] = snap.index]
  /\ snapshot' = [snapshot EXCEPT ![s] = snap]

(* Raft gives s the snapshot of the leader, and WaitApplyCh loads it *)
InstallSnapshot(s) ==
  LET l == leader[Group[s]] IN
  /\ Unlocked(s) /\ l # None
  /\ snapshot[l].index > applied[s]
  /\ Fault(TRUE)
  /\ ReadSnapshot(s, snapshot[l])
  /\ UNCHANGED <<configs, raftVars, config, state, find, failVars, handler, clerkVars, historyVars>>

(* Kill, and StartServer on the same disk *)
Restart(s) ==
  /\ Up(s)
  /\ Fault(TRUE)
  /\ ReadSnapshot(s, snapshot[s])
  /\ config' = [config EXCEPT ![s] = None]
  /\ state' = [state EXCEPT ![s] = "STABLE"]
  /\ find' = [find EXCEPT ![s] = Idle]
  /\ stuck' = stuck \ {s}
  /\ leads' = [leads EXCEPT ![s] = FALSE]
  /\ leader' = [leader EXCEPT ![Group[s]] = IF @ = s THEN None ELSE @]
  /\ handler' = HandlersWithout(s)
  /\ UNCHANGED <<configs, log, committed, down, clerkVars, historyVars>>
-----------------------------------------------------------------------------
(* The goroutine FindConfig *)

NumOf(s) == IF config[s] = None THEN -1 ELSE config[s].num

(* To hand in new again would change nothing: every server of the group has  *)
(* it, or will.                                                              *)
Repeats(s, new) ==
  \A t \in Members(Group[s]) :
    \/ NumOf(t) >= new.num
    \/ \E i \in (applied[t] + 1) .. Len(Log(s)) :
         Log(s)[i].method = "Config" /\ Log(s)[i].config.num >= new.num

(* Shards move only when the number of groups has changed *)
NeedsMigration(s, cur) ==
  /\ config[s] # None
  /\ config[s].groups # {} /\ cur.groups # {}
  /\ Cardinality(config[s].groups) # Cardinality(cur.groups)

(* mck.Query(-1), every PullTimeout, whether what was handed in before is    *)
(* applied or not, and a look at the answer. The poll of a server that leads *)
(* no more, or has what it polled for in its log, is bounded like a fault.   *)
QueryMaster(s) ==
  /\ Up(s) /\ find[s].at = "idle"
  /\ leads[s]
  /\ NumOf(s) < Latest.num \/ ~Repeats(s, Latest)
  /\ Fault(leader[Group[s]] # s \/ Repeats(s, Latest))
  /\ find' = [find EXCEPT ![s].at = IF NeedsMigration(s, Latest) THEN "freeze" ELSE "finish",
                          ![s].cur = Latest]
  /\ UNCHANGED <<configs, raftVars, kvVars, state, failVars, handler, clerkVars, historyVars>>

(* Handlers have to wait, and the shards that go are found, in what the      *)
(* configuration is by then                                                  *)
LookForShards(s) ==
  /\ Unlocked(s) /\ find[s].at = "freeze"
  /\ state' = [state EXCEPT ![s] = "TRANSITION"]
  /\ find' = [find EXCEPT ![s].at = "migrating",
                ![s].todo = {i \in Of(config[s].shards, Group[s]) :
                               find[s].cur.shards[i] # Group[s]}]
  /\ UNCHANGED <<configs, raftVars, kvVars, failVars, handler, clerkVars, historyVars, faults>>

(* A call of Migration that reaches a leader of the new group. Others, and   *)
(* lost ones, have no effect.                                                *)
migrationToPeer(s) ==
  LET f == find[s] IN
  /\ Unlocked(s) /\ f.at = "migrating"
  /\ \A h \in handler : h.from # s
  /\ \E i \in IF f.shard = None THEN f.todo ELSE {f.shard} :
       /\ f.cur.shards[i] \in f.cur.groups
       /\ \E t \in Members(f.cur.shards[i]) :
            /\ Up(t) /\ leads[t]
            /\ handler' = handler \cup
                 {[from |-> s, server |-> t, at |-> "start", index |-> 0, value |-> <<>>,
                   op |-> [method |-> "Migration", shard |-> i,
                           data |-> IF data[s][i] = Absent THEN Nil ELSE data[s][i]]]}
       /\ find' = [find EXCEPT ![s].shard = i]
  /\ UNCHANGED <<configs, raftVars, kvVars, state, failVars, clerkVars, historyVars, faults>>

(* The reply. After OK the leader, and only it, removes the shard.           *)
MigrationReply(s) ==
  /\ Up(s)
  /\ \E h \in handler :
       /\ h.from = s
       /\ handler' = handler \ {h}
       /\ \/ /\ h.at = "OK"
             /\ Unlocked(s)
             /\ data' = [data EXCEPT ![s][h.op.shard] = Absent]
             /\ find' = [find EXCEPT ![s].todo = @ \ {h.op.shard}, ![s].shard = None]
          \/ /\ h.at \in {"ErrTimeOut", "ErrWrongLeader"}
             /\ UNCHANGED <<data, find>>
  /\ UNCHANGED <<configs, raftVars, lastApplied, config, applied, snapshot, state, failVars,
                 clerkVars, historyVars, faults>>

(* Mutant of MigrationEnds: the configuration is not handed to Raft *)
MigrationEndsThere(s) ==
  /\ Unlocked(s) /\ find[s].at = "migrating" /\ find[s].todo = {}
  /\ state' = [state EXCEPT ![s] = "STABLE"]
  /\ find' = [find EXCEPT ![s] = Idle]
  /\ UNCHANGED <<configs, raftVars, kvVars, failVars, handler, clerkVars, historyVars, faults>>

MigrationEnds(s) ==
  /\ Unlocked(s) /\ find[s].at = "migrating" /\ find[s].todo = {}
  /\ state' = [state EXCEPT ![s] = "STABLE"]
  /\ find' = [find EXCEPT ![s].at = "finish"]
  /\ UNCHANGED <<configs, raftVars, kvVars, failVars, handler, clerkVars, historyVars, faults>>

(* rf.Start of the configuration, whose result nobody looks at *)
UpdateConfig(s) ==
  /\ Unlocked(s) /\ find[s].at = "finish"
  /\ IF leads[s] /\ ~Repeats(s, find[s].cur)
     THEN Start(s, [method |-> "Config", config |-> find[s].cur])
     ELSE UNCHANGED raftVars
  /\ find' = [find EXCEPT ![s] = Idle]
  /\ UNCHANGED <<configs, kvVars, state, failVars, handler, clerkVars, historyVars, faults>>
-----------------------------------------------------------------------------
(* The clerks *)

Begin(c) ==
  /\ op[c] = None
  /\ count[c] < MaxOps
  /\ count' = [count EXCEPT ![c] = @ + 1]
  /\ \E m \in {"Get", "Put", "Append"}, k \in Key :
       /\ op' = [op EXCEPT ![c] = [client |-> c, id |-> <<c, count[c] + 1>>,
                                   method |-> m, key |-> k]]
       /\ seen' = [seen EXCEPT ![c] = {store[k]}]
  /\ answer' = [answer EXCEPT ![c] = <<>>]
  /\ UNCHANGED <<configs, raftVars, kvVars, state, find, failVars, handler, known, tried, store, done,
                 faults>>

Waits(c) == op[c] # None /\ \A h \in handler : h.from # c

(* The servers that c takes for those of its shard; none if the group is gone *)
Candidates(c) ==
  LET g == known[c].shards[key2shard(op[c].key)] IN
  IF g \in known[c].groups THEN Peers[g] ELSE <<>>

(* The next server. One that is down or does not lead has no effect.         *)
Call(c) ==
  LET s == Candidates(c)[tried[c] + 1] IN
  /\ Waits(c)
  /\ tried[c] < Len(Candidates(c))
  /\ tried' = [tried EXCEPT ![c] = @ + 1]
  /\ handler' = IF Up(s) /\ leads[s]
                THEN handler \cup {[from |-> c, server |-> s, op |-> op[c], at |-> "check",
                                    index |-> 0, value |-> <<>>]}
                ELSE handler
  /\ UNCHANGED <<configs, raftVars, kvVars, state, find, failVars, op, count, known, historyVars,
                 faults>>

(* ErrWrongGroup ends the round; other errors lead to the next server.       *)
Reply(c) ==
  /\ \E h \in handler :
       /\ h.from = c
       /\ handler' = handler \ {h}
       /\ \/ /\ h.at = "OK"
             /\ op' = [op EXCEPT ![c] = None]
             /\ seen' = [seen EXCEPT ![c] = {}]
             /\ answer' = [answer EXCEPT ![c] = h.value]
             /\ tried' = [tried EXCEPT ![c] = 0]
          \/ /\ h.at = "ErrWrongGroup"
             /\ tried' = [tried EXCEPT ![c] = Len(Candidates(c))]
             /\ UNCHANGED <<op, seen, answer>>
          \/ /\ h.at \in {"ErrTimeOut", "ErrWrongLeader"}
             /\ UNCHANGED <<op, seen, answer, tried>>
  /\ UNCHANGED <<configs, raftVars, kvVars, state, find, failVars, count, known, store, done, faults>>

(* After a round without success: ck.config = ck.sm.Query(-1) *)
Requery(c) ==
  /\ Waits(c)
  /\ tried[c] = Len(Candidates(c))
  /\ known' = [known EXCEPT ![c] = Latest]
  /\ tried' = [tried EXCEPT ![c] = 0]
  /\ UNCHANGED <<configs, raftVars, kvVars, state, find, failVars, handler, op, count, historyVars,
                 faults>>
-----------------------------------------------------------------------------
HandlerStep(h) ==
  WaitStable(h) \/ checkAndMigrateShard(h) \/ waitForRaft(h) \/ Register(h) \/ WaitTimeout(h) \/ removeCh(h)

ServerStep(s) == StepDown(s) \/ WaitApplyCh(s)

FindConfig(s) ==
  \/ QueryMaster(s) \/ LookForShards(s) \/ migrationToPeer(s)
  \/ MigrationReply(s) \/ MigrationEnds(s) \/ UpdateConfig(s)

ClerkStep(c) == Reply(c) \/ Requery(c) \/ Call(c)

Next ==
  \/ Reconfigure
  \/ \E s \in Server : Elect(s) \/ ServerStep(s) \/ FindConfig(s) \/ InstallSnapshot(s) \/ Restart(s)
  \/ \E h \in handler : HandlerStep(h) \/ CallFails(h)
  \/ \E c \in Client : Begin(c) \/ ClerkStep(c)

Spec == Init /\ [][Next]_vars

(* Raft, the goroutines of the servers and the handlers go on, some server   *)
(* is elected when none leads, and a clerk repeats its request until it is   *)
(* done. None of this asks for a fault.                                      *)
Fairness ==
  /\ WF_vars(\E s \in Server : (ServerStep(s) \/ Elect(s)) /\ faults' = faults)
  /\ WF_vars(\E s \in Server : FindConfig(s) /\ faults' = faults)
  /\ WF_vars(\E h \in handler : h.from \notin Client /\ HandlerStep(h) /\ faults' = faults)
  /\ \A c \in Client :
       /\ WF_vars(\E h \in handler : h.from = c /\ HandlerStep(h) /\ faults' = faults)
       /\ WF_vars(ClerkStep(c))

FairSpec == Spec /\ Fairness
-----------------------------------------------------------------------------
(* Properties *)

ShardData == [Key -> Seq(Id)] \cup {Nil, Absent}

(* The variables have their types *)
TypeOK ==
  /\ configs \in Seq(Config)
  /\ \A g \in Gid : committed[g] \in 0 .. Len(log[g])
  /\ leader \in [Gid -> Server \cup {None}]
  /\ leads \in [Server -> BOOLEAN]
  /\ data \in [Server -> [Shard -> ShardData]]
  /\ lastApplied \in [Server -> [Client -> Id \cup {None}]]
  /\ config \in [Server -> Config \cup {None}]
  /\ state \in [Server -> {"STABLE", "TRANSITION"}]
  /\ \A s \in Server : applied[s] \in 0 .. Len(Log(s))
  /\ down \cup stuck \subseteq Server
  /\ op \in [Client -> Op \cup {None}]

(* The last Put or Append of c among the first n commands of group g *)
LastId(g, c, n) ==
  LET own == {i \in 1 .. n : Writes(log[g][i]) /\ log[g][i].client = c} IN
  IF own = {} THEN None ELSE log[g][CHOOSE i \in own : \A k \in own : k <= i].id

(* What the commands after p and up to n make of shard i, if it is empty at p *)
ShardMade(g, i, p, n) ==
  LET made[k \in p .. n] ==
        IF k = p THEN EmptyMap
        ELSE LET o == log[g][k] IN
             CASE o.method = "Migration" /\ o.shard = i -> Map(o.data)
               [] Writes(o) /\ key2shard(o.key) = i /\ LastId(g, o.client, k - 1) # o.id ->
                    [made[k - 1] EXCEPT ![o.key] = Written(o, @)]
               [] OTHER -> made[k - 1]
  IN  made[n]

(* d and l are what the first n commands of g make of the shards and of the  *)
(* table of requests, but that a shard may have been removed on the way      *)
FollowsLog(g, d, l, n) ==
  /\ \A c \in Client : l[c] = LastId(g, c, n)
  /\ \A i \in Shard : \E p \in 0 .. n : Map(d[i]) = ShardMade(g, i, p, n)

(* Every server and every snapshot is what the log of its group makes of it, *)
(* whatever WaitApplyCh, migration, elections, snapshots and restarts did    *)
(* in between: a server differs from its log by shards it gave away, and by  *)
(* nothing else.                                                             *)
ReplicasFollowLog ==
  \A s \in Server :
    /\ FollowsLog(Group[s], data[s], lastApplied[s], applied[s])
    /\ FollowsLog(Group[s], snapshot[s].data, snapshot[s].lastApplied, snapshot[s].index)

(* A clerk gets OK only for a command that a group has committed, which no   *)
(* election takes out of its log any more.                                   *)
AnswersAreCommitted ==
  \A c \in Client : \A n \in 1 .. count[c] :
    op[c] = None \/ op[c].id # <<c, n>> =>
      \E g \in Gid : \E i \in 1 .. committed[g] :
        log[g][i].method \notin {"Config", "Migration"} /\ log[g][i].id = <<c, n>>

(* To its clerks the sharded store is the one of KVStore *)
Store == INSTANCE KVStore WITH
  request <- op,
  effect <- [c \in Client |-> op[c] # None /\ op[c].id \in done]

ImplementsKVStore == Store!Spec

(* Every operation ends, and every change of the configuration reaches all   *)
(* groups, although a group that gives up shards serves nobody until another *)
(* has taken them, and may be asked again and again; unless a server panics, *)
(* WaitApplyCh waits for a handler that waits for kv.mu, or the last group   *)
(* leaves.                                                                   *)
ComesToRest ==
  Latest.groups # {} ~> \/ Settled /\ \A c \in Client : op[c] = None
                        \/ down \cup stuck # {}
                        \/ Latest.groups = {}
=============================================================================
