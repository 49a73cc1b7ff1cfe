# A TLA+ development of the 6.824 systems

This directory models the distributed systems under `6.824/src`: a Raft
library, the services built on it, a MapReduce master, and the simulated
network below them. Raft comes first, since everything else rests on it.

## 1. The system

| Part | Code | State | Operations | Interacts with |
|---|---|---|---|---|
| Raft peer | `raft/` | role, term, vote, log with a dummy first entry, `commitIndex`, `lastApplied`, `nextIndex`, `matchIndex`, snapshot index and term | `Start`, `Election`, `RequestVote`, `appendEntriesToPeer`, `AppendEntries`, `LeaderCommit`, `Apply`, `SaveStateAndSnapshot`, `InstallSnapshot(ToPeers)`, `readPersist` | peers over labrpc, the Persister, a service over `applyCh` |
| Persister | `raft/persister.go` | Raft state, snapshot | `SaveRaftState`, `SaveStateAndSnapshot`, reads | Raft, service |
| labrpc | `labrpc/` | requests under way | `Call`, `processReq` | all RPC users |
| kvraft | `kvraft/` | data, last request of each client, waiting requests | `Get`, `PutAppend`, `waitForRaft`, `WaitApplyCh`, `saveSnapshot`, `ReadSnapshot`; the clerk's retries | Raft, clerks |
| shardmaster | `shardmaster/` | configurations, STABLE/TRANSITION/FREEZE | `Join`, `Leave`, `Move`, `Query`, `adjustConfig` | Raft, clerks, shardkv |
| shardkv | `shardkv/` | data by shard, configuration, state | requests, `FindConfig`, `migrationToPeer`, `Migration` | Raft, shardmaster, other groups |
| MapReduce | `mr/` | task table, queue, phase | `ReqTask`, `ReportTask`, `schedule`; the worker's loop | workers over net/rpc |
| Rest | `labgob`, `porcupine`, `models`, `main`, `mrapps`, test harnesses | none of the protocols' | | |

What is hard here: RPCs that are lost, delayed and reordered; crashes
between a handler and its next one; goroutines that give up `rf.mu` while they
wait for an answer, and read the state again afterwards; a log whose indexes
shift when a snapshot is taken or installed; a service that lags behind the
Raft peer that feeds it. `PROJECT.json` lists each hazard at its line.

## 2. Modules

| Module | What it is |
|---|---|
| `ReplicatedLog` | What Raft promises a service: one growing log of chosen entries, which every service applies in order, without gaps or repetitions; a service goes back only when its server restarts. |
| `Raft` | The Raft peers, their Persisters, the network between them, and of the service what it does to Raft. |
| `ApplyLoop` | One server between Raft and service: the apply goroutine, `notifyApplyCh`, `rf.mu`, `kv.mu`, `WaitApplyCh` and `waitForRaft`. |
| `RaftService` | Raft as a service sees it: a committed log, servers that believe to lead, commands that are lost. External; the services extend it. |
| `KVStore` | What a key/value service promises its clerks. |
| `KVRaft` | `kvraft`: servers and clerks over `RaftService`. Implements `KVStore`. |
| `ShardConfig` | Configurations, `join`, `leave`, `move` and `adjustConfig` as operators. |
| `ShardMaster` | `shardmaster`: servers and clerks over `RaftService`, with `ShardConfig`. |
| `ShardKV` | `shardkv`: groups, migration and clerks, with the configurations of `ShardConfig`. |
| `MapReduce` | The MapReduce master, its workers and the files they share. |
| `MCRaft`, `MCRaftFigure8`, `MCMapReduce`, `MCKVRaft`, `MCShardMaster`, `MCShardKV` | Instances for TLC: symmetry and action constraints. |
| `RaftTypeProofs` | Proof of type correctness of `Raft`. |
| `RaftElectionProofs` | Proofs about elections: every action is an `ElectionStep`; the invariant and the theorems. |
| `RaftWriteProofs` | What a step may do to logs, disks and requests: every action is a `WriteStep`, and leaders append only. |
| `RaftLogProofs` | Proofs about logs: what names an entry, and log matching. |
| `ApplyLoopProofs` | Proofs that `Apply` never panics, and that its two deadlocks are final. |
| `KVRaftProofs` | Proofs that the replicas of `kvraft` follow the log, and that `kvraft` implements `KVStore`. |
| `ShardMasterProofs` | Proofs that the servers of the shard master agree on the groups, that answers are fresh, and that idle servers are STABLE. |
| `MapReduceProofs` | Proofs about the queue, the phases, the files and the output of MapReduce. |

The modules are layered as the code is. `Raft` is checked to implement
`ReplicatedLog`; `KVRaft` and `ShardMaster` assume it, in the form of
`RaftService`; `ShardKV` assumes the same of the log of a group, and takes its
configurations from `ShardConfig`, with which `ShardMaster` makes them.

### How `Raft` corresponds to the code

One critical section under `rf.mu` is one action. Where a goroutine gives the
mutex up the model has a new action:

- `Election` is `Election()` up to its call of `SendRequest`. `ballot[i]` is
  the `SendRequest` under way: whom it still waits for and whose votes it has
  counted. `ElectionEnd` is the rest, after all answers or on `RPCTimeout`.
- `call[i][j]` is what the append-entries goroutine of server `i` for peer `j`
  waits for, `reply[i][j]` the answer that has come in. `SendAppendEntries` is
  the first critical section of `appendEntriesToPeer`, `AppendEntriesReplied`
  the second with its four outcomes, `RPCTimeout` the lost or late answer.
  `InstallNext`, `InstallSnapshotToPeers`, `InstallSnapshotReplied` and
  `InstallSnapshotFinish` are the steps of sending a snapshot.
- `RequestVote`, `AppendEntries`, `InstallSnapshot` are the handlers. All of a
  handler is one step, its deferred `persist` included.
- `Apply` computes a batch under the lock, `Deliver` sends one message of it
  on `applyCh`. `serving[i]` is what the service does after it took a message:
  `SaveSnapshot` after a command, `ReadSnapshot` after a snapshot message.
  The service takes the next message only then, but Raft goes on meanwhile.
  The size of the Raft state and the snapshot it leads to are one step; a size
  that is out of date when it is used amounts to another `MaxRaftState`.
- `Restart` is a crash followed by `Make`: only `persisted` survives.

The network (`Respond`, `Abandon`, `Hangup`): a request is handled at most
once. Its answer reaches the caller only while the caller waits for that very
request. A caller that gives up leaves its request lost or `late`, to be handled
at any time after; that is how delay and reordering arise. labrpc does not
duplicate.

Data: a command is a model value; a log entry is a term and a command; a
snapshot is the sequence of entries it stands for; the size of the Raft state is
the length of the log. `getRealLogIndex` is `Real` (one-based). Timers only say
that their action may happen at any time. `chosen` and `restarts` are history:
`chosen` records what leaders have committed and in which term.

Deliberate details of the code that the model keeps: `RequestVote` never sets
`reply.Term`; `XTerm` is read from `reply.Term`; a rejection overwrites
`matchIndex`; a leader that steps down keeps `voteFor`; the term learnt from an
`InstallSnapshot` answer is not persisted; `nextIndex` after a snapshot is
computed from the snapshot index of that moment; the snapshot message resets
`commitIndex`; `commitIndex` is persisted, `lastApplied` is not.

Left out: the durations of timers, `LockSeq`, and the slice that is shared between
an RPC's arguments and the log. The locks and channels on the way to the service
are in `ApplyLoop`.

### How `ApplyLoop` corresponds to the code

A critical section is one step unless it waits, for a channel or for the other
mutex, while it holds one. There are three such places. `AppendEntries` holds
`rf.mu` while it sends on `notifyApplyCh` (`blocked`); `WaitApplyCh` holds `kv.mu`
while it takes a snapshot, which needs `rf.mu` (`service = "saving"`); and it holds
`kv.mu` while it sends a result on an unbuffered channel (`"notifying"`). `loop` is the
place of the apply goroutine: in its `select`, signalling itself after a tick, in
`Apply` before its batch, sending a message, or about to count it as applied. The
timer is `armed` (it runs) and `fired` (a tick waits in its channel), since `Reset`
does not remove a tick. `handler[h]` is the place of `waitForRaft`.

The server leads or follows (`leading`). Only a follower is signalled: `hasCommit` is
never set in `LeaderCommit` (`append_entries.go:263`), so that a leader commits in
silence and its timer alone gets the command applied.

### How `RaftService` and `KVRaft` correspond to the code

`RaftService` keeps the committed `log`; `tail[s]`, what server `s` has after it,
or `None` when its log lacks a committed command; `leads[s]`, the term in which it
believes to lead. A deposed leader goes on to take commands, which are lost, until
it hears of the new one.

`KVRaft` has a step for each critical section under `kv.mu` and for each RPC. A
request goes `started` (after `Start`), `waiting` (registered), `notified` or
`timedout`, and then returns. `sending[s]` is the request to whose channel
`WaitApplyCh` is sending under the lock: while it is set no other section of `s`
runs. `WaitApplyCh` is all of one loop: the command, `lastApplied`, a snapshot when
the state is large, and the send. `InstallSnapshot` and `ReadSnapshot` are apart,
as Raft changes the disk before the service loads it; that the snapshot it then
finds is the one of the message is assumed here, and `raft_late` (section 3) shows
that `Raft` does not guarantee it. A value is the sequence of
the operations that made it, so that a repeated Append shows. The clerk repeats an
operation with the same number; a round of `FindLeader` accepts the answer of a
server that leads in the same term as the last known leader or a later one.

`states`, `seen` and `answer` are history: the data after each command, the values
a clerk's key has had since its call, and what its last Get returned.

One assumption is in `CallFails`: labrpc tells a caller that its call failed after
the handler has called `Start`. It looks for a dead server every 100 ms, and a
handler has nothing to wait for before `Start`.

### How `ShardConfig` and `ShardMaster` correspond to the code

An operator of `ShardConfig` is the set of results that Go's map iteration may lead
to. `Shrink` and `Grow` are the two branches of `adjustConfig`; `Taken` is the
counting loop that stops when its counter is 0 and runs on if it was negative.
`ShardMaster` keeps the check of STABLE and the change to TRANSITION apart
(`WaitStable`, `StartOp`), as the code does not hold `sm.mu` between them; a
handler on a server that does not lead any more goes on to FREEZE and STABLE. Nothing is on disk
but the log, so a restart begins with configuration 0. A clerk looks only at
`WrongLeader`, and takes a timeout for success.

### How `ShardKV` corresponds to the code

`handler` is the set of RPC handlers. One goes from `check` (the loop until STABLE)
over `shard` (`checkAndMigrateShard`) to `start`, `register` and `wait`, the three
parts of `waitForRaft`, and from there to OK or over `timedOut` to `ErrTimeOut`; the
checks, `Start`, the registration of the channel and its removal are steps apart, as
no lock is held between them. `Migration` begins at `start`. A handler whose caller
has given up goes on for nobody. `stuck` is the set of servers whose `applyOp` sends,
with `kv.mu` held, to a handler that has timed out and waits for `kv.mu`.

`find[s]` is the place of the goroutine `FindConfig`: the poll, which comes at any
time, also while a configuration handed in before is not applied; the change to
TRANSITION; the shards still to send and the call under way; the final `Start` of the
configuration. `data[s][i]` is a map, a nil map, or absent, since an Append to a nil
map panics, gob turns a nil map into an empty one, and a leader deletes what it gave
away. Panics (`down`) also come from reading or encoding a configuration that is nil.
The Raft of a group is one log: a command of its leader is in it, and is lost when
another server is elected before anyone has applied it. A clerk asks the servers of a
group in their order (`tried`). `store`, `done`, `seen` and `answer` are history.

### How `MapReduce` corresponds to the code

`schedule`, `ReportTask` and the locked half of `ReqTask` (`ReqTaskLocked`) are
one step each, as they hold `m.mutex`. `ReqTask` is the unlocked half, which reads
`phase` while `schedule` may write it. `schedule` is always ready: `TickSchedule`
starts it every second and each `ReportTask` once more. The branch that starts the
reduce phase releases the mutex before it calls `schedule` again, so that call is
a step of its own.

`StartTime` is written once per phase, so that one flag, `expired`, says whether the
ten seconds are over for all tasks. A worker creates a file, and then fills it, in
two steps; a reduce task reads the intermediate files one by one. A file is
described by who created it last and whether it holds a part, the right content or
a wrong one. When a second `os.Create` falls between the two steps, either content
may be what remains. A worker process may die at any point of a task; a call to a
master that is gone ends it too. A worker without a task dereferences a nil pointer
(`worker.go:194`) and is gone. A report outside of the task table panics in the
goroutine of net/rpc and takes the master with it. `requeued` is history: the tasks
that were queued again.

## 3. Model checking

All runs of `Raft` have three servers, except `raft_figure8` with five. A run may stop
when its bounds are used up, so deadlock is not checked. The bounds are
constants of `Raft`: `MaxTerm`, `MaxIndex`, `MaxCalls`, `MaxLate` (late requests),
`MaxApplied`, `MaxRestarts`, `MaxRaftState`. `MaxCalls` is 1 in all runs: of the calls
of `AppendEntries` and `InstallSnapshot`, of all leaders to all peers, one is waited
for at a time. Two calls to different peers touch different servers except for the
leader, which takes their answers one by one; what overlaps in these runs is a late
request with the calls after it, a call with elections and crashes, and with what
the services do.

| Run | Terms, indexes, late, restarts | Checks |
|---|---|---|
| `raft_log` | 2, 2, 1, 1 | `TypeOK`, `ElectionSafety`, `ElectionInv`, `VotesAreFinal`, `LogSafety`, `LeaderCompleteness`, `LogMatching`, `ChosenDurable`, `EntryIdentity` |
| `raft_snapshot` | 1, 2, 0, 1, snapshot at 2 entries | `NoPanic`, `SnapshotSound`, `ImplementsReplicatedLog`, `LeaderAppendOnly` |
| `raft_late` | 1, 2, 1, 0, snapshot at 2 entries | `ImplementsReplicatedLog` is violated |
| `raft_figure8` | 4, 3, 0, 0, servers leading in turns | `AppliedValuesMatch` is violated |

Action constraints narrow them (`MCRaft`). `PromptElections`: while an election runs
only steps of elections and crashes are taken. `raft_log` has two commands, of which
the first to be started is fixed; a crash or a late request, one of them, falls into
behaviours with one entry (`OneFault`), the others have two; and a request is late
when some server is in a later term than its sender (`LateIsOld`). In `raft_snapshot`
the services of two servers, any two, apply commands (`TwoServices`). `raft_late` looks
only at behaviours that lead to what it finds: all is started before anything is sent,
nothing is lost, and one peer keeps up.

Why these bounds: two terms give two leaders, or two candidates in a term, and a
log that must be repaired; two indexes give a gap, and an entry on either side of
a snapshot; one late request overtakes every later one of its caller; one crash
falls on every step of the others. `raft_log` shows the log safe within two terms of
three servers, and no further, as the next paragraph says. `LogMatching`, `EntryIdentity`,
`ElectionSafety` and `VotesAreFinal` are proved for any number of them.

`raft_figure8` finds what the code does differently from its tests and design
notes. `matchIndex` is documented as the highest entry *known to be replicated*
(`raft.go:77`), but a rejection sets it to one less than the next index to try
(`append_entries.go:145`), whatever the peer holds there. With five servers this
lets `LeaderCommit` commit an entry that no majority has. A later leader
overwrites it, and two services apply different commands at the same index, the
failure `config.go:387` reports.

`raft_late` finds a repetition. A service that is slow to load a snapshot finds a
newer one on its disk, and then gets from the batch of `Apply` a command which that
snapshot already contains (`kvraft/server.go:139`), although `CommandValid` is to mark a
*newly* committed entry (`raft.go:36-37`). It takes two indexes and one late
`AppendEntries`; with nothing late, `raft_snapshot` finds no gap and no repetition,
also when servers crash.

Snapshots have a limit of their own. `InstallSnapshot` keeps the entries after its
index without comparing terms (`snapshot.go:122-123`), so that a stale entry may
become the first one of a log, and `AppendEntries` does not look at the term at the
index of a snapshot (`append_entries.go:209`), so that it stays there. A server that
leads with such a log sends the stale term as `PrevLogTerm`, and a peer that has the
same stale entry takes it for a match: two logs agree at an index and not before it.
This takes three terms and five servers, two of which have the stale entry while
three go on without them. No run has that many, and the theorem about `LogMatching`
excludes snapshots.

A further limit: with four terms and no timing at all, the stale `voteFor` of
`append_entries.go:94` (its own id, carried into a term in which the server never
voted) can make a server vote for itself with an old log. The answer that does it
would have to be older than an election timeout, which `RPCTimeout` rules out
(150 ms against 300 ms and more), so no run claims it as a flaw and none
relies on its absence.

The runs of `Raft` assume no fairness: their properties are safety properties.

| Run | Map tasks, reduce tasks, workers, crashes | Checks |
|---|---|---|
| `mr_tasks` | 3, 2, 2, 1 | `TypeOK`, `QueueCoherent`, `ReduceFindsFiles`, `MapBarrierIsEmpty`, `OnceMeansOutput` |
| `mr_done` | 2, 2, 2, 1 | `DoneMeansOutput` is violated |

Two workers are enough for a task to be done twice at once, and for a report to
come in late; one crash falls on every point of a task; more map than reduce tasks
make a late report leave the table. The ten seconds may be over at any time in either
phase. The bounds are `MaxCrashes` and, in `mr_tasks`, two tasks that are queued
again, as often as the code does it (`FewRequeued`). Deadlock is not checked, since a
job that is done stops.

`mr_done` finds that `DoneMeansOutput` fails. `ReportTask` does not compare the phase of
a task with its own. A map task that was repeated is reported again in the reduce
phase, and completes the reduce task of the same number: `Done` says "the entire
job has finished" (`master.go:69-70`), and an output file is missing. What does hold is
`OnceMeansOutput`: after a map phase in which nothing was repeated, every output is
there, none is made from a part of a file, and each one of a task that was handed out
once is right, whatever crashed and whichever other reduce tasks were repeated.

Whether a job ends is not asked of the model, since it need not. A reduce task that
timed out is queued again, but the phase moves on to the barrier all the same
(`master.go:256`), where nothing is handed out and only running tasks are looked at. The
map phase repeats tasks from its barrier, after going back to `map`, and
`MapBarrierIsEmpty` shows that no task is left behind there.

### The services

| Run | Instance | Checks |
|---|---|---|
| `apply` | one handler, a channel of 2, 3 indexes | `TypeOK`, `BatchFits`, `AppliesCommitted`, `CallsReturn` |
| `kv` | 2 servers, a clerk with 2 operations and 3 requests, snapshots every 2 commands, one fault | `TypeOK`, `ReplicasFollowLog`, `ImplementsKVStore`, `OpsFinish` |
| `sm` | 2 servers, 2 clerks, 4 groups, 5 shards, one fault | `TypeOK`, `ReplicasAgreeOnGroups`, `JoinBalances`, `IdleIsStable`, `QueryIsFresh` |
| `sm_leave` | a server, a clerk with 2 operations, 5 groups, 10 shards | `LeaveReassigns` is violated |
| `skv` | groups of 1 and 2 servers, 2 shards, a clerk with one operation, 2 configurations, one fault | `TypeOK`, `ReplicasFollowLog`, `AnswersAreCommitted`, `ComesToRest` |
| `skv_store` | the same with two operations, without faults | `ImplementsKVStore` is violated |

A fault is a restart, the replacement of a leader that runs, a call that fails, or
a timeout; `MaxFaults` bounds them, `MaxOps`, `MaxRequests`, `MaxConfigs` and
`MaxLog` the work. Deadlock is not checked, since the work ends.

`apply`. A channel of two places instead of ten fills up with the same orders of
steps, only sooner. `AppliesCommitted` and `CallsReturn` say that committed
commands are applied and calls return, except in cases which they name, two of them
deadlocks:

- `WaiterGone`: `WaitApplyCh` sends, holding `kv.mu`, to a handler that has just
  timed out and waits for `kv.mu` to remove its channel (`kvraft/server.go:165`);
- `NotifyFull`: `notifyApplyCh` is full, and its only reader either adds to it
  (`raft.go:504`) or waits for `rf.mu`, which a handler holds that adds to it;
- `SetBack`, for `AppliesCommitted` alone: a server that has become leader loads a
  snapshot, which sets its `commitIndex` back (`raft.go:560`), and nothing but a new
  command makes it look again.

Fairness: goroutines run, timers fire, and a follower gets heartbeats, which repeat
what is committed (`Recommit`) and so make up for a `commitIndex` that was set back. No
election and no command is sure to come, and a leader gets no heartbeats.

`kv`. Three requests for two operations give a repeated request; with one fault it
is repeated because of a lost reply, a deposed leader or a restart, and without one
because of a timeout. The constraint `WriteThenUse` makes the first operation a
write and the second an Append or Get, which are the ones that could tell.
`OpsFinish` excepts the deadlock `WaiterGone` (here `Stuck`) and the bound on
requests. Its fairness: goroutines go on (`WF` of `GoOn`), and a clerk that repeats
its call and its rounds of `FindLeader` without end succeeds if it can again and
again (`SF`).

`sm`. The constraint `OverlapOrSerial` unites two questions in one run: two simple
operations that overlap in every way, with a fault; and any two changes of up to
four groups one after the other, with one server. Five shards and four groups give each case
of `adjustConfig`: a remainder, groups at, above and below the average, several
groups at once. What it shows of the hazards in `adjustConfig`: replicas agree on
the groups and not on the shards (the iteration order of maps); a Join from a
balanced configuration is balanced and minimal. After a Leave the remainder stays
with a group that is gone whenever too few of the remaining groups are off the
average: `sm_leave` violates `LeaveReassigns`, which the tests of the shard master
state for every configuration they see (`test_test.go:25-33`).

`skv`. The first group joins, and when all servers know of it a clerk begins its
operation and the second group joins, at any time with respect to each other
(`JoinFirst`, `FirstIsTaken`, `SecondJoins`). One fault falls on any step of this
(`FaultLater`): a restart, the replacement of a leader, a lost or late call, a timeout,
a snapshot that is installed, a command that is applied before its handler has
registered, or a poll before what was handed in is applied. `FollowerLater` lets the
follower of the second group apply a command after its leader. `MaxLog` is never
reached: `Repeats` leaves out polls that would hand in again what every server of the
group has.

`ReplicasFollowLog` says that what a group holds is the doing of its log, apart from
shards it gave away, whatever is repeated, restarted or removed in between;
`AnswersAreCommitted` that no OK is given for a command which an election may still take
back; `ComesToRest` that clerks and groups which wait for one another, a handler for
STABLE, a group for the one that takes its shard, all go on. It excepts two ways in
which a server ends, and the run reaches both: a panic (an Append to a map that is nil, a
request to a server without a configuration, a snapshot with a configuration that is
nil), and the deadlock of `applyOp` with a handler that timed out
(`waitApply.go:88`, `server.go:260`). Fairness: goroutines go on, a leader is elected when
there is none, and a clerk repeats its request; none of it asks for a fault.

`skv_store`. To clerks that work during a change the groups are not one store, and no
fault is needed for it. A handler checks the state and the owner of the shard before
`Start`, and nobody checks again when the command is applied. A Get that passed
under the old configuration runs after the shard was removed (`migration.go:27`) and
returns nothing, although an Append to its key had returned before. Two more ways to
the same end are in the model: migration replaces what the new group holds for a
shard (`waitApply.go:53`), and it does not carry the table of applied requests
(`migration.go:11`), so that a write is lost or done twice. The tests run clerks
concurrently with joins, leaves and shutdowns (`test_test.go:329-479`, `523-690`) and
require that the history be linearizable (`683`).

## 4. Proofs

TLAPS checks the following, for all values of the constants under the named
assumptions (finite sets of servers, bounds that are numbers, `None` unlike
anything else).

| Module | Theorem | Statement |
|---|---|---|
| `RaftTypeProofs` | `TypeCorrect` | `Spec => []TypeOK` |
| `RaftElectionProofs` | `ElectionInvariant` | `Spec => []ElectionInv` |
| | `ElectionIsSafe` | `Spec => []ElectionSafety` |
| | `VotesFinal` | `Spec => VotesAreFinal` |
| `RaftWriteProofs` | `LeadersAppendOnly` | `Spec => LeaderAppendOnly` |
| `RaftLogProofs` | `LogInvariant` | `Spec => []LogInv` |
| | `EntriesIdentified` | `Spec => []EntryIdentity` |
| | `LogsMatch` | `MaxRaftState = -1` implies `Spec => []LogMatching` |
| `ApplyLoopProofs` | `ApplyNeverPanics` | `Spec => []BatchFits` |
| | `TypesHold` | `Spec => []TypeOK` |
| | `DeadlocksAreFinal` | `Spec => [][StaysStuck]_vars` |
| `KVRaftProofs` | `ReplicasFollow` | `Spec => []ReplicasFollowLog` |
| | `ReplicasAgreeAlways` | `Spec => []ReplicasAgree` |
| | `TypesHold` | `Spec => []TypeOK` |
| | `Linearizable` | `Spec => ImplementsKVStore` |
| `ShardMasterProofs` | `ReplicasAgree` | `Spec => []ReplicasAgreeOnGroups` |
| | `AnswersAreFresh` | `Spec => []QueryIsFresh` |
| | `IdleServersAreStable` | `Spec => []IdleIsStable` |
| `MapReduceProofs` | `TypeCorrect` | `Spec => []TypeOK` |
| | `QueueIsCoherent` | `Spec => []QueueCoherent` |
| | `FilesAreFound` | `Spec => []ReduceFindsFiles` |
| | `BarrierIsEmpty` | `Spec => []MapBarrierIsEmpty` |
| | `OutputIsRight` | `Spec => []OnceMeansOutput` |

### Elections

`TypeCorrect` (from `ServerAssumption`, `BoundAssumption`, `NoneAssumption`) has one
lemma per action. It includes that no log is ever empty and that an answer is of
its request's kind.

`ElectionSafety` is not inductive: whether a candidate may win depends on votes
counted long before. `ElectionInv` adds what the argument needs:

1. `CountedVotesStand`: whoever's vote a candidate counts has that vote on disk,
   or a later term;
2. `OwnVoteOnce`: a candidate does not ask itself;
3. `VotesExclusive`: two candidates of a term count disjoint sets of servers;
4. `LeaderHasQuorum`: a majority stands by each leader, none of which another
   candidate of the term counts;
5. `DiskBehindMemory`: a disk has the vote that the memory has, and no later term.

`RaftElectionProofs` shows that an `ElectionStep`, an abstract step which
changes one voter, one ballot or one leader in the ways elections may, preserves
`ElectionInv`: two majorities intersect, and what is on disk is never taken
back. It then shows that each action is an `ElectionStep`, also a `Restart`, which
returns a server to what is on its disk, and `InstallSnapshotFinish`, which
leaves the disk behind the memory. `VotesFinal` follows from the same steps.

### Logs

`RaftWriteProofs` says what a step may do to logs, disks and requests: a
`WriteStep` leaves a log as it is, reads it back from disk, cuts it at a snapshot,
splices the entries of a request into it, or appends the command a leader was
given; what it writes to disk is the log in memory, and a new request carries what
its sender has. `NextIsWriteStep` has one case per action.

That an index and a term name one entry is not inductive either: the entry may
have left the logs, and be on a disk or under way, when a leader makes another.
`LogInv` speaks of all three places (`AllEntries`), and adds

1. `LeadersElected` and `EntriesElected`: every leader, and some server for the term
   of every entry, has won its election (`Elected`): a majority voted for it or went
   on to a later term, nobody of which another candidate of the term counts;
2. `LeaderAhead`: no entry of a leader's term is beyond the end of its log;
3. `EntriesAgree`: entries with the same index and term are the same.

A step makes at most one entry, at the end of a leader's log (`WriteStepEntries`). By 2
no entry of that term was there before. That 2 holds for a server which becomes
a leader is where elections come in: were there an entry of its term already,
that term would have two winners (`OneWinner`), and `ElectionInv` and `Elected` exclude
this. `LeadersAppendOnly` follows from `WriteStep` alone: only a follower splices or
reloads.

`LogsMatch` needs that no service takes snapshots, for the reason given in section
3. All logs then start with the entry of term 0 at index 0 (`NeverCut`), and the
invariant is about links, entries with the term of the entry before them: two links
with the same index and term are the same (`LinksAgree`). A splice makes no new
link since `AppendEntries` compares `PrevLogTerm`; a leader's new link is excluded as
before. From links that agree to prefixes that agree it is an induction downwards
from the common entry (`PrefixesMatch`), which takes the last position where two logs
differ. The proof holds over crashes, late requests and the stale `matchIndex` and
`voteFor` of section 3, none of which can damage log matching: what they damage is
which entries are committed.

### Applying

`BatchFits` (`lastApplied <= commitIndex`) keeps `Apply` from asking for a negative
capacity. It is not inductive: `BatchInv` adds that the commands of a batch are
committed and that a snapshot message is alone in its batch, so that the
`commitIndex` it sets back is not behind a command that follows. `DeadlocksAreFinal` shows that
the two deadlocks among the exceptions of the liveness properties are real: no step leaves `WaiterGone` or
`NotifyFull`, whatever the capacity of the channel (`LoopAssumption`).

### kvraft

Assumptions: `KVBounds` (the bounds are numbers) and `NoneIsNothing`; and, as the
shape of the model, that Raft keeps the promise of `ReplicatedLog`. The runs of
`Raft` check that promise on small instances, and `raft_figure8` shows where the
code breaks it; the theorems are about `kvraft` where it is kept.

`ReplicasFollowLog` is inductive with the types and `StatesFollowLog`, which says
that the history of states is that of the commands in the log.

`Linearizable` is a refinement. `Begin` is `Call` of `KVStore`, the first commit
of a Put or Append is `TakeEffect`, a reply OK is `Return`, and every other step
changes nothing that clerks can see. What has to be shown is that a command that
executes belongs to the operation its clerk is waiting for: the table
`lastApplied` holds only the last request of a clerk (`kvraft/server.go:221`), so
that an older command, committed late, would be executed once more. The inductive
invariant `RInv` rules that out:

1. `Named`, `Calls`: an operation is named by its clerk and its number, and a
   request for the latest one is for what the clerk waits for;
2. `TailsInOrder`: in every log that may still be committed the commands of a clerk
   stand in the order of its operations, also behind those already committed;
3. `TableFromLog`, `WritesApplied`, `FinishedApplied`: the table names commands of
   the log, and a write that is committed or returned is not newer than the table;
4. `SeenNow`, `SeenAtCommit`, `SendingLast`, `Results`: the value a handler returns
   is one the key has had since the call.

From these `ExecutesCurrent` concludes that a write that is not in the table is the
current one. `TailsInOrder` needs the assumption in `CallFails` (section 2): a
request that called `Start` after its clerk had gone on to the next operation
would break it. `RInv` was checked by TLC on the instance of `kv` before the proof.

### The shard master

Assumption: `NoneIsNoRequest`; and, as for `kvraft`, that Raft keeps its promise.
Neither `ReplicasAgreeOnGroups` nor `QueryIsFresh` is inductive. Both follow from
what the log says, which the model has no variable for. `Ledger(G, k, last)` says
it with three functions that exist in every state: after `n` commands of the log
there are `k[n]` configurations, the i-th has the groups `G[i]`, and `last[n]` is the
table of applied requests. A server that has applied `n` commands has exactly the
first `k[n]` configurations, and the table `last[n]`. A commit extends the three
functions, `apply` moves one server along them, and a restart takes it back to the
beginning of the same functions, so that what it does again it does in the same way.
How `adjustConfig` distributes the shards plays no part: `NextFields` shows that
each of its results has the number and the groups that follow.

`Fresh(k)` relates the ledger to the clerks: nobody knows of a configuration that the
log does not have, and a command of the operation a clerk is at was committed after
what was known when the operation began. `Answered` says that a handler with an
answer has it from a server which had applied the handler's own command. Together
they bound the number in an answer from below, whatever else was committed meanwhile.

`IdleIsStable` is proved from `Explained`: a server that is not STABLE has a handler
of a change between `Start` and its return. Every exit of a handler sets STABLE,
also one that timed out or found that the server does not lead, and a restart does.

### MapReduce

Assumptions: there are tasks of both kinds (`SizeAssumption`), the bound on crashes is
a number (`CrashAssumption`), and `None` is no file (`NoneAssumption`). The invariant `IInv` has the types and

1. `QueueInv`: the queue and the table agree (`Agree`), for any order in which
   late reports come in;
2. `WorkerInv`: the file a worker writes to is there, a map task has left the files
   of the reduce tasks before its own place in the loop, and in the map phase
   nobody works on a reduce task;
3. `FilesInv`: in the map phase a task is COMPLETED only when all its files are there.

The last two carry `ReduceFindsFiles` over the change of phase. A late report of a
map task in the reduce phase may complete the wrong task, which disturbs none of
these, but disturbs the output. `OnceMeansOutput` therefore asks that no map task was
queued again, and the proof carries `MapsOnce => OutInv` along: a task that was not
queued again has one owner while it is handed out (`Owns`, `OneOwner`), who reports it
in the phase it was handed out in; what this owner has written is right (`Wrote`), and
nobody else opens its file; and COMPLETED means right, or, for a reduce task that was
repeated, a file that holds no wrong result (`TableRight`). Timeouts, repetitions and
crashes in the reduce phase are all included. The order of the loop over the table,
`InOrder`, is a choice of an ascending sequence; `TableOrder` shows that there is one.

### Only model-checked

- All liveness (`AppliesCommitted`, `CallsReturn`, `OpsFinish`, `ComesToRest`):
  fairness is out of the prover's reach.
- `LogSafety`, `LeaderCompleteness`, `ChosenDurable`, `NoPanic`, `SnapshotSound` and
  the refinement of `ReplicatedLog`. The first three cannot be proved of this code
  for any number of servers and terms, since `raft_figure8` refutes their
  consequence. The others rest on them: an index that is committed but not in the
  log is what `NoPanic` excludes. What the logs of this code do keep is the subject
  of `RaftWriteProofs` and `RaftLogProofs`.
- `JoinBalances` and `TypeOK` of the shard master. What the shards are
  is the result of loops of `adjustConfig` over the groups in any order. To say
  what such a loop computes takes an induction over the groups it has seen, with
  the body of the loop as a parameter, and the provers cannot apply such a lemma.
- `ShardKV`. Its `ReplicasFollowLog` is about what a sequence of commands makes of a
  shard, an induction over the log.

## 5. Not modelled

- `labgob`: a wrapper of `encoding/gob` with warnings. What gob does to nil maps
  and nil pointers is in `ShardKV`, where it matters.
- `porcupine` and `models`: the linearizability checker of the tests.
- `main` and `mrapps`: entry points, and the map and reduce functions of the tests.
- The test harnesses (`config.go`, `test_test.go`): their assertions are quoted
  where a property states them.
- labrpc's registry, its switches and counters: test machinery. Its losses, delays
  and timeouts are in the network of each module.
- Timing: the liveness of elections, which rests on randomized timeouts
  (`raft.go:203`), and the order of events that timeouts rule out.
- The slice of `rf.log` that an RPC's arguments share (`raft/common.go:67`), and the map
  of a shard (`shardkv/migration.go:13`): the models copy the data under the lock.
- `Move` in `ShardKV`, where shards change hands without a change in the number of
  groups, so that nothing is migrated (`server.go:191`).
- `Stable` and `findGid` of the shard master only read, and nobody calls them.
