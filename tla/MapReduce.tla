------------------------------ MODULE MapReduce ------------------------------
(* The MapReduce library: the Master with its task table and its queue, the   *)
(* workers, and the files they share. A step under m.mutex is one action; a   *)
(* worker's access to one file is one action.                                 *)
EXTENDS Integers, Sequences, FiniteSets

CONSTANTS
  Worker,       \* the worker processes
  NMap,         \* master.nTask, one map task per input file
  NReduce,      \* master.nReduce
  None,         \* no file, no task
  MaxCrashes    \* how often a worker process may die by itself

ASSUME SizeAssumption == NMap \in Nat \ {0} /\ NReduce \in Nat \ {0}
ASSUME CrashAssumption == MaxCrashes \in Nat

VARIABLES
  phase,          \* Master.phase
  allTask,        \* Master.allTask: the Status of each task of the phase
  freeTaskQueue,  \* Master.freeTaskQueue
  expired,        \* ten seconds have passed since the StartTime of allTask
  up,             \* the master process is there
  worker,         \* where each worker process is
  inter,          \* the files mr-<map>-<reduce>
  out,            \* the files mr-out-<reduce>
  crashes,
  requeued        \* the tasks that were queued again, of either phase

masterVars == <<phase, allTask, freeTaskQueue, expired, up, requeued>>
files == <<inter, out>>
vars == <<masterVars, worker, files, crashes>>

MapTask == 0 .. NMap - 1
ReduceTask == 0 .. NReduce - 1
Task == [Phase : {"map"}, i : MapTask] \cup [Phase : {"reduce"}, i : ReduceTask]

(* A file that holds everything its task writes to it, something else, or    *)
(* only a part; and whose os.Create was the last                             *)
File == [by : Worker, holds : {"part", "right", "wrong"}]
ASSUME NoneAssumption == None \notin File

WorkerState ==
  [at : {"down", "finished", "asking", "locking"}]
    \cup [at : {"create", "encode", "read", "write", "report"}, task : Task, k : Nat,
          good : BOOLEAN]

Init ==
  /\ phase = "map"
  /\ allTask = [i \in MapTask |-> "IDLE"]
  /\ freeTaskQueue = << >>
  /\ expired = FALSE
  /\ up = TRUE
  /\ worker = [w \in Worker |-> [at |-> "down"]]
  /\ inter = [m \in MapTask |-> [r \in ReduceTask |-> None]]
  /\ out = [r \in ReduceTask |-> None]
  /\ crashes = 0
  /\ requeued = {}

-----------------------------------------------------------------------------
(* The master *)

With(status) == {i \in DOMAIN allTask : allTask[i] = status}

(* The tasks S in the order of the table *)
InOrder(S) ==
  CHOOSE q \in [1 .. Cardinality(S) -> S] : \A a, b \in DOMAIN q : a < b => q[a] < q[b]

(* getTask *)
getTask(i) ==
  [Phase |-> IF phase \in {"map", "map_barrier"} THEN "map" ELSE "reduce", i |-> i]

getTasks(S) == [n \in DOMAIN InOrder(S) |-> getTask(InOrder(S)[n])]

Enqueue(S) ==
  /\ freeTaskQueue' = freeTaskQueue \o getTasks(S)
  /\ allTask' = [i \in DOMAIN allTask |-> IF i \in S THEN "IN_QUEUE" ELSE allTask[i]]

TimedOut == IF expired THEN With("IN_PROGRESS") ELSE {}

(* Those that the phases look for: "map" does not look at the time *)
Overdue == IF phase = "map" THEN {} ELSE TimedOut

QueueTasks(S) ==
  /\ Enqueue(S \cup Overdue)
  /\ requeued' = requeued \cup {getTask(i) : i \in Overdue}

(* Mutant of AllComplete: a task that is handed out counts as done *)
NoneLeft == With("IDLE") \cup With("IN_QUEUE") = {}

AllComplete == With("COMPLETED") = DOMAIN allTask

(* The phases "map" and "reduce" of schedule: only the latter looks at the   *)
(* time, and does not count what it requeues as queued                       *)
ScheduleTasks(barrier) ==
  /\ QueueTasks(With("IDLE"))
  /\ phase' = IF With("IDLE") \cup With("IN_QUEUE") = {} THEN barrier ELSE phase
  /\ UNCHANGED <<expired, up, worker, files, crashes>>

(* Mutant of ScheduleBarrier: the phase stays when a task is queued again *)
ScheduleBarrierStays(base) ==
  /\ ~AllComplete
  /\ QueueTasks({})
  /\ UNCHANGED <<phase, expired, up, worker, files, crashes>>

ScheduleBarrier(base) ==
  /\ ~AllComplete
  /\ QueueTasks({})
  /\ phase' = IF TimedOut # {} THEN base ELSE phase
  /\ UNCHANGED <<expired, up, worker, files, crashes>>

(* Mutants of ScheduleReduce: the queue, the table is that of the map phase *)
ScheduleReduceOldQueue ==
  /\ phase' = "reduce"
  /\ allTask' = [i \in ReduceTask |-> "IDLE"]
  /\ expired' = FALSE
  /\ UNCHANGED <<freeTaskQueue, up, requeued, worker, files, crashes>>
ScheduleReduceOldTable ==
  /\ phase' = "reduce"
  /\ freeTaskQueue' = << >>
  /\ allTask' = [i \in DOMAIN allTask |-> "IDLE"]
  /\ expired' = FALSE
  /\ UNCHANGED <<up, requeued, worker, files, crashes>>

(* All map tasks are COMPLETED. schedule calls itself after it released the  *)
(* mutex: that is another step                                               *)
ScheduleReduce ==
  /\ phase' = "reduce"
  /\ freeTaskQueue' = << >>
  /\ allTask' = [i \in ReduceTask |-> "IDLE"]
  /\ expired' = FALSE
  /\ UNCHANGED <<up, requeued, worker, files, crashes>>

ScheduleFin ==
  /\ phase' = "fin"
  /\ UNCHANGED <<allTask, freeTaskQueue, expired, up, requeued, worker, files, crashes>>

(* TickSchedule starts it every second, and each ReportTask once more *)
schedule ==
  /\ up
  /\ \/ phase = "map" /\ ScheduleTasks("map_barrier")
     \/ phase = "map_barrier" /\ ScheduleBarrier("map")
     \/ phase = "map_barrier" /\ AllComplete /\ ScheduleReduce
     \/ phase = "reduce" /\ ScheduleTasks("reduce_barrier")
     \/ phase = "reduce_barrier" /\ ScheduleBarrier("reduce")
     \/ phase = "reduce_barrier" /\ AllComplete /\ ScheduleFin

(* No step sets StartTime again, so that once the ten seconds are over every *)
(* task of the phase is late                                                 *)
TenSeconds ==
  /\ ~expired /\ up
  /\ expired' = TRUE
  /\ UNCHANGED <<phase, allTask, freeTaskQueue, up, requeued, worker, files, crashes>>

(* mrmaster.go: main returns when Done *)
MasterExit ==
  /\ up /\ phase = "fin"
  /\ up' = FALSE
  /\ UNCHANGED <<phase, allTask, freeTaskQueue, expired, requeued, worker, files, crashes>>

-----------------------------------------------------------------------------
(* The workers. A call to a master that is gone ends in log.Fatal *)

Goes(w, s) == worker' = [worker EXCEPT ![w] = s]
At(w, place) == worker[w].at = place
Move(w, place, k, good) ==
  worker' = [worker EXCEPT ![w].at = place, ![w].k = k, ![w].good = good]

(* MakeWorker and register; test-mr.sh starts a worker again when it is gone. *)
(* The worker's number is only printed                                        *)
MakeWorker(w) ==
  /\ At(w, "down") /\ up
  /\ Goes(w, [at |-> "asking"])
  /\ UNCHANGED <<masterVars, files, crashes>>

(* ReqTask before it locks. It races with schedule: a torn read of phase      *)
(* equals none of them and leads to the last branch, also when the job ends    *)
ReqTask(w) ==
  /\ At(w, "asking") /\ up
  /\ \/ phase \in {"map_barrier", "reduce_barrier"} /\ UNCHANGED worker
     \/ phase = "fin" /\ Goes(w, [at |-> "finished"])
     \/ phase \notin {"map_barrier", "reduce_barrier"} /\ Goes(w, [at |-> "locking"])
  /\ UNCHANGED <<masterVars, files, crashes>>

(* ReqTask under the mutex, and the worker's receipt of the answer: without a *)
(* task the state is GOT all the same, and run panics on task.Phase           *)
ReqTaskLocked(w) ==
  /\ At(w, "locking") /\ up
  /\ \/ /\ phase \in {"map", "reduce"} /\ freeTaskQueue # << >>
        /\ LET t == Head(freeTaskQueue) IN
             /\ freeTaskQueue' = Tail(freeTaskQueue)
             /\ allTask' = [allTask EXCEPT ![t.i] = "IN_PROGRESS"]
             /\ Goes(w, [at |-> "create", task |-> t, k |-> 0, good |-> TRUE])
     \/ /\ phase \notin {"map", "reduce"} \/ freeTaskQueue = << >>
        /\ Goes(w, [at |-> "down"])
        /\ UNCHANGED <<allTask, freeTaskQueue>>
  /\ UNCHANGED <<phase, expired, up, requeued, files, crashes>>

(* What a file may hold when w has written h to it. If another os.Create came *)
(* between, w had written a part that is gone, or it writes over the other's  *)
Written(f, w, h) ==
  IF f.by = w THEN {h} ELSE {f.holds, h}

Opened(w) == [by |-> w, holds |-> "part"]

(* doMapTask: os.Create truncates the file of the next partition *)
CreateInter(w) ==
  /\ At(w, "create") /\ worker[w].task.Phase = "map"
  /\ inter' = [inter EXCEPT ![worker[w].task.i][worker[w].k] = Opened(w)]
  /\ Move(w, "encode", worker[w].k, TRUE)
  /\ UNCHANGED <<masterVars, out, crashes>>

EncodeInter(w) ==
  LET m == worker[w].task.i
      r == worker[w].k
  IN
  /\ At(w, "encode")
  /\ \E h \in Written(inter[m][r], w, "right") :
       inter' = [inter EXCEPT ![m][r].holds = h]
  /\ IF r + 1 < NReduce THEN Move(w, "create", r + 1, TRUE) ELSE Move(w, "report", 0, TRUE)
  /\ UNCHANGED <<masterVars, out, crashes>>

(* doReduceTask: the output file is truncated first *)
CreateOut(w) ==
  /\ At(w, "create") /\ worker[w].task.Phase = "reduce"
  /\ out' = [out EXCEPT ![worker[w].task.i] = Opened(w)]
  /\ Move(w, "read", 0, TRUE)
  /\ UNCHANGED <<masterVars, inter, crashes>>

(* A file that is not there is fatal; a part of one is read as it is *)
ReadInter(w) ==
  LET k == worker[w].k
      f == inter[k][worker[w].task.i]
  IN
  /\ At(w, "read")
  /\ \/ f = None /\ Goes(w, [at |-> "down"])
     \/ /\ f # None
        /\ Move(w, IF k + 1 < NMap THEN "read" ELSE "write", k + 1,
                worker[w].good /\ f.holds = "right")
  /\ UNCHANGED <<masterVars, files, crashes>>

WriteOut(w) ==
  LET r == worker[w].task.i
      h == IF worker[w].good THEN "right" ELSE "wrong"
  IN
  /\ At(w, "write")
  /\ \E g \in Written(out[r], w, h) : out' = [out EXCEPT ![r].holds = g]
  /\ Move(w, "report", 0, TRUE)
  /\ UNCHANGED <<masterVars, inter, crashes>>

(* ReportTask indexes the table of the phase the master is in, whatever the   *)
(* phase of the task. Outside of the table it panics                          *)
ReportTask(w) ==
  LET i == worker[w].task.i IN
  /\ At(w, "report") /\ up
  /\ \/ /\ i \in DOMAIN allTask
        /\ allTask' = [allTask EXCEPT ![i] = "COMPLETED"]
        /\ Goes(w, [at |-> "asking"])
        /\ UNCHANGED up
     \/ /\ i \notin DOMAIN allTask
        /\ up' = FALSE
        /\ Goes(w, [at |-> "down"])
        /\ UNCHANGED allTask
  /\ UNCHANGED <<phase, freeTaskQueue, expired, requeued, files, crashes>>

(* The process dies, as mrapps/crash.go does in a map or reduce function *)
Crash(w) ==
  /\ worker[w].at \in {"create", "encode", "read", "write", "report"}
  /\ crashes < MaxCrashes
  /\ crashes' = crashes + 1
  /\ Goes(w, [at |-> "down"])
  /\ UNCHANGED <<masterVars, files>>

CallFails(w) ==
  /\ worker[w].at \in {"asking", "locking", "report"} /\ ~up
  /\ Goes(w, [at |-> "down"])
  /\ UNCHANGED <<masterVars, files, crashes>>

run(w) ==
  \/ ReqTask(w) \/ ReqTaskLocked(w) \/ ReportTask(w) \/ CallFails(w)
  \/ CreateInter(w) \/ EncodeInter(w)
  \/ CreateOut(w) \/ ReadInter(w) \/ WriteOut(w)

Next ==
  \/ schedule \/ TenSeconds \/ MasterExit
  \/ \E w \in Worker : run(w) \/ MakeWorker(w) \/ Crash(w)

Spec == Init /\ [][Next]_vars

-----------------------------------------------------------------------------
TypeOK ==
  /\ phase \in {"map", "map_barrier", "reduce", "reduce_barrier", "fin"}
  /\ allTask \in [IF phase \in {"map", "map_barrier"} THEN MapTask ELSE ReduceTask
                   -> {"IDLE", "IN_QUEUE", "IN_PROGRESS", "COMPLETED"}]
  /\ freeTaskQueue \in Seq(Task)
  /\ expired \in BOOLEAN /\ up \in BOOLEAN
  /\ worker \in [Worker -> WorkerState]
  /\ inter \in [MapTask -> [ReduceTask -> File \cup {None}]]
  /\ out \in [ReduceTask -> File \cup {None}]
  /\ crashes \in 0 .. MaxCrashes
  /\ requeued \subseteq Task

(* The queue and the table agree, whatever was reported late: a task is      *)
(* queued at most once, all of them are tasks of the phase, and a task that  *)
(* schedule counts as queued can be had from the queue. A task that is idle  *)
(* or handed out is not in the queue                                         *)
QueueCoherent ==
  LET queued == {freeTaskQueue[n].i : n \in DOMAIN freeTaskQueue} IN
  /\ Cardinality(queued) = Len(freeTaskQueue)
  /\ \A n \in DOMAIN freeTaskQueue :
       freeTaskQueue[n].Phase = (IF phase \in {"map", "map_barrier"} THEN "map" ELSE "reduce")
  /\ With("IN_QUEUE") \subseteq queued
  /\ queued \cap (With("IDLE") \cup With("IN_PROGRESS")) = {}

(* When the reduce phase begins every intermediate file is there, also after *)
(* crashes and when map tasks ran twice: no reduce task ends in "err in do   *)
(* reduce"                                                                   *)
ReduceFindsFiles ==
  phase \in {"reduce", "reduce_barrier", "fin"} =>
    \A m \in MapTask, r \in ReduceTask : inter[m][r] # None

(* At the barrier of the map phase, where ReqTask hands out nothing, nothing *)
(* waits to be handed out                                                    *)
MapBarrierIsEmpty ==
  phase = "map_barrier" => With("IDLE") \cup With("IN_QUEUE") = {}

(* After a map phase in which no task was queued again, the output of a      *)
(* reduce task that was handed out once is right when the job is Done,       *)
(* although others were handed out twice and workers crashed; and no output  *)
(* is made from a part of an intermediate file                               *)
OnceMeansOutput ==
  phase = "fin" /\ (\A t \in requeued : t.Phase = "reduce") =>
    \A r \in ReduceTask :
      /\ out[r] # None /\ out[r].holds # "wrong"
      /\ [Phase |-> "reduce", i |-> r] \notin requeued => out[r].holds = "right"

(* The job is Done only when every output file holds what its reduce         *)
(* function returned for all intermediate files                              *)
DoneMeansOutput ==
  phase = "fin" => \A r \in ReduceTask : out[r] # None /\ out[r].holds = "right"
=============================================================================
