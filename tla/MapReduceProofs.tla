--------------------------- MODULE MapReduceProofs ---------------------------
(* What the MapReduce library keeps for any number of map and reduce tasks, *)
(* of workers and of crashes: the queue and the table of the Master agree   *)
(* and the reduce phase finds its files, however late the workers are; and  *)
(* after a map phase in which no task was queued again, the output of every *)
(* task that was handed out once is right.                                  *)
EXTENDS MapReduce, FiniteSetTheorems, SequenceTheorems, TLAPS

Mapping == phase \in {"map", "map_barrier"}
Kind == IF Mapping THEN "map" ELSE "reduce"
Status == {"IDLE", "IN_QUEUE", "IN_PROGRESS", "COMPLETED"}
Busy(w) == worker[w].at \in {"create", "encode", "read", "write", "report"}

(* Where doMapTask and doReduceTask of a worker are in their loops: the file *)
(* it writes to is there                                                     *)
Fits(w) ==
  LET t == worker[w].task
      k == worker[w].k
  IN
  /\ At(w, "create") /\ t.Phase = "map" => k \in ReduceTask
  /\ At(w, "encode") => t.Phase = "map" /\ k \in ReduceTask /\ inter[t.i][k] # None
  /\ At(w, "read") => t.Phase = "reduce" /\ k \in MapTask /\ out[t.i] # None
  /\ At(w, "write") => t.Phase = "reduce" /\ out[t.i] # None

(* The intermediate files a map task has left, in the order of the reduce    *)
(* tasks                                                                     *)
Made(w) ==
  Busy(w) /\ worker[w].task.Phase = "map" =>
    \A r \in ReduceTask :
      At(w, "report") \/ r < worker[w].k => inter[worker[w].task.i][r] # None

WorkerInv ==
  \A w \in Worker : /\ Fits(w) /\ Made(w)
                    /\ Mapping /\ Busy(w) => worker[w].task.Phase = "map"

(* The queue q and the table agree, as QueueCoherent says without the count *)
Agree(q, table, kind) ==
  /\ \A n \in 1 .. Len(q) : /\ q[n].Phase = kind /\ q[n].i \in DOMAIN table
                            /\ table[q[n].i] \in {"IN_QUEUE", "COMPLETED"}
  /\ \A n, m \in 1 .. Len(q) : q[n].i = q[m].i => n = m
  /\ \A i \in DOMAIN table : table[i] = "IN_QUEUE" => \E n \in 1 .. Len(q) : q[n].i = i

QueueInv == Agree(freeTaskQueue, allTask, Kind)

(* The table says COMPLETED after the last file *)
FilesInv ==
  Mapping => \A m \in MapTask : allTask[m] = "COMPLETED" =>
    \A r \in ReduceTask : inter[m][r] # None

IInv ==
  TypeOK /\ WorkerInv /\ QueueInv /\ FilesInv /\ ReduceFindsFiles /\ MapBarrierIsEmpty

(* No map task was queued again; and no task i of the phase *)
MapsOnce == \A t \in requeued : t.Phase = "reduce"
Once(i) == \A t \in requeued : t.i # i

(* A task that was not queued again is handed out to one worker at a time,   *)
(* that reports it in the phase it got it in                                 *)
Owns(w) ==
  Busy(w) => /\ worker[w].task.Phase = Kind
             /\ Once(worker[w].task.i) => allTask[worker[w].task.i] = "IN_PROGRESS"

OneOwner ==
  \A v, w \in Worker :
    Busy(v) /\ Busy(w) /\ worker[v].task.i = worker[w].task.i /\ Once(worker[v].task.i)
      => v = w

Right(f) == f # None /\ f.holds = "right"

(* What a worker has written for its task is right, unless a reduce task was *)
(* queued again, and nobody else has opened the file it writes to            *)
Wrote(w) ==
  LET t == worker[w].task
      k == worker[w].k
  IN
  Busy(w) =>
    /\ t.Phase = "map" =>
         /\ \A r \in ReduceTask : At(w, "report") \/ r < k => Right(inter[t.i][r])
         /\ At(w, "encode") => inter[t.i][k].by = w
    /\ t.Phase = "reduce" =>
         /\ worker[w].good = TRUE
         /\ (At(w, "read") \/ At(w, "write")) /\ Once(t.i) => out[t.i].by = w
         /\ At(w, "report") => out[t.i] # None
         /\ At(w, "report") /\ Once(t.i) => Right(out[t.i])

(* A task is COMPLETED when its files are right, or there if it was queued    *)
(* again; and no output is made from a part of an intermediate file           *)
TableRight ==
  /\ Mapping => \A m \in MapTask : allTask[m] = "COMPLETED" =>
       \A r \in ReduceTask : Right(inter[m][r])
  /\ ~Mapping => /\ \A m \in MapTask, r \in ReduceTask : Right(inter[m][r])
                 /\ \A r \in ReduceTask : allTask[r] = "COMPLETED" =>
                      out[r] # None /\ (Once(r) => Right(out[r]))
  /\ \A r \in ReduceTask : out[r] # None => out[r].holds # "wrong"
  /\ phase = "fin" => AllComplete

OutInv ==
  /\ Mapping => requeued = {}
  /\ (\A w \in Worker : Owns(w) /\ Wrote(w)) /\ OneOwner /\ TableRight

-----------------------------------------------------------------------------
(* The queue *)

(* The loop of schedule over the table meets each task of a set once. The    *)
(* place of a task is the number of tasks up to it.                          *)
LEMMA TableOrder ==
  ASSUME NEW S \in SUBSET Nat, IsFiniteSet(S)
  PROVE  /\ Cardinality(S) \in Nat
         /\ InOrder(S) \in [1 .. Cardinality(S) -> S]
         /\ \A a, b \in 1 .. Cardinality(S) : InOrder(S)[a] = InOrder(S)[b] => a = b
         /\ \A i \in S : \E a \in 1 .. Cardinality(S) : InOrder(S)[a] = i
<1> DEFINE N == Cardinality(S)
           UpTo(i) == {j \in S : j <= i}
           rank == [i \in S |-> Cardinality(UpTo(i))]
           Sorted(q) == \A a, b \in DOMAIN q : a < b => q[a] < q[b]
<1>1. N \in Nat
  BY FS_CardinalityType
<1>2. ASSUME NEW i \in S
      PROVE  IsFiniteSet(UpTo(i)) /\ rank[i] \in 1 .. N
  <2>1. UpTo(i) \subseteq S /\ i \in UpTo(i)
    OBVIOUS
  <2>2. IsFiniteSet(UpTo(i)) /\ Cardinality(UpTo(i)) <= N
    BY <2>1, FS_Subset
  <2>3. Cardinality(UpTo(i)) \in Nat /\ Cardinality(UpTo(i)) # 0
    BY <2>1, <2>2, FS_CardinalityType, FS_EmptySet, Zenon
  <2> QED BY <1>1, <2>2, <2>3
<1>3. ASSUME NEW i \in S, NEW j \in S, i < j
      PROVE  rank[i] < rank[j]
  <2>1. UpTo(i) \in SUBSET UpTo(j) /\ j \in UpTo(j) /\ j \notin UpTo(i)
    <3>1. i \in Nat /\ j \in Nat /\ \A x \in S : x \in Nat
      OBVIOUS
    <3>2. \A x \in S : x <= i => x <= j
      BY <1>3, <3>1
    <3>3. j <= j /\ ~(j <= i)
      BY <1>3, <3>1
    <3> QED BY <3>2, <3>3, Zenon
  <2>2. Cardinality(UpTo(i)) <= Cardinality(UpTo(j)) /\ Cardinality(UpTo(i)) # Cardinality(UpTo(j))
    BY <1>2, <2>1, FS_Subset
  <2>3. rank[i] \in 1 .. N /\ rank[j] \in 1 .. N
    BY <1>2
  <2> QED BY <2>2, <2>3, <1>1
<1>4. rank \in Injection(S, 1 .. N)
  <2>1. rank \in [S -> 1 .. N]
    BY <1>2
  <2>2. ASSUME NEW i \in S, NEW j \in S, rank[i] = rank[j] PROVE i = j
    <3> HIDE DEF rank
    <3>1. ~(i < j) /\ ~(j < i) /\ i \in Nat /\ j \in Nat
      BY <1>3, <2>1, <2>2, <1>1
    <3> QED BY <3>1
  <2> HIDE DEF rank
  <2> QED BY <2>1, <2>2 DEF Injection, IsInjective
<1>5. rank \in Surjection(S, 1 .. N)
  <2>1. IsFiniteSet(1 .. N) /\ Cardinality(1 .. N) = N
    BY <1>1, FS_Interval
  <2> HIDE DEF rank
  <2> QED BY <1>4, <2>1, FS_Injection, Zenon
<1> DEFINE q == [n \in 1 .. N |-> CHOOSE i \in S : rank[i] = n]
<1>6. \A n \in 1 .. N : q[n] \in S /\ rank[q[n]] = n
  <2> HIDE DEF rank
  <2>1. \A n \in 1 .. N : \E i \in S : rank[i] = n
    BY <1>5 DEF Surjection
  <2> QED BY <2>1
<1>7. q \in [1 .. N -> S] /\ Sorted(q)
  <2>1. q \in [1 .. N -> S]
    BY <1>6, Zenon
  <2>2. ASSUME NEW a \in 1 .. N, NEW b \in 1 .. N, a < b PROVE q[a] < q[b]
    <3> HIDE DEF rank, q
    <3>1. PICK i \in S, j \in S : i = q[a] /\ j = q[b] /\ rank[i] = a /\ rank[j] = b
      BY <1>6, Zenon
    <3>2. ~(j < i) /\ i # j
      BY <1>1, <1>3, <2>2, <3>1
    <3> QED BY <3>1, <3>2
  <2> HIDE DEF q
  <2> QED BY <2>1, <2>2, SMTT(60)
<1> DEFINE o == InOrder(S)
<1>8. o \in [1 .. N -> S] /\ Sorted(o)
  <2> HIDE DEF q
  <2> QED BY <1>7, Zenon DEF InOrder
<1> HIDE DEF o, q
<1>9. \A a, b \in 1 .. N : o[a] = o[b] => a = b
  <2> SUFFICES ASSUME NEW a \in 1 .. N, NEW b \in 1 .. N, o[a] = o[b] PROVE a = b
    OBVIOUS
  <2>1. o[a] \in Nat /\ o[b] \in Nat /\ DOMAIN o = 1 .. N
    BY <1>8, Zenon
  <2>2. ~(a < b) /\ ~(b < a)
    BY <1>8, <2>1
  <2> QED BY <1>1, <2>2
<1>10. o \in Injection(1 .. N, S)
  BY <1>8, <1>9 DEF Injection, IsInjective
<1>11. o \in Surjection(1 .. N, S)
  <2>1. IsFiniteSet(1 .. N) /\ Cardinality(1 .. N) = N
    BY <1>1, FS_Interval
  <2> QED BY <1>10, <2>1, FS_Injection, Zenon
<1> QED
  <2>1. \A i \in S : \E a \in 1 .. N : o[a] = i
    BY <1>11 DEF Surjection
  <2> QED BY <1>1, <1>8, <1>9, <2>1 DEF o

(* q has one task of a kind for each element of S *)
Enumerates(q, kind, S) ==
  /\ \A n \in 1 .. Len(q) : q[n].Phase = kind /\ q[n].i \in S
  /\ \A n, m \in 1 .. Len(q) : q[n].i = q[m].i => n = m
  /\ \A i \in S : \E n \in 1 .. Len(q) : q[n].i = i

(* The table has the tasks of the phase *)
LEMMA TableType ==
  ASSUME TypeOK
  PROVE  /\ allTask \in [DOMAIN allTask -> Status]
         /\ DOMAIN allTask = IF Mapping THEN MapTask ELSE ReduceTask
         /\ DOMAIN allTask \subseteq Nat /\ IsFiniteSet(DOMAIN allTask)
         /\ \A i \in DOMAIN allTask : [Phase |-> Kind, i |-> i] \in Task
         /\ \A t \in Task : t.Phase = Kind => t.i \in DOMAIN allTask
<1>1. /\ allTask \in [DOMAIN allTask -> Status]
      /\ DOMAIN allTask = IF Mapping THEN MapTask ELSE ReduceTask
  BY DEF TypeOK, Status, Mapping
<1>2. /\ MapTask \subseteq Nat /\ IsFiniteSet(MapTask)
      /\ ReduceTask \subseteq Nat /\ IsFiniteSet(ReduceTask)
  BY SizeAssumption, FS_Interval DEF MapTask, ReduceTask
<1>3. \A i \in DOMAIN allTask : [Phase |-> Kind, i |-> i] \in Task
  BY <1>1 DEF Task, Kind
<1>4. \A t \in Task : t.Phase = Kind => t.i \in DOMAIN allTask
  BY <1>1 DEF Task, Kind
<1> QED BY <1>1, <1>2, <1>3, <1>4, Zenon

(* getTask makes one task of the phase for each of the tasks S *)
LEMMA GetTasks ==
  ASSUME TypeOK, NEW S \in SUBSET DOMAIN allTask
  PROVE  getTasks(S) \in Seq(Task) /\ Enumerates(getTasks(S), Kind, S)
<1> DEFINE N == Cardinality(S)
           o == InOrder(S)
           g == [n \in 1 .. N |-> [Phase |-> Kind, i |-> o[n]]]
<1>1. S \in SUBSET Nat /\ IsFiniteSet(S) /\ \A i \in S : [Phase |-> Kind, i |-> i] \in Task
  BY TableType, FS_Subset
<1>2. /\ N \in Nat /\ o \in [1 .. N -> S]
      /\ \A a, b \in 1 .. N : o[a] = o[b] => a = b
      /\ \A i \in S : \E a \in 1 .. N : o[a] = i
  BY <1>1, TableOrder, Zenon
<1>3. getTasks(S) = g
  BY <1>2 DEF getTasks, getTask, Kind, Mapping
<1> HIDE DEF o, N
<1>4. g \in Seq(Task) /\ Len(g) = N
  BY <1>1, <1>2
<1>5. \A n \in 1 .. N : g[n].Phase = Kind /\ g[n].i = o[n] /\ o[n] \in S
  BY <1>2
<1> HIDE DEF g
<1>6. \A n, m \in 1 .. N : g[n].i = g[m].i => n = m
  BY <1>2, <1>5
<1>7. \A i \in S : \E n \in 1 .. N : g[n].i = i
  BY <1>2, <1>5
<1> QED BY <1>3, <1>4, <1>5, <1>6, <1>7, ZenonT(40) DEF Enumerates

(* A queue that agrees with the table does so when tasks that are not in it  *)
(* are put at its end and marked IN_QUEUE                                    *)
LEMMA AgreeEnqueue ==
  ASSUME NEW q \in Seq(Task), NEW g \in Seq(Task), NEW table, NEW kind, NEW S,
         S \subseteq DOMAIN table,
         \A i \in S : table[i] \in {"IDLE", "IN_PROGRESS"},
         Agree(q, table, kind), Enumerates(g, kind, S)
  PROVE  Agree(q \o g, [i \in DOMAIN table |-> IF i \in S THEN "IN_QUEUE" ELSE table[i]], kind)
<1> DEFINE h == q \o g
           T == [i \in DOMAIN table |-> IF i \in S THEN "IN_QUEUE" ELSE table[i]]
<1>1. /\ h \in Seq(Task) /\ Len(h) = Len(q) + Len(g) /\ Len(q) \in Nat /\ Len(g) \in Nat
      /\ \A n \in 1 .. Len(h) : h[n] = IF n <= Len(q) THEN q[n] ELSE g[n - Len(q)]
  BY ConcatProperties, LenProperties
<1> HIDE DEF h
<1>2. \A n \in 1 .. Len(h) : \/ n \in 1 .. Len(q) /\ h[n] = q[n]
                             \/ n - Len(q) \in 1 .. Len(g) /\ h[n] = g[n - Len(q)]
  BY <1>1
<1>3. \A n \in 1 .. Len(q) : q[n].i \notin S
  BY DEF Agree
<1>4. ASSUME NEW n \in 1 .. Len(h)
      PROVE  /\ h[n].Phase = kind /\ h[n].i \in DOMAIN table
             /\ T[h[n].i] \in {"IN_QUEUE", "COMPLETED"}
  <2>1. CASE n \in 1 .. Len(q) /\ h[n] = q[n]
    BY <1>3, <2>1, Zenon DEF Agree
  <2>2. CASE n - Len(q) \in 1 .. Len(g) /\ h[n] = g[n - Len(q)]
    BY <2>2 DEF Enumerates
  <2> QED BY <1>2, <2>1, <2>2
<1>5. ASSUME NEW n \in 1 .. Len(h), NEW m \in 1 .. Len(h), h[n].i = h[m].i
      PROVE  n = m
  <2>1. CASE n \in 1 .. Len(q) /\ h[n] = q[n]
    <3>1. m \in 1 .. Len(q) /\ h[m] = q[m]
      <4>1. h[m].i \notin S
        BY <1>3, <1>5, <2>1, Zenon
      <4>2. \A x \in 1 .. Len(g) : g[x].i \in S
        BY Zenon DEF Enumerates
      <4> QED BY <1>2, <1>5, <4>1, <4>2, Zenon
    <3> QED BY <1>5, <2>1, <3>1, Zenon DEF Agree
  <2>2. CASE n - Len(q) \in 1 .. Len(g) /\ h[n] = g[n - Len(q)]
    <3>1. m - Len(q) \in 1 .. Len(g) /\ h[m] = g[m - Len(q)]
      <4>1. h[m].i \in S
        BY <1>5, <2>2, Zenon DEF Enumerates
      <4> QED BY <1>2, <1>3, <4>1, Zenon
    <3>2. n - Len(q) = m - Len(q)
      BY <1>5, <2>2, <3>1, SMTT(60) DEF Enumerates
    <3> QED BY <1>1, <3>2
  <2> QED BY <1>2, <2>1, <2>2, Zenon
<1>6. ASSUME NEW i \in DOMAIN T, T[i] = "IN_QUEUE"
      PROVE  \E n \in 1 .. Len(h) : h[n].i = i
  <2>1. CASE i \in S
    <3>1. PICK n \in 1 .. Len(g) : g[n].i = i
      BY <2>1, Zenon DEF Enumerates
    <3>2. n + Len(q) \in 1 .. Len(h) /\ h[n + Len(q)] = g[n]
      <4>1. /\ n + Len(q) \in 1 .. Len(h) /\ ~(n + Len(q) <= Len(q))
            /\ (n + Len(q)) - Len(q) = n
        BY <1>1
      <4> QED BY <1>1, <4>1
    <3> QED BY <3>1, <3>2
  <2>2. CASE i \notin S
    <3>1. i \in DOMAIN table /\ table[i] = "IN_QUEUE"
      BY <1>6, <2>2
    <3>2. PICK n \in 1 .. Len(q) : q[n].i = i
      BY <3>1, Zenon DEF Agree
    <3>3. n \in 1 .. Len(h) /\ h[n] = q[n]
      BY <1>1
    <3> QED BY <3>2, <3>3
  <2> QED BY <2>1, <2>2
<1>7. DOMAIN T = DOMAIN table
  OBVIOUS
<1> HIDE DEF T
<1>8. Agree(h, T, kind)
  BY <1>4, <1>5, <1>6, <1>7, Zenon DEF Agree
<1> QED BY <1>8, Zenon DEF h, T

(* What schedule does when it queues tasks that are idle or handed out *)
LEMMA EnqueueKeeps ==
  ASSUME TypeOK, QueueInv, NEW S, S \subseteq With("IDLE") \cup With("IN_PROGRESS"),
         Enqueue(S), Mapping' <=> Mapping
  PROVE  /\ freeTaskQueue' \in Seq(Task) /\ QueueInv'
         /\ allTask' \in [DOMAIN allTask -> Status]
         /\ \A i \in DOMAIN allTask : allTask'[i] =
              IF i \in S THEN "IN_QUEUE" ELSE allTask[i]
<1>1. S \in SUBSET DOMAIN allTask /\ \A i \in S : allTask[i] \in {"IDLE", "IN_PROGRESS"}
  BY DEF With
<1>2. freeTaskQueue \in Seq(Task)
  BY DEF TypeOK
<1>3. getTasks(S) \in Seq(Task) /\ Enumerates(getTasks(S), Kind, S)
  BY <1>1, GetTasks, Zenon
<1>4. Agree(freeTaskQueue \o getTasks(S),
            [i \in DOMAIN allTask |-> IF i \in S THEN "IN_QUEUE" ELSE allTask[i]], Kind)
  BY <1>1, <1>2, <1>3, AgreeEnqueue, Zenon DEF QueueInv
<1>5. Kind' = Kind
  BY DEF Kind
<1>6. QueueInv'
  BY <1>4, <1>5, Zenon DEF QueueInv, Enqueue
<1>7. freeTaskQueue' \in Seq(Task)
  BY <1>2, <1>3, ConcatProperties, Zenon DEF Enqueue
<1>8. allTask' \in [DOMAIN allTask -> Status]
  <2>1. \A i \in DOMAIN allTask : allTask[i] \in Status /\ "IN_QUEUE" \in Status
    BY TableType DEF Status
  <2> QED BY <2>1, Zenon DEF Enqueue
<1>9. \A i \in DOMAIN allTask : allTask'[i] = IF i \in S THEN "IN_QUEUE" ELSE allTask[i]
  BY Zenon DEF Enqueue
<1> QED BY <1>6, <1>7, <1>8, <1>9, Zenon

-----------------------------------------------------------------------------
(* The workers *)

(* A worker with a task knows the task, its place in the loop and what it read *)
LEMMA BusyType ==
  ASSUME TypeOK, NEW w \in Worker, Busy(w)
  PROVE  /\ worker[w].task \in Task /\ worker[w].k \in Nat /\ worker[w].good \in BOOLEAN
         /\ worker[w] \in [at : {"create", "encode", "read", "write", "report"},
                           task : Task, k : Nat, good : BOOLEAN]
         /\ \/ worker[w].task.Phase = "map" /\ worker[w].task.i \in MapTask
            \/ worker[w].task.Phase = "reduce" /\ worker[w].task.i \in ReduceTask
<1>1. worker[w] \in WorkerState
  BY DEF TypeOK
<1>2. worker[w] \in [at : {"create", "encode", "read", "write", "report"},
                     task : Task, k : Nat, good : BOOLEAN]
  BY <1>1 DEF Busy, WorkerState
<1>3. worker[w].task \in Task /\ worker[w].k \in Nat /\ worker[w].good \in BOOLEAN
  BY <1>2
<1> QED BY <1>2, <1>3 DEF Task

(* A worker that goes on in its task *)
LEMMA MoveType ==
  ASSUME TypeOK, NEW w \in Worker, Busy(w), NEW k \in Nat, NEW good \in BOOLEAN,
         NEW place \in {"create", "encode", "read", "write", "report"}, Move(w, place, k, good)
  PROVE  /\ worker' \in [Worker -> WorkerState]
         /\ worker'[w].at = place /\ worker'[w].k = k /\ worker'[w].good = good
         /\ worker'[w].task = worker[w].task
         /\ \A v \in Worker \ {w} : worker'[v] = worker[v]
<1>1. worker \in [Worker -> WorkerState]
  BY DEF TypeOK
<1>2. worker' = [worker EXCEPT ![w] = [worker[w] EXCEPT !.at = place, !.k = k, !.good = good]]
  BY <1>1, Zenon DEF Move
<1> DEFINE s == [worker[w] EXCEPT !.at = place, !.k = k, !.good = good]
<1>3. /\ s \in [at : {"create", "encode", "read", "write", "report"},
                task : Task, k : Nat, good : BOOLEAN]
      /\ s.at = place /\ s.k = k /\ s.good = good /\ s.task = worker[w].task
  BY BusyType, Zenon
<1> HIDE DEF s
<1>4. s \in WorkerState
  BY <1>3, Zenon DEF WorkerState
<1>5. worker' = [worker EXCEPT ![w] = s]
  BY <1>2 DEF s
<1>6. worker'[w] = s
  BY <1>1, <1>5
<1> QED BY <1>1, <1>3, <1>4, <1>5, <1>6, Zenon

Resting == [at : {"down", "finished", "asking", "locking"}]

(* A worker that goes to a state without a task *)
LEMMA GoesType ==
  ASSUME TypeOK, NEW w \in Worker, NEW s \in WorkerState, Goes(w, s)
  PROVE  /\ worker' \in [Worker -> WorkerState] /\ worker'[w] = s
         /\ \A v \in Worker \ {w} : worker'[v] = worker[v]
  BY DEF TypeOK, Goes

(* What a step leaves of a worker that does not move: no file is deleted *)
LEMMA Undisturbed ==
  ASSUME TypeOK, NEW v \in Worker, Fits(v), Made(v), worker'[v] = worker[v],
         \A m \in MapTask, r \in ReduceTask : inter[m][r] # None => inter'[m][r] # None,
         \A r \in ReduceTask : out[r] # None => out'[r] # None
  PROVE  Fits(v)' /\ Made(v)'
<1>1. Busy(v) => /\ worker[v].task.Phase = "map" => worker[v].task.i \in MapTask
                 /\ worker[v].task.Phase = "reduce" => worker[v].task.i \in ReduceTask
  BY BusyType
<1>2. Fits(v)'
  BY <1>1, Zenon DEF Fits, At, Busy
<1>3. Made(v)'
  BY <1>1, Zenon DEF Made, At, Busy
<1> QED BY <1>2, <1>3

(* A worker without a task *)
LEMMA RestingFits ==
  ASSUME NEW w \in Worker, worker'[w] \in Resting
  PROVE  Fits(w)' /\ Made(w)' /\ ~Busy(w)'
<1>1. worker'[w].at \in {"down", "finished", "asking", "locking"}
  BY DEF Resting
<1> QED BY <1>1 DEF Fits, Made, Busy, At

(* A worker that dies, panics or asks keeps the invariant *)
LEMMA RestKeeps ==
  ASSUME IInv, NEW w \in Worker, NEW s \in Resting, Goes(w, s), crashes' \in 0 .. MaxCrashes,
         up' \in BOOLEAN, UNCHANGED <<phase, allTask, freeTaskQueue, expired, requeued, files>>
  PROVE  IInv'
<1> USE DEF IInv
<1>1. s \in WorkerState
  BY DEF Resting, WorkerState
<1>2. /\ worker' \in [Worker -> WorkerState] /\ worker'[w] = s
      /\ \A v \in Worker \ {w} : worker'[v] = worker[v]
  BY <1>1, GoesType, Zenon
<1>3. TypeOK'
  BY <1>2, Zenon DEF TypeOK, files
<1>4. WorkerInv'
  <2> SUFFICES ASSUME NEW v \in Worker
               PROVE  (Fits(v) /\ Made(v) /\ (Mapping /\ Busy(v) => worker[v].task.Phase = "map"))'
    BY DEF WorkerInv
  <2>1. CASE v = w
    BY <1>2, <2>1, RestingFits, Zenon
  <2>2. CASE v # w
    <3>1. worker'[v] = worker[v]
      BY <1>2, <2>2
    <3>2. Fits(v)' /\ Made(v)'
      BY <3>1, Undisturbed, Zenon DEF WorkerInv, files
    <3> QED BY <3>1, <3>2, Zenon DEF WorkerInv, Busy, Mapping
  <2> QED BY <2>1, <2>2, Zenon
<1>5. (QueueInv /\ FilesInv /\ ReduceFindsFiles /\ MapBarrierIsEmpty)'
  BY ZenonT(40) DEF QueueInv, Agree, Kind, Mapping, FilesInv, ReduceFindsFiles, MapBarrierIsEmpty, With, files
<1> QED BY <1>3, <1>4, <1>5

-----------------------------------------------------------------------------
(* The steps of the master *)

(* The phases are those of the map tasks and those of the reduce tasks *)
LEMMA Phases ==
  ASSUME TypeOK
  PROVE  ~Mapping <=> phase \in {"reduce", "reduce_barrier", "fin"}
  BY DEF TypeOK, Mapping

(* What is queued again are tasks that were handed out *)
LEMMA RequeuedType ==
  ASSUME TypeOK, NEW S, QueueTasks(S)
  PROVE  requeued' \subseteq Task /\ Overdue \subseteq With("IN_PROGRESS")
<1>1. Overdue \subseteq With("IN_PROGRESS")
  BY DEF Overdue, TimedOut
<1>2. ASSUME NEW i \in Overdue PROVE getTask(i) \in Task
  <2>1. i \in DOMAIN allTask
    BY <1>1, <1>2, Zenon DEF With
  <2>2. i \in IF Mapping THEN MapTask ELSE ReduceTask
    BY <2>1, TableType, Zenon
  <2> QED BY <2>2 DEF getTask, Mapping, Task
<1>3. requeued' = requeued \cup {getTask(i) : i \in Overdue}
  BY Zenon DEF QueueTasks
<1>4. requeued \subseteq Task
  BY Zenon DEF TypeOK
<1>5. ASSUME NEW t \in requeued' PROVE t \in Task
  <2>1. CASE t \in requeued
    BY <1>4, <2>1, Zenon
  <2>2. CASE t \in {getTask(i) : i \in Overdue}
    BY <1>2, <2>2, Zenon
  <2> QED BY <1>3, <1>5, <2>1, <2>2, Zenon
<1> QED BY <1>1, <1>5, Zenon

(* schedule queues tasks within the map phases or within the reduce phases *)
LEMMA QueueTasksKeeps ==
  ASSUME IInv, NEW S, S \subseteq With("IDLE") \cup With("IN_PROGRESS"), Enqueue(S),
         phase' \in {"map", "map_barrier", "reduce", "reduce_barrier"}, Mapping' <=> Mapping,
         MapBarrierIsEmpty', requeued' \subseteq Task,
         UNCHANGED <<expired, up, worker, files, crashes>>
  PROVE  IInv'
<1> USE DEF IInv
<1>1. /\ freeTaskQueue' \in Seq(Task) /\ QueueInv'
      /\ allTask' \in [DOMAIN allTask -> Status]
      /\ \A i \in DOMAIN allTask : allTask'[i] = IF i \in S THEN "IN_QUEUE" ELSE allTask[i]
  BY EnqueueKeeps, Zenon
<1>2. DOMAIN allTask = IF Mapping THEN MapTask ELSE ReduceTask
  BY TableType
<1>3. TypeOK'
  <2>1. allTask' \in [IF Mapping' THEN MapTask ELSE ReduceTask -> Status]
    BY <1>1, <1>2, Zenon
  <2>2. phase' \in {"map", "map_barrier", "reduce", "reduce_barrier", "fin"}
    BY Zenon
  <2> QED BY <1>1, <2>1, <2>2, Zenon DEF TypeOK, Status, Mapping, files
<1>4. WorkerInv'
  BY ZenonT(40) DEF WorkerInv, Fits, Made, Busy, At, files
<1>5. FilesInv'
  <2>1. Mapping => \A m \in MapTask : allTask'[m] = "COMPLETED" => allTask[m] = "COMPLETED"
    BY <1>1, <1>2
  <2> QED BY <2>1, Zenon DEF FilesInv, files
<1>6. ReduceFindsFiles'
  BY <1>3, Phases, Zenon DEF ReduceFindsFiles, Mapping, files, TypeOK
<1> QED BY <1>1, <1>3, <1>4, <1>5, <1>6

(* The phases "map" and "reduce" *)
LEMMA ScheduleTasksKeeps ==
  ASSUME IInv, NEW barrier,
         \/ phase = "map" /\ barrier = "map_barrier"
         \/ phase = "reduce" /\ barrier = "reduce_barrier",
         ScheduleTasks(barrier)
  PROVE  IInv'
<1> DEFINE S == With("IDLE") \cup Overdue
<1>1. QueueTasks(With("IDLE")) /\ TypeOK
  BY Zenon DEF ScheduleTasks, IInv
<1>2. S \subseteq With("IDLE") \cup With("IN_PROGRESS") /\ requeued' \subseteq Task /\ Enqueue(S)
  BY <1>1, RequeuedType, Zenon DEF QueueTasks
<1>3. phase' = IF With("IDLE") \cup With("IN_QUEUE") = {} THEN barrier ELSE phase
  BY DEF ScheduleTasks
<1>4. phase' \in {"map", "map_barrier", "reduce", "reduce_barrier"} /\ (Mapping' <=> Mapping)
  BY <1>3 DEF Mapping
<1>5. MapBarrierIsEmpty'
  <2> SUFFICES ASSUME phase' = "map_barrier", NEW i \in DOMAIN allTask'
               PROVE  allTask'[i] \notin {"IDLE", "IN_QUEUE"}
    BY DEF MapBarrierIsEmpty, With
  <2>1. With("IDLE") = {} /\ With("IN_QUEUE") = {} /\ phase = "map"
    BY <1>3
  <2>2. S = {}
    BY <2>1 DEF Overdue
  <2>3. i \in DOMAIN allTask /\ allTask'[i] = allTask[i]
    BY <1>2, <2>2 DEF Enqueue
  <2> QED BY <2>1, <2>3 DEF With
<1> HIDE DEF S
<1> QED BY <1>2, <1>4, <1>5, QueueTasksKeeps, Zenon DEF ScheduleTasks

(* The barriers, while a task is not COMPLETED *)
LEMMA ScheduleBarrierKeeps ==
  ASSUME IInv, NEW base,
         \/ phase = "map_barrier" /\ base = "map"
         \/ phase = "reduce_barrier" /\ base = "reduce",
         ScheduleBarrier(base)
  PROVE  IInv'
<1>0. QueueTasks({}) /\ TypeOK /\ Overdue = TimedOut /\ {} \cup TimedOut = TimedOut
  BY DEF ScheduleBarrier, IInv, Overdue
<1>1. TimedOut \subseteq With("IDLE") \cup With("IN_PROGRESS") /\ requeued' \subseteq Task
  BY <1>0, RequeuedType, Zenon
<1>2. Enqueue(TimedOut) /\ phase' = IF TimedOut # {} THEN base ELSE phase
  BY <1>0, Zenon DEF ScheduleBarrier, QueueTasks
<1>3. phase' \in {"map", "map_barrier", "reduce", "reduce_barrier"} /\ (Mapping' <=> Mapping)
  BY <1>2 DEF Mapping
<1>4. MapBarrierIsEmpty'
  <2> SUFFICES ASSUME phase' = "map_barrier", NEW i \in DOMAIN allTask'
               PROVE  allTask'[i] \notin {"IDLE", "IN_QUEUE"}
    BY DEF MapBarrierIsEmpty, With
  <2>1. TimedOut = {} /\ phase = "map_barrier"
    BY <1>2
  <2>2. i \in DOMAIN allTask /\ allTask'[i] = allTask[i]
    BY <1>2, <2>1 DEF Enqueue
  <2> QED BY <2>1, <2>2 DEF IInv, MapBarrierIsEmpty, With
<1> QED BY <1>1, <1>2, <1>3, <1>4, QueueTasksKeeps, Zenon DEF ScheduleBarrier

(* The map tasks are done, and so their files are there: the reduce phase    *)
(* begins with its own table and an empty queue                              *)
LEMMA ScheduleReduceKeeps ==
  ASSUME IInv, phase = "map_barrier", AllComplete, ScheduleReduce
  PROVE  IInv'
<1> USE DEF IInv
<1>1. Mapping /\ ~Mapping' /\ Kind' = "reduce"
  BY DEF Mapping, Kind, ScheduleReduce
<1>2. \A m \in MapTask, r \in ReduceTask : inter[m][r] # None
  <2>1. DOMAIN allTask = MapTask
    BY <1>1, TableType
  <2>2. \A m \in MapTask : allTask[m] = "COMPLETED"
    BY <2>1 DEF AllComplete, With
  <2> QED BY <1>1, <2>2, Zenon DEF FilesInv
<1>3. TypeOK'
  <2>1. allTask' \in [ReduceTask -> Status]
    BY DEF ScheduleReduce, Status
  <2>2. freeTaskQueue' \in Seq(Task)
    BY EmptySeq, Zenon DEF ScheduleReduce
  <2>3. phase' = "reduce" /\ expired' \in BOOLEAN
    BY Zenon DEF ScheduleReduce
  <2>4. phase' \notin {"map", "map_barrier"}
    BY <2>3
  <2> QED BY <2>1, <2>2, <2>3, <2>4, Zenon DEF TypeOK, Status, ScheduleReduce, files
<1>4. WorkerInv'
  BY <1>1, Zenon DEF WorkerInv, Fits, Made, Busy, At, files, ScheduleReduce
<1>5. QueueInv'
  <2>1. Len(freeTaskQueue') = 0 /\ 1 .. 0 = {}
    BY DEF ScheduleReduce
  <2>2. \A i \in ReduceTask : allTask'[i] = "IDLE"
    BY DEF ScheduleReduce
  <2>3. DOMAIN allTask' = ReduceTask
    BY DEF ScheduleReduce
  <2> QED BY <2>1, <2>2, <2>3, Zenon DEF QueueInv, Agree
<1>6. FilesInv' /\ MapBarrierIsEmpty'
  BY <1>1, Zenon DEF FilesInv, MapBarrierIsEmpty, Mapping
<1>7. ReduceFindsFiles'
  BY <1>2, Zenon DEF ReduceFindsFiles, ScheduleReduce, files
<1> QED BY <1>3, <1>4, <1>5, <1>6, <1>7, Zenon

(* The end of the job, and of the master *)
LEMMA PhaseEndKeeps ==
  ASSUME IInv, UNCHANGED <<allTask, freeTaskQueue, requeued, worker, files, crashes>>,
         expired' \in BOOLEAN, up' \in BOOLEAN,
         \/ UNCHANGED phase
         \/ phase = "reduce_barrier" /\ phase' = "fin"
  PROVE  IInv'
<1> USE DEF IInv
<1>1. /\ Mapping' <=> Mapping
      /\ phase' \in {"map", "map_barrier", "reduce", "reduce_barrier", "fin"}
      /\ phase' = "map_barrier" => phase = "map_barrier"
  BY DEF Mapping, TypeOK
<1>2. TypeOK'
  BY <1>1, Zenon DEF TypeOK, Mapping, files
<1>3. (WorkerInv /\ QueueInv /\ FilesInv)'
  BY <1>1, ZenonT(40) DEF WorkerInv, Fits, Made, Busy, At, QueueInv, Agree, Kind, FilesInv, files
<1>4. ReduceFindsFiles'
  BY <1>1, <1>2, Phases, Zenon DEF ReduceFindsFiles, Mapping, files, TypeOK
<1>5. MapBarrierIsEmpty'
  BY <1>1, Zenon DEF MapBarrierIsEmpty, With
<1> QED BY <1>2, <1>3, <1>4, <1>5, Zenon

-----------------------------------------------------------------------------
(* The steps of the workers *)

(* The first task of the queue is handed out *)
LEMMA AgreeDequeue ==
  ASSUME NEW q \in Seq(Task), q # << >>, NEW table, NEW kind, Agree(q, table, kind)
  PROVE  /\ Head(q) = q[1] /\ Head(q) \in Task /\ Tail(q) \in Seq(Task)
         /\ Head(q).Phase = kind /\ Head(q).i \in DOMAIN table
         /\ table[Head(q).i] \in {"IN_QUEUE", "COMPLETED"}
         /\ Agree(Tail(q), [table EXCEPT ![Head(q).i] = "IN_PROGRESS"], kind)
<1> DEFINE T == [table EXCEPT ![Head(q).i] = "IN_PROGRESS"]
           h == Tail(q)
<1>1. /\ Head(q) = q[1] /\ Head(q) \in Task /\ h \in Seq(Task) /\ Len(q) \in Nat \ {0}
      /\ Len(h) = Len(q) - 1 /\ \A n \in 1 .. Len(h) : h[n] = q[n + 1]
  BY HeadTailProperties, EmptySeq
<1>2. /\ 1 \in 1 .. Len(q)
      /\ \A n \in 1 .. Len(h) : n + 1 \in 1 .. Len(q) /\ n + 1 # 1
      /\ \A n, m \in 1 .. Len(h) : n + 1 = m + 1 => n = m
  BY <1>1
<1> HIDE DEF h
<1>3. /\ q[1].Phase = kind /\ q[1].i \in DOMAIN table
      /\ table[q[1].i] \in {"IN_QUEUE", "COMPLETED"}
  BY <1>2, Zenon DEF Agree
<1>4. DOMAIN T = DOMAIN table /\ \A i \in DOMAIN table : i # q[1].i => T[i] = table[i]
  BY <1>1, Zenon
<1>5. T[q[1].i] = "IN_PROGRESS"
  BY <1>1, <1>3, Zenon
<1> HIDE DEF T
<1>6. ASSUME NEW n \in 1 .. Len(h)
      PROVE  /\ h[n].Phase = kind /\ h[n].i \in DOMAIN table
             /\ T[h[n].i] \in {"IN_QUEUE", "COMPLETED"}
  <2>1. h[n] = q[n + 1] /\ n + 1 \in 1 .. Len(q) /\ q[n + 1].i # q[1].i
    BY <1>1, <1>2, Zenon DEF Agree
  <2>2. /\ q[n + 1].Phase = kind /\ q[n + 1].i \in DOMAIN table
        /\ table[q[n + 1].i] \in {"IN_QUEUE", "COMPLETED"}
    BY <2>1, Zenon DEF Agree
  <2> QED BY <1>4, <2>1, <2>2, Zenon
<1>7. ASSUME NEW n \in 1 .. Len(h), NEW m \in 1 .. Len(h), h[n].i = h[m].i
      PROVE  n = m
  <2>1. q[n + 1].i = q[m + 1].i /\ n + 1 \in 1 .. Len(q) /\ m + 1 \in 1 .. Len(q)
    BY <1>1, <1>2, <1>7, Zenon
  <2>2. n + 1 = m + 1
    BY <2>1, Zenon DEF Agree
  <2> QED BY <1>2, <2>2, Zenon
<1>8. ASSUME NEW i \in DOMAIN T, T[i] = "IN_QUEUE"
      PROVE  \E n \in 1 .. Len(h) : h[n].i = i
  <2>1. i # q[1].i /\ table[i] = "IN_QUEUE" /\ i \in DOMAIN table
    BY <1>4, <1>5, <1>8, Zenon
  <2>2. PICK n \in 1 .. Len(q) : q[n].i = i
    BY <2>1, Zenon DEF Agree
  <2>3. n # 1
    BY <2>1, <2>2
  <2>4. n - 1 \in 1 .. Len(h) /\ n = (n - 1) + 1
    BY <1>1, <2>3
  <2>5. h[n - 1] = q[n]
    BY <1>1, <2>4
  <2> QED BY <2>2, <2>4, <2>5, Zenon
<1>9. Agree(h, T, kind)
  BY <1>4, <1>6, <1>7, <1>8, Zenon DEF Agree
<1> QED BY <1>1, <1>3, <1>9, Zenon DEF h, T

(* A task may be reported while it is in the queue again *)
LEMMA AgreeComplete ==
  ASSUME NEW q, NEW table, NEW kind, Agree(q, table, kind), NEW j \in DOMAIN table
  PROVE  Agree(q, [table EXCEPT ![j] = "COMPLETED"], kind)
<1> DEFINE T == [table EXCEPT ![j] = "COMPLETED"]
<1>1. DOMAIN T = DOMAIN table /\ \A i \in DOMAIN table : T[i] = IF i = j THEN "COMPLETED" ELSE table[i]
  OBVIOUS
<1> HIDE DEF T
<1>2. Agree(q, T, kind)
  BY <1>1 DEF Agree
<1> QED BY <1>2 DEF T

(* ReqTask under the mutex *)
LEMMA ReqTaskLockedKeeps ==
  ASSUME IInv, NEW w \in Worker, ReqTaskLocked(w)
  PROVE  IInv'
<1> USE DEF IInv
<1>1. CASE phase \notin {"map", "reduce"} \/ freeTaskQueue = << >>
  <2>1. /\ Goes(w, [at |-> "down"])
        /\ UNCHANGED <<phase, allTask, freeTaskQueue, expired, up, requeued, files, crashes>>
    BY <1>1, Zenon DEF ReqTaskLocked
  <2>2. [at |-> "down"] \in Resting /\ up' \in BOOLEAN /\ crashes' \in 0 .. MaxCrashes
    BY <2>1, Zenon DEF Resting, TypeOK
  <2> QED BY <2>1, <2>2, RestKeeps, Zenon
<1>2. CASE phase \in {"map", "reduce"} /\ freeTaskQueue # << >>
  <2>1. PICK t : t = Head(freeTaskQueue)
    OBVIOUS
  <2>2. /\ freeTaskQueue' = Tail(freeTaskQueue)
        /\ allTask' = [allTask EXCEPT ![t.i] = "IN_PROGRESS"]
        /\ Goes(w, [at |-> "create", task |-> t, k |-> 0, good |-> TRUE])
        /\ UNCHANGED <<phase, expired, up, requeued, files, crashes>>
    BY <1>2, <2>1, Zenon DEF ReqTaskLocked
  <2>3. /\ t \in Task /\ Tail(freeTaskQueue) \in Seq(Task)
        /\ t.Phase = Kind /\ t.i \in DOMAIN allTask
        /\ Agree(Tail(freeTaskQueue), [allTask EXCEPT ![t.i] = "IN_PROGRESS"], Kind)
    BY <1>2, <2>1, AgreeDequeue, ZenonT(40) DEF TypeOK, QueueInv
  <2>4. [at |-> "create", task |-> t, k |-> 0, good |-> TRUE] \in WorkerState
    BY <2>3 DEF WorkerState
  <2>5. /\ worker' \in [Worker -> WorkerState]
        /\ worker'[w] = [at |-> "create", task |-> t, k |-> 0, good |-> TRUE]
        /\ \A v \in Worker \ {w} : worker'[v] = worker[v]
    BY <2>2, <2>4, GoesType, Zenon
  <2>6. allTask' \in [DOMAIN allTask -> Status] /\ "IN_PROGRESS" \in Status
    BY <2>2, TableType, Zenon DEF Status
  <2>7. Kind' = Kind /\ (Mapping' <=> Mapping)
    BY <2>2 DEF Kind, Mapping
  <2>8. TypeOK'
    <3>1. allTask' \in [IF Mapping' THEN MapTask ELSE ReduceTask -> Status]
      BY <2>6, <2>7, TableType, Zenon
    <3> QED BY <2>2, <2>3, <2>5, <3>1, Zenon DEF TypeOK, Status, Mapping, files
  <2>9. WorkerInv'
    <3> SUFFICES ASSUME NEW v \in Worker
                 PROVE  (Fits(v) /\ Made(v) /\ (Mapping /\ Busy(v) => worker[v].task.Phase = "map"))'
      BY DEF WorkerInv
    <3>1. CASE v = w
      <4>1. /\ worker'[v].at = "create" /\ worker'[v].task = t /\ worker'[v].k = 0
            /\ Mapping' => t.Phase = "map"
        BY <2>3, <2>5, <2>7, <3>1 DEF Kind
      <4>2. 0 \in ReduceTask /\ \A r \in ReduceTask : ~(r < 0)
        BY SizeAssumption DEF ReduceTask
      <4> QED BY <4>1, <4>2, Zenon DEF Fits, Made, At
    <3>2. CASE v # w
      <4>1. worker'[v] = worker[v]
        BY <2>5, <3>2
      <4>2. Fits(v)' /\ Made(v)'
        BY <2>2, <4>1, Undisturbed, ZenonT(40) DEF WorkerInv, files
      <4> QED BY <2>7, <4>1, <4>2, ZenonT(40) DEF WorkerInv, Busy
    <3> QED BY <3>1, <3>2, Zenon
  <2>10. QueueInv'
    BY <2>2, <2>3, <2>7, Zenon DEF QueueInv
  <2>11. FilesInv'
    <3>1. \A m \in DOMAIN allTask : allTask'[m] = "COMPLETED" => allTask[m] = "COMPLETED"
      BY <2>2, TableType
    <3>2. Mapping => DOMAIN allTask = MapTask
      BY TableType, Zenon
    <3> QED BY <2>2, <2>7, <3>1, <3>2, ZenonT(40) DEF FilesInv, files
  <2>12. ReduceFindsFiles' /\ MapBarrierIsEmpty'
    BY <1>2, <2>2, Zenon DEF ReduceFindsFiles, MapBarrierIsEmpty, files
  <2> QED BY <2>8, <2>9, <2>10, <2>11, <2>12, Zenon
<1> QED BY <1>1, <1>2 DEF ReqTaskLocked

(* ReportTask, from any phase. In a map phase the task is a map task whose   *)
(* files are all there. Outside of the table the master dies.                *)
LEMMA ReportTaskKeeps ==
  ASSUME IInv, NEW w \in Worker, ReportTask(w)
  PROVE  IInv'
<1> USE DEF IInv
<1> DEFINE j == worker[w].task.i
<1>1. CASE j \notin DOMAIN allTask
  <2>1. /\ Goes(w, [at |-> "down"]) /\ up' = FALSE
        /\ UNCHANGED <<phase, allTask, freeTaskQueue, expired, requeued, files, crashes>>
    BY <1>1, Zenon DEF ReportTask
  <2>2. [at |-> "down"] \in Resting /\ up' \in BOOLEAN /\ crashes' \in 0 .. MaxCrashes
    BY <2>1, ZenonT(60) DEF Resting, TypeOK
  <2> QED BY <2>1, <2>2, RestKeeps, Zenon
<1>2. CASE j \in DOMAIN allTask
  <2>1. /\ At(w, "report") /\ allTask' = [allTask EXCEPT ![j] = "COMPLETED"]
        /\ Goes(w, [at |-> "asking"])
        /\ UNCHANGED <<phase, freeTaskQueue, expired, up, requeued, files, crashes>>
    BY <1>2, Zenon DEF ReportTask
  <2>2. [at |-> "asking"] \in Resting /\ [at |-> "asking"] \in WorkerState
    BY DEF Resting, WorkerState
  <2>3. /\ worker' \in [Worker -> WorkerState] /\ worker'[w] = [at |-> "asking"]
        /\ \A v \in Worker \ {w} : worker'[v] = worker[v]
    BY <2>1, <2>2, GoesType, Zenon
  <2>4. /\ allTask' \in [DOMAIN allTask -> Status]
        /\ \A i \in DOMAIN allTask : allTask'[i] = IF i = j THEN "COMPLETED" ELSE allTask[i]
    BY <1>2, <2>1, TableType, Zenon DEF Status
  <2>5. Kind' = Kind /\ (Mapping' <=> Mapping)
    BY <2>1 DEF Kind, Mapping
  <2>6. TypeOK'
    <3>1. allTask' \in [IF Mapping' THEN MapTask ELSE ReduceTask -> Status]
      BY <2>4, <2>5, TableType, ZenonT(40)
    <3> QED BY <2>1, <2>3, <3>1, Zenon DEF TypeOK, Status, Mapping, files
  <2>7. WorkerInv'
    <3> SUFFICES ASSUME NEW v \in Worker
                 PROVE  (Fits(v) /\ Made(v) /\ (Mapping /\ Busy(v) => worker[v].task.Phase = "map"))'
      BY DEF WorkerInv
    <3>1. CASE v = w
      BY <2>2, <2>3, <3>1, RestingFits, ZenonT(40)
    <3>2. CASE v # w
      <4>1. worker'[v] = worker[v]
        BY <2>3, <3>2
      <4>2. Fits(v)' /\ Made(v)'
        BY <2>1, <4>1, Undisturbed, Zenon DEF WorkerInv, files
      <4> QED BY <2>5, <4>1, <4>2, Zenon DEF WorkerInv, Busy
    <3> QED BY <3>1, <3>2
  <2>8. QueueInv'
    BY <1>2, <2>1, <2>5, AgreeComplete, ZenonT(40) DEF QueueInv
  <2>9. FilesInv'
    <3> SUFFICES ASSUME Mapping, NEW m \in MapTask, allTask'[m] = "COMPLETED",
                        NEW r \in ReduceTask
                 PROVE  inter[m][r] # None
      BY <2>1, <2>5, Zenon DEF FilesInv, files
    <3>1. m \in DOMAIN allTask
      BY TableType
    <3>2. CASE m = j
      <4>1. Busy(w) /\ worker[w].task.Phase = "map"
        BY <2>1 DEF WorkerInv, Busy, At
      <4> QED BY <2>1, <3>2, <4>1, Zenon DEF WorkerInv, Made
    <3>3. CASE m # j
      BY <2>4, <3>1, <3>3, Zenon DEF FilesInv
    <3> QED BY <3>2, <3>3
  <2>10. ReduceFindsFiles'
    BY <2>1, Zenon DEF ReduceFindsFiles, files
  <2>11. MapBarrierIsEmpty'
    <3> SUFFICES ASSUME phase = "map_barrier", NEW i \in DOMAIN allTask'
                 PROVE  allTask'[i] \notin {"IDLE", "IN_QUEUE"}
      BY <2>1 DEF MapBarrierIsEmpty, With
    <3>1. i \in DOMAIN allTask
      BY <2>4, Zenon
    <3> QED BY <2>4, <3>1, Zenon DEF MapBarrierIsEmpty, With
  <2> QED BY <2>6, <2>7, <2>8, <2>9, <2>10, <2>11, Zenon
<1> QED BY <1>1, <1>2

(* A worker goes on in its task, and no file is deleted *)
LEMMA WorkKeeps ==
  ASSUME IInv, NEW w \in Worker, Busy(w), worker' \in [Worker -> WorkerState],
         worker'[w].task = worker[w].task, \A v \in Worker \ {w} : worker'[v] = worker[v],
         inter' \in [MapTask -> [ReduceTask -> File \cup {None}]],
         out' \in [ReduceTask -> File \cup {None}],
         \A m \in MapTask, r \in ReduceTask : inter[m][r] # None => inter'[m][r] # None,
         \A r \in ReduceTask : out[r] # None => out'[r] # None,
         Fits(w)', Made(w)', UNCHANGED <<masterVars, crashes>>
  PROVE  IInv'
<1> USE DEF IInv
<1>1. TypeOK'
  BY ZenonT(40) DEF TypeOK, masterVars
<1>2. WorkerInv'
  <2> SUFFICES ASSUME NEW v \in Worker
               PROVE  (Fits(v) /\ Made(v) /\ (Mapping /\ Busy(v) => worker[v].task.Phase = "map"))'
    BY DEF WorkerInv
  <2>1. CASE v = w
    BY <2>1, Zenon DEF WorkerInv, Mapping, masterVars
  <2>2. CASE v # w
    <3>1. worker'[v] = worker[v]
      BY <2>2
    <3>2. Fits(v)' /\ Made(v)'
      BY <3>1, Undisturbed, Zenon DEF WorkerInv
    <3> QED BY <3>1, <3>2, ZenonT(40) DEF WorkerInv, Busy, Mapping, masterVars
  <2> QED BY <2>1, <2>2, Zenon
<1>3. QueueInv' /\ MapBarrierIsEmpty'
  BY ZenonT(40) DEF QueueInv, Agree, Kind, Mapping, MapBarrierIsEmpty, With, masterVars
<1>4. FilesInv' /\ ReduceFindsFiles'
  BY Zenon DEF FilesInv, ReduceFindsFiles, Mapping, masterVars
<1> QED BY <1>1, <1>2, <1>3, <1>4, Zenon

(* A new content of one intermediate file, of one output file *)
LEMMA InterSet ==
  ASSUME TypeOK, NEW m \in MapTask, NEW r \in ReduceTask, NEW f \in File,
         inter' = [inter EXCEPT ![m][r] = f]
  PROVE  /\ inter' \in [MapTask -> [ReduceTask -> File \cup {None}]]
         /\ inter'[m][r] = f
         /\ \A n \in MapTask, s \in ReduceTask :
              /\ n # m \/ s # r => inter'[n][s] = inter[n][s]
              /\ inter[n][s] # None => inter'[n][s] # None
<1>1. inter \in [MapTask -> [ReduceTask -> File \cup {None}]]
  BY DEF TypeOK
<1>2. f # None
  BY NoneAssumption
<1> QED BY <1>1, <1>2

(* The output files after one was opened or written *)
LEMMA OutSet ==
  ASSUME TypeOK, NEW r \in ReduceTask, NEW f \in File, out' = [out EXCEPT ![r] = f]
  PROVE  /\ out' \in [ReduceTask -> File \cup {None}] /\ out'[r] = f
         /\ \A s \in ReduceTask : /\ s # r => out'[s] = out[s]
                                  /\ out[s] # None => out'[s] # None
<1>1. out \in [ReduceTask -> File \cup {None}]
  BY DEF TypeOK
<1>2. f # None
  BY NoneAssumption
<1> QED BY <1>1, <1>2

(* doMapTask *)
LEMMA CreateInterKeeps ==
  ASSUME IInv, NEW w \in Worker, CreateInter(w)
  PROVE  IInv'
<1> USE DEF IInv
<1>1. Busy(w) /\ At(w, "create") /\ worker[w].task.Phase = "map"
  BY Zenon DEF CreateInter, Busy, At
<1>2. PICK m \in MapTask, r \in ReduceTask : m = worker[w].task.i /\ r = worker[w].k
  BY <1>1, BusyType, Zenon DEF WorkerInv, Fits
<1>3. /\ inter' = [inter EXCEPT ![m][r] = Opened(w)] /\ Move(w, "encode", r, TRUE)
      /\ UNCHANGED <<masterVars, out, crashes>>
  BY <1>2, Zenon DEF CreateInter
<1>4. Opened(w) \in File
  BY DEF Opened, File
<1>5. /\ inter' \in [MapTask -> [ReduceTask -> File \cup {None}]] /\ inter'[m][r] # None
      /\ \A n \in MapTask, s \in ReduceTask : inter[n][s] # None => inter'[n][s] # None
  BY <1>3, <1>4, InterSet, NoneAssumption, ZenonT(60)
<1>6. /\ worker' \in [Worker -> WorkerState]
      /\ worker'[w].at = "encode" /\ worker'[w].k = r /\ worker'[w].task = worker[w].task
      /\ \A v \in Worker \ {w} : worker'[v] = worker[v]
  <2>1. r \in Nat
    BY <1>1, <1>2, BusyType, Zenon
  <2> QED BY <1>1, <1>3, <2>1, MoveType, Zenon
<1>7. Fits(w)'
  BY <1>1, <1>2, <1>5, <1>6, ZenonT(60) DEF Fits, At
<1>8. Made(w)'
  <2>1. \A s \in ReduceTask : s < r => inter[m][s] # None
    BY <1>1, <1>2, Zenon DEF WorkerInv, Made
  <2>2. \A s \in ReduceTask : s < r => inter'[m][s] # None
    BY <1>5, <2>1, ZenonT(40)
  <2> QED BY <1>2, <1>6, <2>2, Zenon DEF Made, At
<1>9. /\ out' \in [ReduceTask -> File \cup {None}]
      /\ \A s \in ReduceTask : out[s] # None => out'[s] # None
  BY <1>3 DEF TypeOK
<1> QED BY <1>1, <1>3, <1>5, <1>6, <1>7, <1>8, <1>9, WorkKeeps, ZenonT(40)

(* What EncodeInter and WriteOut write to *)
LEMMA WrittenType ==
  ASSUME NEW f \in File, NEW w \in Worker, NEW h \in {"part", "right", "wrong"},
         NEW g \in Written(f, w, h)
  PROVE  [f EXCEPT !.holds = g] \in File
  BY DEF Written, File

(* doMapTask: the encoder writes to the file that was opened *)
LEMMA EncodeInterKeeps ==
  ASSUME IInv, NEW w \in Worker, EncodeInter(w)
  PROVE  IInv'
<1> USE DEF IInv
<1>1. Busy(w) /\ At(w, "encode")
  BY ZenonT(60) DEF EncodeInter, Busy, At
<1>2. worker[w].task.Phase = "map"
  BY <1>1, Zenon DEF WorkerInv, Fits
<1>3. PICK m \in MapTask, r \in ReduceTask :
        m = worker[w].task.i /\ r = worker[w].k /\ inter[m][r] # None
  BY <1>1, BusyType DEF WorkerInv, Fits
<1>4. PICK h \in Written(inter[m][r], w, "right") : inter' = [inter EXCEPT ![m][r].holds = h]
  BY <1>3, ZenonT(40) DEF EncodeInter
<1>5. inter[m][r] \in File /\ inter \in [MapTask -> [ReduceTask -> File \cup {None}]]
  BY <1>3 DEF TypeOK
<1>6. PICK f \in File : f = [inter[m][r] EXCEPT !.holds = h]
  BY <1>5, WrittenType, Zenon
<1>7. inter' = [inter EXCEPT ![m][r] = f]
  BY <1>4, <1>5, <1>6, Zenon
<1>8. /\ inter' \in [MapTask -> [ReduceTask -> File \cup {None}]]
      /\ \A n \in MapTask, s \in ReduceTask : inter[n][s] # None => inter'[n][s] # None
  BY <1>7, InterSet, ZenonT(40)
<1>9. /\ UNCHANGED <<masterVars, out, crashes>>
      /\ IF r + 1 < NReduce THEN Move(w, "create", r + 1, TRUE) ELSE Move(w, "report", 0, TRUE)
  BY <1>3, ZenonT(40) DEF EncodeInter
<1>10. r \in Nat /\ r + 1 \in Nat /\ 0 \in Nat /\ (r + 1 < NReduce => r + 1 \in ReduceTask)
  BY SizeAssumption, SMTT(60) DEF ReduceTask
<1>11. PICK place \in {"create", "report"}, k \in Nat, good \in BOOLEAN :
         /\ Move(w, place, k, good)
         /\ place = "create" => k = r + 1 /\ k \in ReduceTask
         /\ place = "report" => ~(r + 1 < NReduce)
  BY <1>9, <1>10, Zenon
<1>12. /\ worker' \in [Worker -> WorkerState]
       /\ worker'[w].at = place /\ worker'[w].k = k /\ worker'[w].task = worker[w].task
       /\ \A v \in Worker \ {w} : worker'[v] = worker[v]
  <2>1. place \in {"create", "encode", "read", "write", "report"}
    BY <1>11
  <2>2. TypeOK
    OBVIOUS
  <2>3. Busy(w) /\ Move(w, place, k, good)
    BY <1>1, <1>11, Zenon
  <2> QED BY <2>1, <2>2, <2>3, MoveType, SMTT(60)
<1>13. Fits(w)'
  <2>1. /\ worker'[w].at \notin {"encode", "read", "write"}
        /\ worker'[w].at = "create" => worker'[w].k \in ReduceTask
    BY <1>11, <1>12, ZenonT(60)
  <2> QED BY <2>1, Zenon DEF Fits, At
<1>14. Made(w)'
  <2>1. \A s \in ReduceTask : s < r => inter[m][s] # None
    BY <1>1, <1>2, <1>3, ZenonT(40) DEF WorkerInv, Made
  <2>2. \A s \in ReduceTask : s < r \/ s = r => inter'[m][s] # None
    BY <1>3, <1>8, <2>1, ZenonT(40)
  <2>3. \A s \in ReduceTask : place = "report" \/ s < k => s < r \/ s = r
    BY <1>11, SizeAssumption, SMTT(60) DEF ReduceTask
  <2> QED BY <1>3, <1>12, <2>2, <2>3, ZenonT(60) DEF Made, At
<1>15. /\ out' \in [ReduceTask -> File \cup {None}]
       /\ \A s \in ReduceTask : out[s] # None => out'[s] # None
  BY <1>9 DEF TypeOK
<1> QED BY <1>1, <1>8, <1>9, <1>12, <1>13, <1>14, <1>15, WorkKeeps, ZenonT(40)

(* doReduceTask *)
LEMMA CreateOutKeeps ==
  ASSUME IInv, NEW w \in Worker, CreateOut(w)
  PROVE  IInv'
<1> USE DEF IInv
<1>1. Busy(w) /\ worker[w].task.Phase = "reduce"
  BY Zenon DEF CreateOut, Busy, At
<1>2. PICK r \in ReduceTask : r = worker[w].task.i
  BY <1>1, BusyType
<1>3. /\ out' = [out EXCEPT ![r] = Opened(w)] /\ Move(w, "read", 0, TRUE)
      /\ UNCHANGED <<masterVars, inter, crashes>>
  BY <1>2, Zenon DEF CreateOut
<1>4. Opened(w) \in File
  BY DEF Opened, File
<1>5. /\ out' \in [ReduceTask -> File \cup {None}] /\ out'[r] # None
      /\ \A s \in ReduceTask : out[s] # None => out'[s] # None
  BY <1>3, <1>4, OutSet, NoneAssumption, ZenonT(40)
<1>6. /\ worker' \in [Worker -> WorkerState]
      /\ worker'[w].at = "read" /\ worker'[w].k = 0 /\ worker'[w].task = worker[w].task
      /\ \A v \in Worker \ {w} : worker'[v] = worker[v]
  BY <1>1, <1>3, MoveType, Zenon
<1>7. 0 \in MapTask
  BY SizeAssumption, SMTT(60) DEF MapTask
<1>8. Fits(w)' /\ Made(w)'
  BY <1>1, <1>2, <1>5, <1>6, <1>7, Zenon DEF Fits, Made, At
<1>9. /\ inter' \in [MapTask -> [ReduceTask -> File \cup {None}]]
      /\ \A n \in MapTask, s \in ReduceTask : inter[n][s] # None => inter'[n][s] # None
  BY <1>3, ZenonT(40) DEF TypeOK
<1> QED BY <1>1, <1>3, <1>5, <1>6, <1>8, <1>9, WorkKeeps, ZenonT(40)

(* doReduceTask reads the next file of its partition, or ends the process *)
LEMMA ReadInterKeeps ==
  ASSUME IInv, NEW w \in Worker, ReadInter(w)
  PROVE  IInv'
<1> USE DEF IInv
<1>1. Busy(w) /\ At(w, "read")
  BY Zenon DEF ReadInter, Busy, At
<1>2. PICK n \in MapTask, r \in ReduceTask :
        n = worker[w].k /\ r = worker[w].task.i /\ worker[w].task.Phase = "reduce" /\ out[r] # None
  BY <1>1, BusyType, ZenonT(60) DEF WorkerInv, Fits
<1>3. CASE inter[n][r] = None
  <2>1. Goes(w, [at |-> "down"]) /\ UNCHANGED <<masterVars, files, crashes>>
    BY <1>2, <1>3, ZenonT(40) DEF ReadInter
  <2>2. [at |-> "down"] \in Resting /\ up' \in BOOLEAN /\ crashes' \in 0 .. MaxCrashes
    BY <2>1 DEF Resting, TypeOK, masterVars
  <2> QED BY <2>1, <2>2, RestKeeps, ZenonT(40) DEF masterVars
<1>4. CASE inter[n][r] # None
  <2>1. /\ Move(w, IF n + 1 < NMap THEN "read" ELSE "write", n + 1,
                worker[w].good /\ inter[n][r].holds = "right")
        /\ UNCHANGED <<masterVars, files, crashes>>
    BY <1>2, <1>4, ZenonT(40) DEF ReadInter
  <2>2. n + 1 \in Nat /\ (n + 1 < NMap => n + 1 \in MapTask)
    BY SizeAssumption DEF MapTask
  <2>3. PICK place \in {"read", "write"}, good \in BOOLEAN :
          Move(w, place, n + 1, good) /\ (place = "read" => n + 1 \in MapTask)
    <3>1. (worker[w].good /\ inter[n][r].holds = "right") \in BOOLEAN
      BY <1>1, BusyType, Zenon
    <3> QED BY <2>1, <2>2, <3>1, ZenonT(40)
  <2>4. /\ worker' \in [Worker -> WorkerState]
        /\ worker'[w].at = place /\ worker'[w].k = n + 1 /\ worker'[w].task = worker[w].task
        /\ \A v \in Worker \ {w} : worker'[v] = worker[v]
    <3>1. place \in {"create", "encode", "read", "write", "report"}
      BY <2>3
    <3> QED BY <1>1, <2>2, <2>3, <3>1, MoveType, SMTT(60)
  <2>5. Fits(w)' /\ Made(w)'
    <3>1. /\ worker'[w].at \notin {"create", "encode", "report"}
          /\ worker'[w].at = "read" => worker'[w].k \in MapTask
          /\ worker'[w].task.Phase = "reduce" /\ worker'[w].task.Phase # "map"
          /\ out'[worker'[w].task.i] # None
      BY <1>2, <2>1, <2>3, <2>4, ZenonT(60) DEF files
    <3> QED BY <3>1, ZenonT(60) DEF Fits, Made, At
  <2>6. /\ inter' \in [MapTask -> [ReduceTask -> File \cup {None}]]
        /\ out' \in [ReduceTask -> File \cup {None}]
        /\ \A m \in MapTask, s \in ReduceTask : inter[m][s] # None => inter'[m][s] # None
        /\ \A s \in ReduceTask : out[s] # None => out'[s] # None
    BY <2>1, Zenon DEF TypeOK, files
  <2> QED BY <1>1, <2>1, <2>4, <2>5, <2>6, WorkKeeps, ZenonT(40)
<1> QED BY <1>3, <1>4, ZenonT(60)

(* doReduceTask writes what the reduce function returned *)
LEMMA WriteOutKeeps ==
  ASSUME IInv, NEW w \in Worker, WriteOut(w)
  PROVE  IInv'
<1> USE DEF IInv
<1>1. Busy(w) /\ At(w, "write")
  BY SMTT(60) DEF WriteOut, Busy, At
<1>2. PICK r \in ReduceTask :
        r = worker[w].task.i /\ worker[w].task.Phase = "reduce" /\ out[r] # None
  BY <1>1, BusyType, ZenonT(60) DEF WorkerInv, Fits
<1>3. PICK h \in {"right", "wrong"} :
        \E g \in Written(out[r], w, h) : out' = [out EXCEPT ![r].holds = g]
  BY <1>2, ZenonT(40) DEF WriteOut
<1> PICK g \in Written(out[r], w, h) : out' = [out EXCEPT ![r].holds = g]
  BY <1>3, Zenon
<1>4. out[r] \in File /\ out \in [ReduceTask -> File \cup {None}]
  BY <1>2 DEF TypeOK
<1>5. PICK f \in File : f = [out[r] EXCEPT !.holds = g]
  BY <1>4, WrittenType
<1>6. out' = [out EXCEPT ![r] = f]
  BY <1>4, <1>5
<1>7. /\ out' \in [ReduceTask -> File \cup {None}]
      /\ \A s \in ReduceTask : out[s] # None => out'[s] # None
  BY <1>6, OutSet, ZenonT(40)
<1>8. Move(w, "report", 0, TRUE) /\ UNCHANGED <<masterVars, inter, crashes>>
  BY Zenon DEF WriteOut
<1>9. /\ worker' \in [Worker -> WorkerState]
      /\ worker'[w].at = "report" /\ worker'[w].task = worker[w].task
      /\ \A v \in Worker \ {w} : worker'[v] = worker[v]
  BY <1>1, <1>8, MoveType, Zenon
<1>10. Fits(w)' /\ Made(w)'
  BY <1>2, <1>9, Zenon DEF Fits, Made, At
<1>11. /\ inter' \in [MapTask -> [ReduceTask -> File \cup {None}]]
       /\ \A n \in MapTask, s \in ReduceTask : inter[n][s] # None => inter'[n][s] # None
  BY <1>8, Zenon DEF TypeOK
<1> QED BY <1>1, <1>7, <1>8, <1>9, <1>10, <1>11, WorkKeeps, ZenonT(40)

-----------------------------------------------------------------------------
(* The theorems for every behaviour *)

(* MakeMaster: every task is idle, there is no worker and no file *)
LEMMA InitInv == Init => IInv
<1> SUFFICES ASSUME Init PROVE IInv
  OBVIOUS
<1>1. TypeOK
  <2>1. << >> \in Seq(Task)
    BY EmptySeq, Zenon
  <2>2. worker \in [Worker -> WorkerState]
    BY DEF Init, WorkerState
  <2>3. crashes \in 0 .. MaxCrashes
    BY CrashAssumption DEF Init
  <2> QED BY <2>1, <2>2, <2>3, Zenon DEF Init, TypeOK
<1>2. WorkerInv
  BY DEF Init, WorkerInv, Fits, Made, Busy, At
<1>3. QueueInv
  BY DEF Init, QueueInv, Agree
<1>4. FilesInv /\ ReduceFindsFiles /\ MapBarrierIsEmpty
  BY DEF Init, FilesInv, ReduceFindsFiles, MapBarrierIsEmpty
<1> QED BY <1>1, <1>2, <1>3, <1>4, Zenon DEF IInv

(* Every step of the Master and of the workers keeps the invariant *)
LEMMA NextInv == IInv /\ [Next]_vars => IInv'
<1> SUFFICES ASSUME IInv, [Next]_vars PROVE IInv'
  OBVIOUS
<1>0. up \in BOOLEAN /\ expired \in BOOLEAN /\ crashes \in 0 .. MaxCrashes
  BY DEF IInv, TypeOK
<1>1. CASE schedule
  <2>1. CASE phase = "map" /\ ScheduleTasks("map_barrier")
    BY <2>1, ScheduleTasksKeeps, ZenonT(40)
  <2>2. CASE phase = "map_barrier" /\ ScheduleBarrier("map")
    BY <2>2, ScheduleBarrierKeeps, ZenonT(40)
  <2>3. CASE phase = "map_barrier" /\ AllComplete /\ ScheduleReduce
    BY <2>3, ScheduleReduceKeeps, ZenonT(40)
  <2>4. CASE phase = "reduce" /\ ScheduleTasks("reduce_barrier")
    BY <2>4, ScheduleTasksKeeps, ZenonT(40)
  <2>5. CASE phase = "reduce_barrier" /\ ScheduleBarrier("reduce")
    BY <2>5, ScheduleBarrierKeeps, ZenonT(40)
  <2>6. CASE phase = "reduce_barrier" /\ AllComplete /\ ScheduleFin
    BY <1>0, <2>6, PhaseEndKeeps, ZenonT(40) DEF ScheduleFin
  <2> QED BY <1>1, <2>1, <2>2, <2>3, <2>4, <2>5, <2>6, ZenonT(40) DEF schedule
<1>2. CASE TenSeconds
  BY <1>0, <1>2, PhaseEndKeeps, ZenonT(40) DEF TenSeconds
<1>3. CASE MasterExit
  BY <1>0, <1>3, PhaseEndKeeps, ZenonT(40) DEF MasterExit
<1>4. ASSUME NEW w \in Worker, MakeWorker(w) \/ CallFails(w)
      PROVE  IInv'
  <2>1. [at |-> "asking"] \in Resting /\ [at |-> "down"] \in Resting
    BY DEF Resting
  <2> QED BY <1>0, <1>4, <2>1, RestKeeps, ZenonT(40) DEF MakeWorker, CallFails, masterVars
<1>5. ASSUME NEW w \in Worker, Crash(w)
      PROVE  IInv'
  <2>1. [at |-> "down"] \in Resting
    BY DEF Resting
  <2>2. crashes' \in 0 .. MaxCrashes
    BY <1>0, <1>5, CrashAssumption, SMTT(60) DEF Crash
  <2> QED BY <1>0, <1>5, <2>1, <2>2, RestKeeps, ZenonT(40) DEF Crash, masterVars
<1>6. CASE UNCHANGED vars
  BY <1>0, <1>6, PhaseEndKeeps, ZenonT(40) DEF vars, masterVars
<1>7. ASSUME NEW w \in Worker, ReqTask(w)
      PROVE  IInv'
  <2>1. CASE UNCHANGED worker
    BY <1>6, <1>7, <2>1, ZenonT(40) DEF ReqTask, vars
  <2>2. CASE ~UNCHANGED worker
    <3>1. [at |-> "finished"] \in Resting /\ [at |-> "locking"] \in Resting
      BY DEF Resting
    <3> QED BY <1>0, <1>7, <2>2, <3>1, RestKeeps, ZenonT(40) DEF ReqTask, masterVars
  <2> QED BY <2>1, <2>2, Zenon
<1>8. ASSUME NEW w \in Worker, run(w)
      PROVE  IInv'
  BY <1>4, <1>7, <1>8, ReqTaskLockedKeeps, ReportTaskKeeps, CreateInterKeeps, EncodeInterKeeps,
     CreateOutKeeps, ReadInterKeeps, WriteOutKeeps, ZenonT(40) DEF run
<1> QED BY <1>1, <1>2, <1>3, <1>4, <1>5, <1>6, <1>8, ZenonT(40) DEF Next

(* The invariant, from which the theorems below follow: the queue, the table *)
(* of the phase, the places of the workers and the files fit together.       *)
THEOREM Invariant == Spec => []IInv
  BY InitInv, NextInv, PTL DEF Spec

(* The Master's table is that of its phase, the files are files, a worker is *)
(* where run can be.                                                         *)
THEOREM TypeCorrect == Spec => []TypeOK
<1>1. IInv => TypeOK
  BY DEF IInv
<1> QED BY <1>1, Invariant, PTL

(* The queue and the table of the Master agree, for any number of tasks and  *)
(* workers, whatever crashed, was late or was reported twice.                *)
THEOREM QueueIsCoherent == Spec => []QueueCoherent
<1>1. IInv => QueueCoherent
  <2> SUFFICES ASSUME IInv PROVE QueueCoherent
    OBVIOUS
  <2>1. PICK N, table, kind : N = Len(freeTaskQueue) /\ table = allTask /\ kind = Kind
    BY Zenon
  <2>2. /\ N \in Nat /\ DOMAIN freeTaskQueue = 1 .. N
        /\ Agree(freeTaskQueue, allTask, kind)
    BY <2>1, LenProperties, Zenon DEF IInv, TypeOK, QueueInv
  <2> DEFINE queued == {freeTaskQueue[n].i : n \in 1 .. N}
             place == [n \in 1 .. N |-> freeTaskQueue[n].i]
  <2>3. place \in Bijection(1 .. N, queued)
    <3>1. \A n, m \in 1 .. N : place[n] = place[m] => n = m
      BY <2>1, <2>2, Zenon DEF Agree
    <3>2. place \in [1 .. N -> queued] /\ \A i \in queued : \E n \in 1 .. N : place[n] = i
      OBVIOUS
    <3> HIDE DEF queued, place
    <3> QED BY <3>1, <3>2, Zenon DEF Bijection, Injection, Surjection, IsInjective
  <2>4. Cardinality(queued) = N
    <3>1. ExistsBijection(1 .. N, queued)
      BY <2>3, Zenon DEF ExistsBijection
    <3>2. IsFiniteSet(1 .. N) /\ Cardinality(1 .. N) = N
      BY <2>2, FS_Interval
    <3> HIDE DEF queued
    <3> QED BY <3>1, <3>2, FS_Bijection, ZenonT(40)
  <2>5. \A n \in 1 .. N : freeTaskQueue[n].Phase = kind
    BY <2>1, <2>2, ZenonT(40) DEF Agree
  <2>6. With("IN_QUEUE") \subseteq queued
    BY <2>1, <2>2, Zenon DEF Agree, With
  <2>7. queued \cap (With("IDLE") \cup With("IN_PROGRESS")) = {}
    BY <2>1, <2>2 DEF Agree, With
  <2> QED BY <2>1, <2>2, <2>4, <2>5, <2>6, <2>7, ZenonT(40) DEF QueueCoherent, Kind, Mapping
<1> QED BY <1>1, Invariant, PTL

(* No reduce task misses an intermediate file, for any number of tasks.      *)
THEOREM FilesAreFound == Spec => []ReduceFindsFiles
<1>1. IInv => ReduceFindsFiles
  BY Zenon DEF IInv
<1> QED BY <1>1, Invariant, PTL

(* A task that waits is never stuck behind the barrier of the map phase.     *)
THEOREM BarrierIsEmpty == Spec => []MapBarrierIsEmpty
<1>1. IInv => MapBarrierIsEmpty
  BY DEF IInv
<1> QED BY <1>1, Invariant, PTL

-----------------------------------------------------------------------------
(* The output, after a map phase in which no task was queued again *)

(* A worker with a task has a task of the phase, that is in the table *)
LEMMA OwnsTask ==
  ASSUME IInv, OutInv, NEW w \in Worker, Busy(w)
  PROVE  /\ worker[w].task.i \in DOMAIN allTask
         /\ Once(worker[w].task.i) => allTask[worker[w].task.i] = "IN_PROGRESS"
         /\ worker[w].task.Phase = "map" =>
              Mapping /\ worker[w].task.i \in MapTask /\ Once(worker[w].task.i)
         /\ worker[w].task.Phase = "reduce" => ~Mapping /\ worker[w].task.i \in ReduceTask
<1>1. \/ worker[w].task.Phase = "map" /\ worker[w].task.i \in MapTask
      \/ worker[w].task.Phase = "reduce" /\ worker[w].task.i \in ReduceTask
  BY BusyType, Zenon DEF IInv
<1>2. /\ worker[w].task.Phase = Kind
      /\ Once(worker[w].task.i) => allTask[worker[w].task.i] = "IN_PROGRESS"
  BY Zenon DEF OutInv, Owns
<1>3. DOMAIN allTask = IF Mapping THEN MapTask ELSE ReduceTask
  BY TableType, Zenon DEF IInv
<1>4. worker[w].task.Phase = IF Mapping THEN "map" ELSE "reduce"
  BY <1>2, Zenon DEF Kind
<1>5. CASE Mapping
  <2>1. worker[w].task.Phase = "map" /\ worker[w].task.Phase # "reduce"
    BY <1>4, <1>5
  <2>2. Once(worker[w].task.i)
    BY <1>5, Zenon DEF OutInv, Once
  <2> QED BY <1>1, <1>2, <1>3, <1>5, <2>1, <2>2, Zenon
<1>6. CASE ~Mapping
  <2>1. worker[w].task.Phase = "reduce" /\ worker[w].task.Phase # "map"
    BY <1>4, <1>6
  <2> QED BY <1>1, <1>2, <1>3, <1>6, <2>1, Zenon
<1> QED BY <1>5, <1>6, Zenon

(* A task that was not queued again after the step was not before *)
LEMMA OnceBefore ==
  ASSUME requeued \subseteq requeued'
  PROVE  \A i : Once(i)' => Once(i)
  BY Zenon DEF Once

(* What a step leaves of a worker that keeps its place and its files *)
LEMMA WroteKept ==
  ASSUME NEW v \in Worker, Wrote(v), worker'[v] = worker[v], requeued \subseteq requeued',
         Busy(v) /\ worker[v].task.Phase = "map" =>
           \A r : inter'[worker[v].task.i][r] = inter[worker[v].task.i][r],
         Busy(v) /\ worker[v].task.Phase = "reduce" =>
           \/ out'[worker[v].task.i] = out[worker[v].task.i]
           \/ ~Once(worker[v].task.i) /\ out'[worker[v].task.i] # None
  PROVE  Wrote(v)'
<1> SUFFICES ASSUME Busy(v)' PROVE Wrote(v)'
  BY Zenon DEF Wrote
<1>1. Busy(v)
  BY ZenonT(40) DEF Busy
<1>2. PICK t, k : t = worker[v].task /\ k = worker[v].k
  OBVIOUS
<1>3. ASSUME t.Phase = "map"
      PROVE  /\ \A r \in ReduceTask : At(v, "report")' \/ r < k => Right(inter'[t.i][r])
             /\ At(v, "encode")' => inter'[t.i][k].by = v
  <2>1. \A r : inter'[t.i][r] = inter[t.i][r]
    BY <1>1, <1>2, <1>3, ZenonT(40)
  <2>2. /\ \A r \in ReduceTask : At(v, "report") \/ r < k => Right(inter[t.i][r])
        /\ At(v, "encode") => inter[t.i][k].by = v
    BY <1>1, <1>2, <1>3, ZenonT(40) DEF Wrote
  <2>3. \A place : At(v, place)' <=> At(v, place)
    BY DEF At
  <2> QED BY <2>1, <2>2, <2>3, ZenonT(60)
<1>4. ASSUME t.Phase = "reduce"
      PROVE  /\ worker[v].good = TRUE
             /\ (At(v, "read")' \/ At(v, "write")') /\ Once(t.i)' => out'[t.i].by = v
             /\ At(v, "report")' => out'[t.i] # None
             /\ At(v, "report")' /\ Once(t.i)' => Right(out'[t.i])
  <2>1. /\ worker[v].good = TRUE
        /\ (At(v, "read") \/ At(v, "write")) /\ Once(t.i) => out[t.i].by = v
        /\ At(v, "report") => out[t.i] # None
        /\ At(v, "report") /\ Once(t.i) => Right(out[t.i])
    BY <1>1, <1>2, <1>4, ZenonT(40) DEF Wrote
  <2>2. \A place : At(v, place)' <=> At(v, place)
    BY DEF At
  <2>3. Once(t.i)' => Once(t.i)
    BY OnceBefore, Zenon
  <2>4. CASE out'[t.i] = out[t.i]
    BY <2>1, <2>2, <2>3, <2>4, ZenonT(60) DEF Right
  <2>5. CASE ~Once(t.i) /\ out'[t.i] # None
    BY <2>1, <2>3, <2>5, ZenonT(60)
  <2> QED BY <1>1, <1>2, <1>4, <2>4, <2>5, Zenon
<1>5. worker'[v].task = t /\ worker'[v].k = k /\ worker'[v].good = worker[v].good
  BY <1>2
<1> QED BY <1>3, <1>4, <1>5, ZenonT(60) DEF Wrote, Right, Once

(* Workers that end their task, and no other has changed *)
LEMMA RestOut ==
  ASSUME IInv, OutInv, NEW w \in Worker, NEW s \in Resting, Goes(w, s),
         UNCHANGED <<phase, allTask, requeued, files>>
  PROVE  OutInv'
<1>1. s \in WorkerState
  BY DEF Resting, WorkerState
<1>2. /\ worker'[w] = s /\ \A v \in Worker \ {w} : worker'[v] = worker[v]
  BY <1>1, GoesType, Zenon DEF IInv
<1>3. ~Busy(w)'
  BY <1>2, RestingFits, ZenonT(40)
<1>4. ASSUME NEW v \in Worker PROVE (Owns(v) /\ Wrote(v))'
  <2>1. CASE v = w
    BY <1>3, <2>1, ZenonT(40) DEF Owns, Wrote
  <2>2. CASE v # w
    <3>1. worker'[v] = worker[v]
      BY <1>2, <2>2, Zenon
    <3>2. Wrote(v)'
      BY <3>1, WroteKept, ZenonT(40) DEF OutInv, files
    <3> QED BY <3>1, <3>2, ZenonT(40) DEF OutInv, Owns, Busy, Kind, Mapping, Once
  <2> QED BY <2>1, <2>2
<1>5. OneOwner'
  BY <1>2, <1>3, ZenonT(40) DEF OutInv, OneOwner, Busy, Once
<1>6. TableRight'
  BY Zenon DEF OutInv, TableRight, Mapping, Right, AllComplete, With, files, Once
<1>7. Mapping' => requeued' = {}
  BY Zenon DEF OutInv, Mapping
<1> QED BY <1>4, <1>5, <1>6, <1>7, ZenonT(40) DEF OutInv

(* The steps of the master that leave the workers and the files alone: no    *)
(* task becomes or ceases to be COMPLETED, nor handed out unless it is queued *)
(* again                                                                     *)
LEMMA MasterOut ==
  ASSUME IInv, OutInv, UNCHANGED <<worker, files>>, Mapping' <=> Mapping,
         requeued \subseteq requeued', Mapping => requeued' = {},
         DOMAIN allTask' = DOMAIN allTask,
         \A i \in DOMAIN allTask : allTask'[i] = "COMPLETED" <=> allTask[i] = "COMPLETED",
         \A i \in DOMAIN allTask : Once(i)' /\ allTask[i] = "IN_PROGRESS" =>
           allTask'[i] = "IN_PROGRESS",
         phase' = "fin" => AllComplete
  PROVE  OutInv'
<1>1. Kind' = Kind /\ \A i : Once(i)' => Once(i)
  BY OnceBefore DEF Kind
<1>2. ASSUME NEW v \in Worker PROVE (Owns(v) /\ Wrote(v))'
  <2>1. Wrote(v)'
    BY WroteKept, Zenon DEF OutInv, files
  <2>2. Owns(v)'
    <3> SUFFICES ASSUME Busy(v)'
                 PROVE  /\ worker[v].task.Phase = Kind
                        /\ Once(worker[v].task.i)' => allTask'[worker[v].task.i] = "IN_PROGRESS"
      BY <1>1, Zenon DEF Owns, Once
    <3>1. Busy(v)
      BY Zenon DEF Busy
    <3>2. worker[v].task.i \in DOMAIN allTask
      BY <3>1, OwnsTask, ZenonT(40)
    <3> QED BY <1>1, <3>1, <3>2, ZenonT(40) DEF OutInv, Owns
  <2> QED BY <2>1, <2>2, Zenon
<1>3. OneOwner'
  <2>1. \A v \in Worker : (Busy(v)' <=> Busy(v)) /\ worker'[v].task.i = worker[v].task.i
    BY Zenon DEF Busy
  <2>2. \A v \in Worker : Once(worker[v].task.i)' => Once(worker[v].task.i)
    BY <1>1, Zenon DEF Once
  <2> QED BY <2>1, <2>2, ZenonT(40) DEF OutInv, OneOwner, Once
<1>4. TableRight'
  <2>1. phase' = "fin" => AllComplete'
    BY DEF AllComplete, With
  <2>2. DOMAIN allTask = IF Mapping THEN MapTask ELSE ReduceTask
    BY TableType DEF IInv
  <2>3. Mapping => \A m \in MapTask : allTask'[m] = "COMPLETED" <=> allTask[m] = "COMPLETED"
    BY <2>2, Zenon
  <2>4. ~Mapping => \A r \in ReduceTask : allTask'[r] = "COMPLETED" <=> allTask[r] = "COMPLETED"
    BY <2>2, Zenon
  <2>5. Mapping => \A m \in MapTask : allTask'[m] = "COMPLETED" =>
          \A r \in ReduceTask : Right(inter'[m][r])
    BY <2>3, ZenonT(40) DEF OutInv, TableRight, Right, files
  <2>6. ~Mapping => /\ \A m \in MapTask, r \in ReduceTask : Right(inter'[m][r])
                    /\ \A r \in ReduceTask : allTask'[r] = "COMPLETED" =>
                         out'[r] # None /\ (Once(r)' => Right(out'[r]))
    BY <1>1, <2>4, ZenonT(40) DEF OutInv, TableRight, Right, files
  <2>7. \A r \in ReduceTask : out'[r] # None => out'[r].holds # "wrong"
    BY Zenon DEF OutInv, TableRight, files
  <2> QED BY <2>1, <2>5, <2>6, <2>7, ZenonT(40) DEF TableRight, Right, Once
<1> QED BY <1>2, <1>3, <1>4, ZenonT(40) DEF OutInv

(* schedule queues idle tasks, and in the reduce phase those handed out again *)
LEMMA QueueTasksOut ==
  ASSUME IInv, OutInv, MapsOnce', NEW S, S \subseteq With("IDLE"), QueueTasks(S),
         phase' # "fin", Mapping' <=> Mapping, UNCHANGED <<worker, files>>
  PROVE  OutInv'
<1>1. /\ DOMAIN allTask' = DOMAIN allTask
      /\ \A i \in DOMAIN allTask :
           allTask'[i] = IF i \in S \cup Overdue THEN "IN_QUEUE" ELSE allTask[i]
  BY Zenon DEF QueueTasks, Enqueue
<1>2. \A i \in S : allTask[i] = "IDLE"
  BY DEF With
<1>3. \A i \in Overdue : allTask[i] = "IN_PROGRESS"
  BY RequeuedType DEF IInv, With
<1>4. requeued' = requeued \cup {getTask(i) : i \in Overdue}
  BY Zenon DEF QueueTasks
<1>5. \A i \in Overdue : getTask(i) \in requeued' /\ getTask(i).i = i
  BY <1>4 DEF getTask
<1>6. \A i \in Overdue : ~Once(i)'
  BY <1>5, Zenon DEF Once
<1>7. Mapping => Overdue = {}
  <2> SUFFICES ASSUME Mapping, NEW i \in Overdue PROVE FALSE
    BY Zenon
  <2>1. getTask(i).Phase = "map"
    BY DEF getTask, Mapping
  <2>2. getTask(i).Phase = "reduce"
    BY <1>5, Zenon DEF MapsOnce
  <2> QED BY <2>1, <2>2
<1>8. Mapping => requeued' = {}
  BY <1>4, <1>7 DEF OutInv
<1>9. requeued \subseteq requeued'
  BY <1>4, Zenon
<1>10. \A i \in DOMAIN allTask : allTask'[i] = "COMPLETED" <=> allTask[i] = "COMPLETED"
  BY <1>1, <1>2, <1>3
<1>11. \A i \in DOMAIN allTask : Once(i)' /\ allTask[i] = "IN_PROGRESS" =>
         allTask'[i] = "IN_PROGRESS"
  <2> SUFFICES ASSUME NEW i \in DOMAIN allTask, Once(i)', allTask[i] = "IN_PROGRESS"
               PROVE  allTask'[i] = "IN_PROGRESS"
    BY Zenon
  <2>1. i \notin S /\ i \notin Overdue
    BY <1>2, <1>6
  <2> QED BY <1>1, <2>1, Zenon
<1> QED BY <1>1, <1>8, <1>9, <1>10, <1>11, MasterOut, ZenonT(40)

(* schedule ends a phase when every task is COMPLETED: its files are right *)
LEMMA ScheduleOut ==
  ASSUME IInv, OutInv, MapsOnce', schedule
  PROVE  OutInv'
<1>0. UNCHANGED <<worker, files>> /\ {} \subseteq With("IDLE")
  BY ZenonT(60) DEF schedule, ScheduleTasks, ScheduleBarrier, ScheduleReduce, ScheduleFin
<1>1. ASSUME NEW barrier, \/ phase = "map" /\ barrier = "map_barrier"
                          \/ phase = "reduce" /\ barrier = "reduce_barrier",
             ScheduleTasks(barrier)
      PROVE  OutInv'
  <2>1. QueueTasks(With("IDLE"))
    BY <1>1, Zenon DEF ScheduleTasks
  <2>2. phase' # "fin" /\ (Mapping' <=> Mapping)
    BY <1>1 DEF ScheduleTasks, Mapping
  <2> QED BY <1>0, <2>1, <2>2, QueueTasksOut, Zenon
<1>2. ASSUME NEW base, \/ phase = "map_barrier" /\ base = "map"
                       \/ phase = "reduce_barrier" /\ base = "reduce",
             ScheduleBarrier(base)
      PROVE  OutInv'
  <2>1. QueueTasks({})
    BY <1>2, Zenon DEF ScheduleBarrier
  <2>2. phase' # "fin" /\ (Mapping' <=> Mapping)
    BY <1>2 DEF ScheduleBarrier, Mapping
  <2> QED BY <1>0, <2>1, <2>2, QueueTasksOut, ZenonT(40)
<1>3. CASE phase = "map_barrier" /\ AllComplete /\ ScheduleReduce
  <2>1. Mapping /\ ~Mapping' /\ phase' = "reduce"
    BY <1>3 DEF Mapping, ScheduleReduce
  <2>2. \A i \in DOMAIN allTask : allTask[i] = "COMPLETED"
    BY <1>3, Zenon DEF AllComplete, With
  <2>3. \A v \in Worker : ~Busy(v)
    <3> SUFFICES ASSUME NEW v \in Worker, Busy(v) PROVE FALSE
      BY Zenon
    <3>1. worker[v].task.i \in DOMAIN allTask /\ Once(worker[v].task.i)
      BY <2>1, OwnsTask, Zenon DEF OutInv, Once
    <3> QED BY <2>2, <3>1, OwnsTask
  <2>4. \A v \in Worker : ~Busy(v)'
    BY <1>0, <2>3, Zenon DEF Busy
  <2>5. \A m \in MapTask, r \in ReduceTask : Right(inter[m][r])
    <3>1. DOMAIN allTask = MapTask
      BY <2>1, TableType, Zenon DEF IInv
    <3> QED BY <2>1, <2>2, <3>1, ZenonT(40) DEF OutInv, TableRight
  <2>6. \A r \in ReduceTask : allTask'[r] # "COMPLETED"
    BY <1>3, Zenon DEF ScheduleReduce
  <2>7. TableRight'
    BY <1>0, <2>1, <2>5, <2>6, Zenon DEF OutInv, TableRight, Right, files
  <2> QED BY <2>1, <2>4, <2>7, ZenonT(40) DEF OutInv, Owns, Wrote, OneOwner
<1>4. CASE phase = "reduce_barrier" /\ AllComplete /\ ScheduleFin
  <2>1. (Mapping' <=> Mapping) /\ ~Mapping /\ UNCHANGED <<allTask, requeued>>
    BY <1>4 DEF Mapping, ScheduleFin
  <2> QED BY <1>0, <1>4, <2>1, MasterOut, ZenonT(40)
<1> QED BY <1>1, <1>2, <1>3, <1>4, ZenonT(40) DEF schedule

(* A worker goes on, and writes only to the files of its task: the others    *)
(* have other tasks, and the table counts no task as COMPLETED that this     *)
(* worker works at.                                                          *)
LEMMA WorkOut ==
  ASSUME IInv, OutInv, NEW w \in Worker, Busy(w), worker'[w].task = worker[w].task,
         Busy(w)', \A v \in Worker \ {w} : worker'[v] = worker[v],
         \A m \in MapTask : \A r :
           (worker[w].task.Phase = "map" /\ worker[w].task.i = m) \/ inter'[m][r] = inter[m][r],
         \A r \in ReduceTask :
           \/ /\ worker[w].task.Phase = "reduce" /\ worker[w].task.i = r
              /\ out'[r] # None /\ out'[r].holds # "wrong"
           \/ out'[r] = out[r],
         Wrote(w)', UNCHANGED masterVars
  PROVE  OutInv'
<1>1. /\ Kind' = Kind /\ (Mapping' <=> Mapping) /\ UNCHANGED <<phase, allTask, requeued>>
      /\ \A i : Once(i)' <=> Once(i)
  BY Zenon DEF Kind, Mapping, masterVars, Once
<1>2. ASSUME NEW v \in Worker PROVE Owns(v)'
  <2>1. CASE v = w
    <3>1. Once(worker[v].task.i)' <=> Once(worker[v].task.i)
      BY <1>1, <2>1, Zenon DEF Once
    <3> QED BY <1>1, <2>1, <3>1, ZenonT(40) DEF OutInv, Owns
  <2>2. CASE v # w
    <3>1. worker'[v] = worker[v] /\ (Busy(v)' <=> Busy(v))
      BY <2>2, Zenon DEF Busy
    <3>2. Once(worker[v].task.i)' <=> Once(worker[v].task.i)
      BY <1>1, <3>1, Zenon DEF Once
    <3> QED BY <1>1, <3>1, <3>2, ZenonT(40) DEF OutInv, Owns
  <2> QED BY <2>1, <2>2, Zenon
<1>3. ASSUME NEW v \in Worker PROVE Wrote(v)'
  <2>1. CASE v = w
    BY <2>1, SMTT(60)
  <2>2. CASE v # w /\ ~Busy(v)
    <3>1. ~Busy(v)'
      BY <2>2, ZenonT(40) DEF Busy
    <3> QED BY <3>1, Zenon DEF Wrote
  <2>3. CASE v # w /\ Busy(v)
    <3>1. worker[v].task.i # worker[w].task.i \/ ~Once(worker[v].task.i)
      BY <2>3, Zenon DEF OutInv, OneOwner
    <3>2. worker[v].task.Phase = "map" =>
            worker[v].task.i \in MapTask /\ Once(worker[v].task.i)
      BY <2>3, OwnsTask, Zenon
    <3>3. worker[v].task.Phase = "reduce" => worker[v].task.i \in ReduceTask
      BY <2>3, OwnsTask, Zenon
    <3>4. worker[v].task.Phase = "map" =>
            \A r : inter'[worker[v].task.i][r] = inter[worker[v].task.i][r]
      BY <3>1, <3>2, ZenonT(40)
    <3>5. worker[v].task.Phase = "reduce" =>
            \/ out'[worker[v].task.i] = out[worker[v].task.i]
            \/ ~Once(worker[v].task.i) /\ out'[worker[v].task.i] # None
      BY <3>1, <3>3, Zenon
    <3> QED BY <1>1, <2>3, <3>4, <3>5, WroteKept, ZenonT(40) DEF OutInv
  <2> QED BY <2>1, <2>2, <2>3, ZenonT(60)
<1>4. OneOwner'
  <2> SUFFICES ASSUME NEW u \in Worker, NEW v \in Worker, Busy(u)', Busy(v)',
                      worker'[u].task.i = worker'[v].task.i, Once(worker[u].task.i)'
               PROVE  u = v
    BY ZenonT(40) DEF OneOwner
  <2>1. \A x \in Worker : (Busy(x)' => Busy(x)) /\ (Busy(x)' => worker'[x].task = worker[x].task)
    BY Zenon DEF Busy
  <2>2. Once(worker[u].task.i)
    BY <1>1, <2>1, Zenon DEF Once
  <2> QED BY <2>1, <2>2, Zenon DEF OutInv, OneOwner
<1>5. Once(worker[w].task.i) => allTask[worker[w].task.i] # "COMPLETED"
  BY OwnsTask
<1>6. TableRight'
  <2>1. ASSUME Mapping, NEW m \in MapTask, allTask[m] = "COMPLETED", NEW r \in ReduceTask
        PROVE  Right(inter'[m][r])
    <3>1. Right(inter[m][r]) /\ Once(m)
      BY <2>1, ZenonT(40) DEF OutInv, TableRight, Once
    <3> QED BY <1>5, <2>1, <3>1, ZenonT(40)
  <2>2. ASSUME ~Mapping, NEW m \in MapTask, NEW r \in ReduceTask
        PROVE  Right(inter'[m][r])
    <3>1. worker[w].task.Phase # "map"
      BY <2>2, OwnsTask, ZenonT(40)
    <3> QED BY <2>2, <3>1, ZenonT(40) DEF OutInv, TableRight
  <2>3. ASSUME ~Mapping, NEW r \in ReduceTask, allTask[r] = "COMPLETED"
        PROVE  out'[r] # None /\ (Once(r) => Right(out'[r]))
    <3>1. out[r] # None /\ (Once(r) => Right(out[r]))
      BY <2>3, ZenonT(40) DEF OutInv, TableRight
    <3>2. out'[r] = out[r] \/ (worker[w].task.i = r /\ out'[r] # None)
      BY Zenon
    <3> QED BY <1>5, <2>3, <3>1, <3>2, ZenonT(40)
  <2>4. phase' = "fin" => AllComplete'
    BY <1>1, ZenonT(40) DEF OutInv, TableRight, AllComplete, With
  <2>5. \A r \in ReduceTask : out'[r] # None => out'[r].holds # "wrong"
    BY ZenonT(40) DEF OutInv, TableRight
  <2> QED BY <1>1, <2>1, <2>2, <2>3, <2>4, <2>5, ZenonT(40) DEF TableRight, Right, Once
<1>7. Mapping' => requeued' = {}
  BY <1>1, Zenon DEF OutInv
<1> QED BY <1>2, <1>3, <1>4, <1>6, <1>7, ZenonT(40) DEF OutInv

(* ReqTask: a task that is in the queue is handed out to nobody else *)
LEMMA ReqTaskLockedOut ==
  ASSUME IInv, OutInv, NEW w \in Worker, ReqTaskLocked(w)
  PROVE  OutInv'
<1>1. CASE phase \notin {"map", "reduce"} \/ freeTaskQueue = << >>
  <2>1. Goes(w, [at |-> "down"]) /\ UNCHANGED <<phase, allTask, requeued, files>>
    BY <1>1, Zenon DEF ReqTaskLocked
  <2>2. [at |-> "down"] \in Resting
    BY DEF Resting
  <2> QED BY <2>1, <2>2, RestOut, ZenonT(40)
<1>2. CASE phase \in {"map", "reduce"} /\ freeTaskQueue # << >>
  <2>1. PICK t : t = Head(freeTaskQueue)
    OBVIOUS
  <2>2. /\ allTask' = [allTask EXCEPT ![t.i] = "IN_PROGRESS"]
        /\ Goes(w, [at |-> "create", task |-> t, k |-> 0, good |-> TRUE])
        /\ UNCHANGED <<phase, requeued, files>>
    BY <1>2, <2>1, ZenonT(40) DEF ReqTaskLocked
  <2>3. /\ t \in Task /\ t.Phase = Kind /\ t.i \in DOMAIN allTask
        /\ allTask[t.i] \in {"IN_QUEUE", "COMPLETED"}
    BY <1>2, <2>1, AgreeDequeue, ZenonT(40) DEF IInv, TypeOK, QueueInv
  <2>4. [at |-> "create", task |-> t, k |-> 0, good |-> TRUE] \in WorkerState
    BY <2>3 DEF WorkerState
  <2>5. /\ worker'[w] = [at |-> "create", task |-> t, k |-> 0, good |-> TRUE]
        /\ \A v \in Worker \ {w} : worker'[v] = worker[v]
    BY <2>2, <2>4, GoesType, ZenonT(40) DEF IInv
  <2>6. /\ worker'[w].at = "create" /\ worker'[w].task = t
        /\ worker'[w].k = 0 /\ worker'[w].good = TRUE
    BY <2>5, SMTT(60)
  <2>7. /\ allTask'[t.i] = "IN_PROGRESS" /\ DOMAIN allTask' = DOMAIN allTask
        /\ \A i \in DOMAIN allTask : i # t.i => allTask'[i] = allTask[i]
    BY <2>2, <2>3, Zenon
  <2>8. Kind' = Kind /\ (Mapping' <=> Mapping) /\ phase' # "fin"
    BY <1>2, <2>2, Zenon DEF Kind, Mapping
  <2>9. Once(t.i) => \A v \in Worker : Busy(v) => worker[v].task.i # t.i
    BY <2>3, OwnsTask, Zenon
  <2>10. ASSUME NEW v \in Worker PROVE (Owns(v) /\ Wrote(v))'
    <3>1. CASE v = w
      <4>1. \A r \in ReduceTask : ~(r < 0)
        BY SizeAssumption, SMTT(60) DEF ReduceTask
      <4>2. Owns(v)'
        BY <2>3, <2>6, <2>7, <2>8, <3>1, Zenon DEF Owns, Once
      <4>3. Wrote(v)'
        BY <2>6, <3>1, <4>1, ZenonT(60) DEF Wrote, At
      <4> QED BY <4>2, <4>3, Zenon
    <3>2. CASE v # w
      <4>1. worker'[v] = worker[v] /\ (Busy(v)' <=> Busy(v))
        BY <2>5, <3>2, Zenon DEF Busy
      <4>2. Wrote(v)'
        BY <2>2, <4>1, WroteKept, ZenonT(40) DEF OutInv, files
      <4>3. Busy(v) => worker[v].task.i \in DOMAIN allTask
        BY OwnsTask, ZenonT(40)
      <4>4. Owns(v)'
        BY <2>2, <2>7, <2>8, <4>1, <4>3, ZenonT(40) DEF OutInv, Owns, Once
      <4> QED BY <4>2, <4>4, Zenon
    <3> QED BY <3>1, <3>2, Zenon
  <2>11. OneOwner'
    <3>1. \A v \in Worker \ {w} : (Busy(v)' <=> Busy(v)) /\ worker'[v] = worker[v]
      BY <2>5 DEF Busy
    <3> SUFFICES ASSUME NEW u \in Worker, NEW v \in Worker, Busy(u)', Busy(v)',
                        worker'[u].task.i = worker'[v].task.i, Once(worker'[u].task.i)
                 PROVE  u = v
      BY <2>2, Zenon DEF OneOwner, Once
    <3>2. CASE u # w /\ v # w
      BY <3>1, <3>2, ZenonT(40) DEF OutInv, OneOwner
    <3>3. CASE u = w /\ v # w
      BY <2>6, <2>9, <3>1, <3>3, ZenonT(40)
    <3>4. CASE u # w /\ v = w
      BY <2>6, <2>9, <3>1, <3>4, ZenonT(40)
    <3> QED BY <3>2, <3>3, <3>4, Zenon
  <2>12. TableRight'
    <3>1. \A i \in DOMAIN allTask : allTask'[i] = "COMPLETED" => allTask[i] = "COMPLETED"
      BY <2>7, Zenon
    <3>2. DOMAIN allTask = IF Mapping THEN MapTask ELSE ReduceTask
      BY TableType DEF IInv
    <3>3. Mapping => \A m \in MapTask : allTask'[m] = "COMPLETED" => allTask[m] = "COMPLETED"
      BY <3>1, <3>2, ZenonT(40)
    <3>4. ~Mapping => \A r \in ReduceTask : allTask'[r] = "COMPLETED" => allTask[r] = "COMPLETED"
      BY <3>1, <3>2, ZenonT(40)
    <3> QED BY <2>2, <2>8, <3>3, <3>4, ZenonT(40) DEF OutInv, TableRight, Right, Once, files
  <2> QED BY <2>2, <2>8, <2>10, <2>11, <2>12, ZenonT(40) DEF OutInv
<1> QED BY <1>1, <1>2, Zenon

(* ReportTask: the files of the task are right *)
LEMMA ReportTaskOut ==
  ASSUME IInv, OutInv, NEW w \in Worker, ReportTask(w)
  PROVE  OutInv'
<1>1. PICK j : j = worker[w].task.i
  BY Zenon
<1>2. Busy(w) /\ At(w, "report")
  BY DEF ReportTask, Busy, At
<1>3. /\ j \in DOMAIN allTask
      /\ Mapping => worker[w].task.Phase = "map"
      /\ ~Mapping => worker[w].task.Phase = "reduce"
  BY <1>1, <1>2, OwnsTask, BusyType, ZenonT(40) DEF IInv
<1>4. /\ allTask' = [allTask EXCEPT ![j] = "COMPLETED"]
      /\ Goes(w, [at |-> "asking"]) /\ UNCHANGED <<phase, requeued, files>>
  BY <1>1, <1>3, ZenonT(40) DEF ReportTask
<1>5. [at |-> "asking"] \in Resting /\ [at |-> "asking"] \in WorkerState
  BY DEF Resting, WorkerState
<1>6. /\ worker'[w] = [at |-> "asking"] /\ \A v \in Worker \ {w} : worker'[v] = worker[v]
  BY <1>4, <1>5, GoesType, ZenonT(40) DEF IInv
<1>7. ~Busy(w)'
  BY <1>5, <1>6, RestingFits, ZenonT(40)
<1>8. /\ DOMAIN allTask' = DOMAIN allTask /\ allTask'[j] = "COMPLETED"
      /\ \A i \in DOMAIN allTask : i # j => allTask'[i] = allTask[i]
  BY <1>3, <1>4, Zenon
<1>9. Kind' = Kind /\ (Mapping' <=> Mapping) /\ (phase' = "fin" <=> phase = "fin")
  BY <1>4, Zenon DEF Kind, Mapping
<1>10. ASSUME NEW v \in Worker PROVE (Owns(v) /\ Wrote(v))'
  <2>1. CASE v = w
    BY <1>7, <2>1, ZenonT(40) DEF Owns, Wrote
  <2>2. CASE v # w
    <3>1. worker'[v] = worker[v] /\ (Busy(v)' <=> Busy(v))
      BY <1>6, <2>2, Zenon DEF Busy
    <3>2. Wrote(v)'
      BY <1>4, <3>1, WroteKept, ZenonT(40) DEF OutInv, files
    <3>3. Busy(v) => /\ worker[v].task.i \in DOMAIN allTask
                     /\ Once(worker[v].task.i) => worker[v].task.i # j
      BY <1>1, <1>2, <2>2, OwnsTask, ZenonT(40) DEF OutInv, OneOwner
    <3>4. Owns(v)'
      BY <1>4, <1>8, <1>9, <3>1, <3>3, ZenonT(40) DEF OutInv, Owns, Once
    <3> QED BY <3>2, <3>4, Zenon
  <2> QED BY <2>1, <2>2, Zenon
<1>11. OneOwner'
  <2>1. \A v \in Worker : Busy(v)' => Busy(v) /\ worker'[v] = worker[v]
    BY <1>6, <1>7, Zenon DEF Busy
  <2> QED BY <1>4, <2>1, ZenonT(40) DEF OutInv, OneOwner, Once
<1>12. TableRight'
  <2>1. DOMAIN allTask = IF Mapping THEN MapTask ELSE ReduceTask
    BY TableType DEF IInv
  <2>2. ASSUME Mapping, NEW m \in MapTask, allTask'[m] = "COMPLETED", NEW r \in ReduceTask
        PROVE  Right(inter[m][r])
    <3>1. CASE m = j
      BY <1>1, <1>2, <1>3, <2>2, <3>1, ZenonT(40) DEF OutInv, Wrote
    <3>2. CASE m # j
      BY <1>8, <2>1, <2>2, <3>2, ZenonT(40) DEF OutInv, TableRight
    <3> QED BY <3>1, <3>2, Zenon
  <2>3. ASSUME ~Mapping, NEW r \in ReduceTask, allTask'[r] = "COMPLETED"
        PROVE  out[r] # None /\ (Once(r) => Right(out[r]))
    <3>1. CASE r = j
      BY <1>1, <1>2, <1>3, <2>3, <3>1, ZenonT(40) DEF OutInv, Wrote
    <3>2. CASE r # j
      BY <1>8, <2>1, <2>3, <3>2, ZenonT(40) DEF OutInv, TableRight
    <3> QED BY <3>1, <3>2, Zenon
  <2>4. phase' = "fin" => AllComplete'
    <3> SUFFICES ASSUME phase = "fin" PROVE \A i \in DOMAIN allTask : allTask'[i] = "COMPLETED"
      BY <1>8, <1>9, Zenon DEF AllComplete, With
    <3>1. \A i \in DOMAIN allTask : allTask[i] = "COMPLETED"
      BY DEF OutInv, TableRight, AllComplete, With
    <3> QED BY <1>8, <3>1, Zenon
  <2> QED BY <1>4, <1>9, <2>2, <2>3, <2>4, ZenonT(40) DEF OutInv, TableRight, Right, Once, files
<1> QED BY <1>4, <1>9, <1>10, <1>11, <1>12, ZenonT(40) DEF OutInv

(* doMapTask: the files of the partitions before k are right *)
LEMMA CreateInterOut ==
  ASSUME IInv, OutInv, NEW w \in Worker, CreateInter(w)
  PROVE  OutInv'
<1>1. Busy(w) /\ At(w, "create") /\ worker[w].task.Phase = "map"
  BY Zenon DEF CreateInter, Busy, At
<1>2. PICK m \in MapTask, r \in ReduceTask : m = worker[w].task.i /\ r = worker[w].k
  BY <1>1, BusyType, ZenonT(60) DEF IInv, WorkerInv, Fits
<1>3. /\ inter' = [inter EXCEPT ![m][r] = Opened(w)] /\ Move(w, "encode", r, TRUE)
      /\ UNCHANGED <<masterVars, out>>
  BY <1>2, ZenonT(40) DEF CreateInter
<1>4. Opened(w) \in File /\ Opened(w).by = w /\ r \in Nat /\ ~(r < r)
  BY DEF Opened, File, ReduceTask
<1>5. /\ inter'[m][r] = Opened(w)
      /\ \A s \in ReduceTask : s # r => inter'[m][s] = inter[m][s]
  <2>1. inter \in [MapTask -> [ReduceTask -> File \cup {None}]]
    BY DEF IInv, TypeOK
  <2> QED BY <1>3, <2>1, Zenon
<1>6. /\ worker'[w].at = "encode" /\ worker'[w].k = r /\ worker'[w].task = worker[w].task
      /\ \A v \in Worker \ {w} : worker'[v] = worker[v]
  BY <1>1, <1>3, <1>4, MoveType, ZenonT(40) DEF IInv
<1>7. Busy(w)' /\ ~At(w, "report")'
  BY <1>6 DEF Busy, At
<1>8. Wrote(w)'
  <2>1. \A s \in ReduceTask : s < r => Right(inter[m][s])
    BY <1>1, <1>2, ZenonT(40) DEF OutInv, Wrote
  <2>2. \A s \in ReduceTask : s < r => Right(inter'[m][s])
    BY <1>4, <1>5, <2>1, ZenonT(40)
  <2>3. worker'[w].task.Phase = "map" /\ worker'[w].task.Phase # "reduce"
    BY <1>1, <1>6, Zenon
  <2>4. inter'[m][r].by = w
    BY <1>4, <1>5, Zenon
  <2> QED BY <1>2, <1>6, <1>7, <2>2, <2>3, <2>4, ZenonT(40) DEF Wrote, Right
<1>9. \A n \in MapTask : n # m => inter'[n] = inter[n]
  BY <1>3 DEF IInv, TypeOK
<1> QED BY <1>1, <1>2, <1>3, <1>6, <1>7, <1>8, <1>9, WorkOut, ZenonT(40)

(* A file with something else in it *)
LEMMA RightFile ==
  ASSUME NEW f \in File, NEW h \in {"part", "right", "wrong"}
  PROVE  [f EXCEPT !.holds = h] \in File /\ [f EXCEPT !.holds = h].holds = h
  BY DEF File

(* Nobody else has opened the file since, so what is written is all there *)
LEMMA EncodeInterOut ==
  ASSUME IInv, OutInv, NEW w \in Worker, EncodeInter(w)
  PROVE  OutInv'
<1>1. Busy(w) /\ At(w, "encode")
  BY ZenonT(60) DEF EncodeInter, Busy, At
<1>2. worker[w].task.Phase = "map"
  BY <1>1, ZenonT(60) DEF IInv, WorkerInv, Fits
<1>3. PICK m \in MapTask, r \in ReduceTask :
        m = worker[w].task.i /\ r = worker[w].k /\ inter[m][r] # None
  <2>1. TypeOK /\ Fits(w)
    BY Zenon DEF IInv, WorkerInv
  <2>2. worker[w].task.i \in MapTask
    <3>1. worker[w].task.Phase # "reduce"
      BY <1>2, Zenon
    <3> QED BY <1>1, <2>1, <3>1, BusyType, Zenon
  <2>3. worker[w].k \in ReduceTask /\ inter[worker[w].task.i][worker[w].k] # None
    BY <1>1, <2>1, Zenon DEF Fits
  <2> QED BY <2>2, <2>3, Zenon
<1>4. inter[m][r].by = w /\ \A s \in ReduceTask : s < r => Right(inter[m][s])
  BY <1>1, <1>2, <1>3, Zenon DEF OutInv, Wrote
<1>5. inter' = [inter EXCEPT ![m][r].holds = "right"]
  <2>1. PICK h \in Written(inter[m][r], w, "right") : inter' = [inter EXCEPT ![m][r].holds = h]
    BY <1>3, ZenonT(40) DEF EncodeInter
  <2>2. h = "right"
    BY <1>4, ZenonT(40) DEF Written
  <2> QED BY <2>1, <2>2, Zenon
<1>6. inter[m][r] \in File /\ inter \in [MapTask -> [ReduceTask -> File \cup {None}]]
  BY <1>3 DEF IInv, TypeOK
<1>7. PICK f \in File : f = [inter[m][r] EXCEPT !.holds = "right"] /\ f.holds = "right"
  BY <1>6, RightFile, ZenonT(40)
<1>8. inter' = [inter EXCEPT ![m][r] = f]
  BY <1>5, <1>6, <1>7, Zenon
<1>9. /\ Right(inter'[m][r])
      /\ \A s \in ReduceTask : s # r => inter'[m][s] = inter[m][s]
  <2>1. inter'[m][r] = f /\ \A s \in ReduceTask : s # r => inter'[m][s] = inter[m][s]
    BY <1>6, <1>8, Zenon
  <2> QED BY <1>7, <2>1, NoneAssumption, ZenonT(40) DEF Right
<1>10. \A n \in MapTask : n # m => inter'[n] = inter[n]
  BY <1>6, <1>8, Zenon
<1>11. /\ UNCHANGED <<masterVars, out>>
       /\ IF r + 1 < NReduce THEN Move(w, "create", r + 1, TRUE) ELSE Move(w, "report", 0, TRUE)
  BY <1>3, ZenonT(40) DEF EncodeInter
<1>12. r + 1 \in Nat /\ 0 \in Nat
  BY SizeAssumption DEF ReduceTask
<1>13. PICK place \in {"create", "report"}, k \in Nat, good \in BOOLEAN :
         /\ Move(w, place, k, good)
         /\ place = "create" => k = r + 1
         /\ place = "report" => ~(r + 1 < NReduce)
  BY <1>11, <1>12, ZenonT(60)
<1>14. place \in {"create", "encode", "read", "write", "report"}
  BY <1>13, ZenonT(60)
<1>15. /\ worker'[w].at = place /\ worker'[w].k = k /\ worker'[w].task = worker[w].task
       /\ \A v \in Worker \ {w} : worker'[v] = worker[v]
  <2>1. TypeOK
    BY Zenon DEF IInv
  <2>2. Busy(w)
    BY <1>1, Zenon
  <2>3. Move(w, place, k, good)
    BY <1>13, Zenon
  <2> QED BY <1>14, <2>1, <2>2, <2>3, MoveType, SMTT(60)
<1>16. Busy(w)' /\ ~At(w, "encode")'
  BY <1>13, <1>15, Zenon DEF Busy, At
<1>17. Wrote(w)'
  <2>1. \A s \in ReduceTask : s < r \/ s = r => Right(inter'[m][s])
    <3> SUFFICES ASSUME NEW s \in ReduceTask, s < r \/ s = r PROVE Right(inter'[m][s])
      OBVIOUS
    <3>1. CASE s = r
      BY <1>9, <3>1, Zenon
    <3>2. CASE s # r
      BY <1>4, <1>9, <3>2, ZenonT(40)
    <3> QED BY <3>1, <3>2, Zenon
  <2>2. \A s \in ReduceTask : place = "report" \/ s < k => s < r \/ s = r
    BY <1>13, SizeAssumption, SMTT(60) DEF ReduceTask
  <2>3. \A s \in ReduceTask : At(w, "report")' \/ s < k => Right(inter'[m][s])
    BY <1>15, <2>1, <2>2, ZenonT(40) DEF At
  <2>4. worker'[w].task.Phase = "map" /\ worker'[w].task.Phase # "reduce"
    BY <1>2, <1>15, Zenon
  <2> QED BY <1>3, <1>15, <1>16, <2>3, <2>4, ZenonT(40) DEF Wrote, Right
<1> QED BY <1>1, <1>2, <1>3, <1>10, <1>11, <1>15, <1>16, <1>17, WorkOut, ZenonT(40)

(* doReduceTask opens the output *)
LEMMA CreateOutOut ==
  ASSUME IInv, OutInv, NEW w \in Worker, CreateOut(w)
  PROVE  OutInv'
<1>1. Busy(w) /\ worker[w].task.Phase = "reduce" /\ worker[w].task.Phase # "map"
  BY Zenon DEF CreateOut, Busy, At
<1>2. PICK r \in ReduceTask : r = worker[w].task.i
  BY <1>1, BusyType, Zenon DEF IInv
<1>3. /\ out' = [out EXCEPT ![r] = Opened(w)] /\ Move(w, "read", 0, TRUE)
      /\ UNCHANGED <<masterVars, inter>>
  BY <1>2, ZenonT(40) DEF CreateOut
<1>4. Opened(w) \in File /\ Opened(w).by = w /\ Opened(w).holds # "wrong"
  BY DEF Opened, File
<1>5. /\ out'[r].by = w /\ out'[r] # None /\ out'[r].holds # "wrong"
      /\ \A s \in ReduceTask : s # r => out'[s] = out[s]
  BY <1>3, <1>4, OutSet, NoneAssumption, ZenonT(40) DEF IInv
<1>6. PICK good \in BOOLEAN : good = TRUE
  BY Zenon
<1>7. /\ worker'[w].at = "read" /\ worker'[w].good = good /\ worker'[w].task = worker[w].task
      /\ \A v \in Worker \ {w} : worker'[v] = worker[v]
  BY <1>1, <1>3, <1>6, MoveType, Zenon DEF IInv
<1>8. Busy(w)' /\ ~At(w, "report")'
  BY <1>7 DEF Busy, At
<1>9. Wrote(w)'
  BY <1>1, <1>2, <1>5, <1>6, <1>7, <1>8, ZenonT(40) DEF Wrote
<1> QED BY <1>1, <1>2, <1>3, <1>5, <1>7, <1>8, <1>9, WorkOut, ZenonT(40)

(* Every intermediate file is right: nothing of the reduce task goes wrong *)
LEMMA ReadInterOut ==
  ASSUME IInv, OutInv, NEW w \in Worker, ReadInter(w)
  PROVE  OutInv'
<1>1. Busy(w) /\ At(w, "read")
  BY Zenon DEF ReadInter, Busy, At
<1>2. PICK n \in MapTask, r \in ReduceTask :
        /\ n = worker[w].k /\ r = worker[w].task.i
        /\ worker[w].task.Phase = "reduce" /\ worker[w].task.Phase # "map"
  BY <1>1, BusyType, ZenonT(60) DEF IInv, WorkerInv, Fits
<1>3. Right(inter[n][r])
  BY <1>1, <1>2, OwnsTask, ZenonT(40) DEF OutInv, TableRight
<1>4. worker[w].good = TRUE /\ (Once(r) => out[r].by = w)
  BY <1>1, <1>2, ZenonT(40) DEF OutInv, Wrote
<1>5. /\ Move(w, IF n + 1 < NMap THEN "read" ELSE "write", n + 1,
              worker[w].good /\ inter[n][r].holds = "right")
      /\ UNCHANGED <<masterVars, inter, out>>
  BY <1>2, <1>3, ZenonT(40) DEF ReadInter, Right, files
<1>6. n + 1 \in Nat
  BY SMTT(60) DEF MapTask
<1>7. PICK place \in {"read", "write"}, good \in BOOLEAN :
        Move(w, place, n + 1, good) /\ good = TRUE
  <2>1. (worker[w].good /\ inter[n][r].holds = "right") = TRUE
    BY <1>3, <1>4, Zenon DEF Right
  <2> QED BY <1>5, <2>1, ZenonT(60)
<1>8. place \in {"create", "encode", "read", "write", "report"}
  BY <1>7, Zenon
<1>9. /\ worker'[w].at = place /\ worker'[w].good = good /\ worker'[w].task = worker[w].task
      /\ \A v \in Worker \ {w} : worker'[v] = worker[v]
  <2>1. TypeOK
    BY DEF IInv
  <2>2. PICK k \in Nat : k = n + 1
    BY <1>6
  <2>3. Move(w, place, k, good)
    BY <1>7, <2>2, ZenonT(60)
  <2>4. Busy(w)
    BY <1>1, Zenon
  <2> QED BY <1>8, <2>1, <2>3, <2>4, MoveType, SMTT(60)
<1>10. Busy(w)' /\ ~At(w, "report")'
  BY <1>7, <1>9, Zenon DEF Busy, At
<1>11. Wrote(w)'
  BY <1>2, <1>4, <1>5, <1>7, <1>9, <1>10, ZenonT(40) DEF Wrote, Once, masterVars
<1> QED BY <1>1, <1>5, <1>9, <1>10, <1>11, WorkOut, ZenonT(60)

(* The output is what the reduce function returned *)
LEMMA WriteOutOut ==
  ASSUME IInv, OutInv, NEW w \in Worker, WriteOut(w)
  PROVE  OutInv'
<1>1. Busy(w) /\ At(w, "write")
  BY Zenon DEF WriteOut, Busy, At
<1>2. PICK r \in ReduceTask :
        /\ r = worker[w].task.i /\ out[r] # None
        /\ worker[w].task.Phase = "reduce" /\ worker[w].task.Phase # "map"
  BY <1>1, BusyType, ZenonT(60) DEF IInv, WorkerInv, Fits
<1>3. worker[w].good = TRUE /\ (Once(r) => out[r].by = w)
  BY <1>1, <1>2, ZenonT(40) DEF OutInv, Wrote
<1>4. out[r] \in File /\ out \in [ReduceTask -> File \cup {None}]
  BY <1>2, Zenon DEF IInv, TypeOK
<1>5. out[r].holds \in {"part", "right"}
  <2>1. out[r].holds \in {"part", "right", "wrong"} /\ out[r].holds # "wrong"
    BY <1>2, <1>4 DEF File, OutInv, TableRight
  <2> QED BY <2>1
<1>6. PICK h \in {"part", "right"} :
        out' = [out EXCEPT ![r].holds = h] /\ (Once(r) => h = "right")
  <2>1. PICK h \in Written(out[r], w, "right") : out' = [out EXCEPT ![r].holds = h]
    BY <1>2, <1>3, ZenonT(40) DEF WriteOut
  <2>2. h \in {"part", "right"} /\ (Once(r) => h = "right")
    BY <1>3, <1>5, <2>1, ZenonT(40) DEF Written
  <2> QED BY <2>1, <2>2, Zenon
<1>7. PICK f \in File : f = [out[r] EXCEPT !.holds = h] /\ f.holds = h
  <2>1. h \in {"part", "right", "wrong"}
    BY <1>6
  <2> QED BY <1>4, <2>1, RightFile, ZenonT(40)
<1>8. /\ out'[r] # None /\ out'[r].holds = h /\ h # "wrong"
      /\ \A s \in ReduceTask : s # r => out'[s] = out[s]
  <2>1. out' = [out EXCEPT ![r] = f]
    BY <1>4, <1>6, <1>7, Zenon
  <2> QED BY <1>6, <1>7, <2>1, OutSet, NoneAssumption, ZenonT(40) DEF IInv
<1>9. Move(w, "report", 0, TRUE) /\ UNCHANGED <<masterVars, inter>>
  BY Zenon DEF WriteOut
<1>10. PICK good \in BOOLEAN : good = TRUE
  BY Zenon
<1>11. /\ worker'[w].at = "report" /\ worker'[w].good = good /\ worker'[w].task = worker[w].task
       /\ \A v \in Worker \ {w} : worker'[v] = worker[v]
  BY <1>1, <1>9, <1>10, MoveType, Zenon DEF IInv
<1>12. Busy(w)' /\ ~At(w, "read")' /\ ~At(w, "write")'
  BY <1>11 DEF Busy, At
<1>13. Wrote(w)'
  <2>1. Once(worker[w].task.i)' => Once(r)
    BY <1>2, <1>9, <1>11, Zenon DEF Once, masterVars
  <2> QED BY <1>2, <1>6, <1>8, <1>10, <1>11, <1>12, <2>1, ZenonT(60) DEF Wrote, Right
<1> QED BY <1>1, <1>2, <1>8, <1>9, <1>11, <1>12, <1>13, WorkOut, ZenonT(40)

(* No task is handed out and no file is there *)
LEMMA InitOut == Init => OutInv
<1> SUFFICES ASSUME Init PROVE OutInv
  OBVIOUS
<1>1. \A w \in Worker : ~Busy(w)
  BY SMTT(60) DEF Init, Busy
<1>2. \A m \in MapTask : allTask[m] # "COMPLETED"
  BY Zenon DEF Init
<1>3. Mapping /\ phase # "fin"
  BY DEF Init, Mapping
<1> QED BY <1>1, <1>2, <1>3, ZenonT(40) DEF Init, OutInv, Owns, Wrote, OneOwner, TableRight

(* No step forgets what was queued again *)
LEMMA RequeuedGrows == [Next]_vars => requeued \subseteq requeued'
  BY ZenonT(60) DEF Next, vars, masterVars, schedule, ScheduleTasks, ScheduleBarrier, QueueTasks,
     ScheduleReduce, ScheduleFin, TenSeconds, MasterExit, run, MakeWorker, Crash, ReqTask,
     ReqTaskLocked, ReportTask, CallFails, CreateInter, EncodeInter, CreateOut, ReadInter, WriteOut

(* Every step that queues no map task again keeps the files right *)
LEMMA NextOut == IInv /\ OutInv /\ MapsOnce' /\ [Next]_vars => OutInv'
<1> SUFFICES ASSUME IInv, OutInv, MapsOnce', [Next]_vars PROVE OutInv'
  OBVIOUS
<1>1. ASSUME UNCHANGED <<phase, allTask, requeued, worker, files>>
      PROVE  OutInv'
  <2>1. (Mapping' <=> Mapping) /\ (phase' = "fin" => AllComplete) /\ (Mapping => requeued' = {})
    BY <1>1, Zenon DEF Mapping, OutInv, TableRight
  <2> QED BY <1>1, <2>1, MasterOut, ZenonT(40)
<1>2. CASE TenSeconds
  BY <1>1, <1>2, ZenonT(40) DEF TenSeconds
<1>3. [at |-> "asking"] \in Resting /\ [at |-> "down"] \in Resting
      /\ [at |-> "finished"] \in Resting /\ [at |-> "locking"] \in Resting
  BY DEF Resting
<1>4. ASSUME NEW w \in Worker, MakeWorker(w) \/ CallFails(w) \/ Crash(w)
      PROVE  OutInv'
  BY <1>3, <1>4, RestOut, ZenonT(40) DEF MakeWorker, CallFails, Crash, masterVars
<1>5. ASSUME NEW w \in Worker, ReqTask(w)
      PROVE  OutInv'
  BY <1>1, <1>3, <1>5, RestOut, ZenonT(40) DEF ReqTask, masterVars
<1>6. ASSUME NEW w \in Worker, run(w)
      PROVE  OutInv'
  BY <1>4, <1>5, <1>6, ReqTaskLockedOut, ReportTaskOut, CreateInterOut, EncodeInterOut,
     CreateOutOut, ReadInterOut, WriteOutOut, ZenonT(40) DEF run
<1>7. CASE MasterExit \/ UNCHANGED vars
  BY <1>1, <1>7, ZenonT(40) DEF MasterExit, vars, masterVars
<1> QED BY <1>2, <1>4, <1>6, <1>7, ScheduleOut, ZenonT(40) DEF Next

(* When the job is Done after a map phase in which no task was queued again, *)
(* the output of every reduce task that was handed out once is what its      *)
(* reduce function returned, for any number of tasks, workers and crashes,   *)
(* whatever other reduce tasks the ten seconds of schedule hand out again    *)
(* and however late their first workers are; and no output is made from a    *)
(* part of an intermediate file.                                             *)
THEOREM OutputIsRight == Spec => []OnceMeansOutput
<1>1. IInv /\ (MapsOnce => OutInv) => OnceMeansOutput
  <2> SUFFICES ASSUME IInv, MapsOnce, OutInv, phase = "fin", NEW r \in ReduceTask
               PROVE  /\ out[r] # None /\ out[r].holds # "wrong"
                      /\ [Phase |-> "reduce", i |-> r] \notin requeued => out[r].holds = "right"
    BY Zenon DEF OnceMeansOutput, MapsOnce
  <2>1. ~Mapping /\ AllComplete
    BY DEF Mapping, OutInv, TableRight
  <2>2. DOMAIN allTask = ReduceTask
    BY <2>1, TableType, Zenon DEF IInv
  <2>3. allTask[r] = "COMPLETED"
    BY <2>1, <2>2, Zenon DEF AllComplete, With
  <2>4. [Phase |-> "reduce", i |-> r] \notin requeued => Once(r)
    <3> SUFFICES ASSUME NEW t \in requeued, t.i = r PROVE [Phase |-> "reduce", i |-> r] \in requeued
      BY Zenon DEF Once
    <3>1. t \in Task /\ t.Phase = "reduce"
      BY Zenon DEF IInv, TypeOK, MapsOnce
    <3>2. t = [Phase |-> "reduce", i |-> r]
      BY <3>1 DEF Task
    <3> QED BY <3>2, Zenon
  <2> QED BY <2>1, <2>3, <2>4, ZenonT(40) DEF OutInv, TableRight, Right
<1>2. IInv /\ (MapsOnce => OutInv) /\ [Next]_vars => (MapsOnce => OutInv)'
  <2>1. [Next]_vars /\ MapsOnce' => MapsOnce
    BY RequeuedGrows, Zenon DEF MapsOnce
  <2> QED BY <2>1, NextOut, Zenon
<1> QED BY <1>1, <1>2, InitInv, NextInv, InitOut, PTL DEF Spec

=============================================================================
