--------------------------- MODULE RaftWriteProofs ---------------------------
(* What a step of Raft may do to logs, disks and requests, for any set of    *)
(* servers and any bounds: every action is a WriteStep. The entries after a  *)
(* WriteStep are earlier ones, or the one that a leader starts; a leader     *)
(* appends only; and, as long as no service takes snapshots, the links       *)
(* between entries are earlier ones, or that of the entry started.           *)
EXTENDS RaftTypeProofs, WellFoundedInduction

-----------------------------------------------------------------------------
(* Entries and their indexes *)

(* Cutting a log at a snapshot leaves the entries after the cut at their     *)
(* indexes.                                                                  *)
LEMMA SuffixPlaced ==
  ASSUME NEW S, NEW l \in Seq(S), NEW base \in Int, NEW n \in 1 .. Len(l)
  PROVE  /\ Placed(base + n - 1, SubSeq(l, n, Len(l))) \subseteq Placed(base, l)
         /\ Len(SubSeq(l, n, Len(l))) = Len(l) - n + 1
<1> DEFINE s == SubSeq(l, n, Len(l))
<1>1. n \in Int /\ 1 <= n /\ n <= Len(l) /\ Len(l) \in Nat
  OBVIOUS
<1>2. /\ Len(s) = Len(l) - n + 1
      /\ \A p \in 1 .. Len(s) : s[p] = l[n + p - 1]
  BY <1>1
<1> HIDE DEF s
<1>3. ASSUME NEW p \in 2 .. Len(s)
      PROVE  <<base + n - 1 + p - 1, s[p]>> \in Placed(base, l)
  <2>1. /\ n + p - 1 \in 2 .. Len(l) /\ p \in 1 .. Len(s)
        /\ base + n - 1 + p - 1 = base + (n + p - 1) - 1
    BY <1>1, <1>2
  <2> QED
    BY <1>2, <2>1, Zenon DEF Placed
<1> QED
  BY <1>2, <1>3, Zenon DEF Placed, s

(* s is what follows index k in l, whose first entry is at index base *)
IsSuffix(s, l, base, k) ==
  \A p \in 1 .. Len(s) :
    /\ <<k + p, s[p]>> \in Placed(base, l)
    /\ (k - base + 1) + p \in 2 .. Len(l)
    /\ s[p] = l[(k - base + 1) + p]
    /\ k + p = base + ((k - base + 1) + p) - 1

(* The entries getAEInfo sends are entries of the leader's log, at the       *)
(* indexes after PrevLogIndex.                                               *)
LEMMA SentPlaced ==
  ASSUME NEW S, NEW l \in Seq(S), NEW base \in Int, NEW k \in Int,
         k - base + 1 \in 1 .. Len(l),
         NEW s, s = SubSeq(l, (k + 1) - base + 1, Len(l))
  PROVE  Len(s) \in Nat /\ IsSuffix(s, l, base, k)
<1>1. /\ Len(l) \in Nat /\ (k + 1) - base + 1 \in Int /\ 1 <= (k + 1) - base + 1
      /\ (k + 1) - base + 1 <= Len(l) + 1
  OBVIOUS
<1>2. /\ Len(s) = Len(l) - (k - base + 1) /\ Len(s) \in Nat
      /\ \A p \in 1 .. Len(s) : s[p] = l[(k - base + 1) + p]
  BY <1>1
<1>3. ASSUME NEW p \in 1 .. Len(s)
      PROVE  /\ (k - base + 1) + p \in 2 .. Len(l)
             /\ k + p = base + ((k - base + 1) + p) - 1
  BY <1>1, <1>2
<1> QED
  BY <1>2, <1>3, Zenon DEF Placed, IsSuffix

(* s is the first r entries of l, up to index k, followed by e *)
IsSplice(s, l, r, e, base, k) ==
  /\ r \in 1 .. Len(l)
  /\ Len(s) = r + Len(e)
  /\ \A p \in 1 .. r : s[p] = l[p]
  /\ \A p \in 1 .. Len(e) : s[r + p] = e[p]
  /\ \A p \in 2 .. Len(s) :
       \/ p \in 2 .. r
       \/ \E q \in 1 .. Len(e) : p = r + q /\ base + p - 1 = k + q

(* Truncating a log and appending the entries of a request leaves entries    *)
(* of the log and of the request at their indexes.                           *)
LEMMA SplicePlaced ==
  ASSUME NEW S, NEW l \in Seq(S), NEW e \in Seq(S), NEW base \in Int, NEW k \in Int,
         NEW r \in 1 .. Len(l), r = k - base + 1,
         NEW s, s = SubSeq(l, 1, r) \o e
  PROVE  IsSplice(s, l, r, e, base, k)
<1>1. r \in Nat /\ r >= 1 /\ r <= Len(l) /\ Len(e) \in Nat /\ Len(l) \in Nat
  OBVIOUS
<1>2. /\ SubSeq(l, 1, r) \in Seq(S) /\ Len(SubSeq(l, 1, r)) = r
      /\ \A p \in 1 .. r : SubSeq(l, 1, r)[p] = l[p]
  BY <1>1
<1>3. /\ Len(s) = r + Len(e)
      /\ \A p \in 1 .. r : s[p] = l[p]
      /\ \A p \in 1 .. Len(e) : s[r + p] = e[p]
  BY <1>1, <1>2
<1>4. ASSUME NEW p \in 2 .. Len(s), p \notin 2 .. r
      PROVE  \E q \in 1 .. Len(e) : p = r + q /\ base + p - 1 = k + q
  <2>1. /\ p - r \in 1 .. Len(e) /\ p = r + (p - r)
        /\ base + p - 1 = k + (p - r)
    BY <1>1, <1>3, <1>4
  <2> QED
    BY <2>1, Zenon
<1> QED
  BY <1>3, <1>4, Zenon DEF IsSplice

(* s is l, whose first entry is at index base, with e put at its end *)
IsAppend(s, l, e, base) ==
  /\ Len(s) = Len(l) + 1
  /\ \A p \in 1 .. Len(l) : s[p] = l[p]
  /\ s[Len(l) + 1] = e
  /\ Placed(base, s) \subseteq Placed(base, l) \cup {<<base + Len(l), e>>}
  /\ Placed(base, l) \subseteq Placed(base, s)

(* Start adds one entry to the log, at the index after its last one.         *)
LEMMA AppendPlaced ==
  ASSUME NEW S, NEW l \in Seq(S), NEW e \in S, NEW base \in Int, Len(l) > 0,
         NEW s, s = Append(l, e)
  PROVE  IsAppend(s, l, e, base)
<1>1. /\ Len(s) = Len(l) + 1 /\ Len(l) \in Nat /\ s[Len(l) + 1] = e
      /\ \A p \in 1 .. Len(l) : s[p] = l[p]
  OBVIOUS
<1>2. ASSUME NEW p \in 2 .. Len(s)
      PROVE  <<base + p - 1, s[p]>> \in Placed(base, l) \cup {<<base + Len(l), e>>}
  <2>1. p \in 2 .. Len(l) \/ (p = Len(l) + 1 /\ base + p - 1 = base + Len(l))
    BY <1>1
  <2>2. p \in 2 .. Len(l) => p \in 1 .. Len(l)
    BY <1>1
  <2> QED
    BY <1>1, <2>1, <2>2, Zenon DEF Placed
<1>3. ASSUME NEW p \in 2 .. Len(l)
      PROVE  p \in 2 .. Len(s) /\ s[p] = l[p]
  BY <1>1
<1>4. Placed(base, s) \subseteq Placed(base, l) \cup {<<base + Len(l), e>>}
  BY <1>2, Zenon DEF Placed
<1>5. Placed(base, l) \subseteq Placed(base, s)
  BY <1>3, Zenon DEF Placed
<1> QED
  BY <1>1, <1>4, <1>5, Zenon DEF IsAppend

-----------------------------------------------------------------------------
(* What a step may do to the logs, the disks and the requests *)

Same(v) == log'[v] = log[v] /\ lastSnapshotIndex'[v] = lastSnapshotIndex[v]

(* A restart reads the log back from the disk *)
Reloaded(v) ==
  /\ log'[v] = persisted[v].log
  /\ lastSnapshotIndex'[v] = persisted[v].lastSnapshotIndex
  /\ state'[v] # "LEADER"

(* The service takes a snapshot, or one with a later index has been sent *)
Snapshotting(v) ==
  \/ serving[v] > 0
  \/ \E m \in InFlight : /\ m.rpc = "InstallSnapshot"
                         /\ lastSnapshotIndex[v] < m.LastIncludeIndex

(* A snapshot replaces the beginning of the log, or all of it *)
Cut(v) ==
  /\ Snapshotting(v)
  /\ \E n \in 1 .. Len(log[v]) :
       /\ log'[v] = SubSeq(log[v], n, Len(log[v]))
       /\ lastSnapshotIndex'[v] = lastSnapshotIndex[v] + n - 1

Emptied(v) ==
  /\ Snapshotting(v)
  /\ Len(log'[v]) = 1 /\ LastLogIndex(v) < lastSnapshotIndex'[v]

(* AppendEntries puts the entries of a request after the one it names *)
Spliced(v) ==
  /\ state'[v] # "LEADER"
  /\ lastSnapshotIndex'[v] = lastSnapshotIndex[v]
  /\ \E m \in InFlight :
       /\ m.rpc = "AppendEntries"
       /\ InLog(v, m.PrevLogIndex) /\ PrevLogMatches(v, m)
       /\ log'[v] = LogTo(v, m.PrevLogIndex) \o m.Entries

LogStep(v) == Same(v) \/ Reloaded(v) \/ Cut(v) \/ Emptied(v) \/ Spliced(v)

(* A leader starts a command *)
Started(i) ==
  /\ state[i] = "LEADER" /\ state'[i] = "LEADER"
  /\ lastSnapshotIndex'[i] = lastSnapshotIndex[i]
  /\ \E c \in Command :
       log'[i] = Append(log[i], [Term |-> currentTerm[i], Command |-> c])

(* A disk is left as it was, or what is written is the log in memory *)
DiskStep(v) ==
  \/ /\ persisted'[v].log = persisted[v].log
     /\ persisted'[v].lastSnapshotIndex = persisted[v].lastSnapshotIndex
  \/ /\ persisted'[v].log = log'[v]
     /\ persisted'[v].lastSnapshotIndex = lastSnapshotIndex'[v]

(* A request just made from the log or the snapshot of a server *)
FreshRequest(m) ==
  \E i \in Server :
    \/ /\ m.rpc = "AppendEntries"
       /\ m.PrevLogIndex \in Int /\ InLog(i, m.PrevLogIndex)
       /\ m.PrevLogTerm = TermAt(i, m.PrevLogIndex)
       /\ m.Entries = LogFrom(i, m.PrevLogIndex + 1)
    \/ m.rpc = "InstallSnapshot" /\ m.LastIncludeIndex = lastSnapshotIndex[i]

RequestStep ==
  \A m \in InFlight' : m.rpc = "RequestVote" \/ m \in InFlight \/ FreshRequest(m)

WriteStep ==
  /\ \A v \in Server : DiskStep(v)
  /\ RequestStep
  /\ \/ \A v \in Server : LogStep(v)
     \/ \E i \in Server : Started(i) /\ \A v \in Server \ {i} : Same(v)

(* persist() and SaveStateAndSnapshot write the log in memory to disk.       *)
LEMMA PersistWrites ==
  ASSUME TypeOK, NEW i \in Server,
         Persist(i) \/ (\E data : PersistWithSnapshot(i, data))
  PROVE  \A v \in Server : DiskStep(v)
<1>1. \E p : /\ persisted' = [persisted EXCEPT ![i] = p]
             /\ p.log = log'[i] /\ p.lastSnapshotIndex = lastSnapshotIndex'[i]
  <2>1. CASE Persist(i)
    <3>1. /\ PersistData(i).log = log'[i]
          /\ PersistData(i).lastSnapshotIndex = lastSnapshotIndex'[i]
      BY DEF PersistData
    <3> QED
      BY <2>1, <3>1, ZenonT(40) DEF Persist
  <2>2. ASSUME NEW data, PersistWithSnapshot(i, data)
        PROVE  \E p : /\ persisted' = [persisted EXCEPT ![i] = p]
                      /\ p.log = log'[i] /\ p.lastSnapshotIndex = lastSnapshotIndex'[i]
    <3> DEFINE p == [PersistData(i) EXCEPT !.snapshot = data]
    <3>1. p.log = log'[i] /\ p.lastSnapshotIndex = lastSnapshotIndex'[i]
      BY DEF PersistData
    <3>2. persisted' = [persisted EXCEPT ![i] = p]
      BY <2>2, Zenon DEF PersistWithSnapshot
    <3> HIDE DEF p
    <3> QED
      BY <3>1, <3>2, ZenonT(40)
  <2> QED
    BY <2>1, <2>2, Zenon
<1>2. persisted \in [Server -> PersistedState]
  BY Zenon DEF TypeOK
<1>3. PICK p : /\ persisted' = [persisted EXCEPT ![i] = p]
               /\ p.log = log'[i] /\ p.lastSnapshotIndex = lastSnapshotIndex'[i]
  BY <1>1, Zenon
<1>4. persisted'[i] = p /\ \A v \in Server \ {i} : persisted'[v] = persisted[v]
  BY <1>2, <1>3, Zenon
<1> QED
  BY <1>3, <1>4, Zenon DEF DiskStep

(* What is under way: abandoned requests, those of ballots, and those that a *)
(* goroutine of a leader waits for.                                          *)
LEMMA InFlightMembers ==
  ASSUME NEW m
  PROVE  /\ m \in InFlight <=>
              \/ m \in late
              \/ \E i \in Server : m \in Canvassing(i)
              \/ /\ m \notin {None, InstallNext, InstallDone}
                 /\ \E i \in Server : \E j \in Server : m = call[i][j]
         /\ m \in InFlight' <=>
              \/ m \in late'
              \/ \E i \in Server : m \in Canvassing(i)'
              \/ /\ m \notin {None, InstallNext, InstallDone}
                 /\ \E i \in Server : \E j \in Server : m = call'[i][j]
<1> DEFINE C(f) == {f[i][j] : i, j \in Server}
<1>1. \A f : m \in C(f) <=> \E i \in Server : \E j \in Server : m = f[i][j]
  OBVIOUS
<1>2. /\ InFlight = late \cup (UNION {Canvassing(i) : i \in Server})
                         \cup (C(call) \ {None, InstallNext, InstallDone})
      /\ InFlight' = late' \cup (UNION {Canvassing(i)' : i \in Server})
                         \cup (C(call') \ {None, InstallNext, InstallDone})
  BY DEF InFlight, InstallNext, InstallDone
<1> HIDE DEF C
<1> QED
  BY <1>1, <1>2, Zenon

(* A step that only ends calls, gives them up or makes fresh ones is a       *)
(* RequestStep, whatever it does to a ballot.                                *)
LEMMA RequestsKept ==
  ASSUME late' \subseteq InFlight,
         \A a, b \in Server : \/ call'[a][b] \in {call[a][b], None, InstallNext, InstallDone}
                              \/ FreshRequest(call'[a][b])
  PROVE  RequestStep
<1> SUFFICES ASSUME NEW m \in InFlight'
             PROVE  m.rpc = "RequestVote" \/ m \in InFlight \/ FreshRequest(m)
  BY Zenon DEF RequestStep
<1>1. CASE m \in late'
  BY <1>1, Zenon
<1>2. ASSUME NEW i \in Server, m \in Canvassing(i)'
      PROVE  m.rpc = "RequestVote"
  <2>1. PICK j \in ballot'[i].waiting : m = RequestVoteTo(i, j)'
    BY <1>2, Zenon DEF Canvassing
  <2> QED
    BY <2>1 DEF RequestVoteTo
<1>3. ASSUME NEW a \in Server, NEW b \in Server, m = call'[a][b],
             m \notin {None, InstallNext, InstallDone}
      PROVE  m \in InFlight \/ FreshRequest(m)
  BY <1>3, InFlightMembers, Zenon
<1> QED
  BY <1>1, <1>2, <1>3, InFlightMembers, Zenon

(* Setting what one goroutine waits for leaves the others alone.             *)
LEMMA CallUpdate ==
  ASSUME TypeOK, NEW i \in Server, NEW j \in Server, NEW c,
         call' = [call EXCEPT ![i][j] = c]
  PROVE  \A a, b \in Server : call'[a][b] \in {call[a][b], c}
<1>1. \E T : call \in [Server -> [Server -> T]]
  BY Zenon DEF TypeOK
<1>2. PICK T : call \in [Server -> [Server -> T]]
  BY <1>1, Zenon
<1>3. call'[i] = [call[i] EXCEPT ![j] = c] /\ \A a \in Server \ {i} : call'[a] = call[a]
  BY <1>2, Zenon
<1>4. call[i] \in [Server -> T]
  BY <1>2, Zenon
<1>5. \A b \in Server : call'[i][b] \in {call[i][b], c}
  BY <1>3, <1>4, ZenonT(60)
<1> QED
  BY <1>3, <1>5, Zenon

(* Requests given up are still the requests that were under way.             *)
LEMMA AbandonKept ==
  ASSUME NEW R, R \subseteq InFlight, Abandon(R)
  PROVE  late' \subseteq InFlight
BY InFlightMembers, Zenon DEF Abandon

(* Answering a request takes nothing into the network.                       *)
LEMMA RespondKept ==
  ASSUME NEW m, NEW r, Respond(m, r)
  PROVE  RequestStep
<1>1. late' \subseteq InFlight /\ call' = call
  BY InFlightMembers, Zenon DEF Respond
<1> QED
  BY <1>1, RequestsKept, Zenon

(* A step that leaves the logs alone and writes no disk, or that of one      *)
(* server, is a WriteStep.                                                   *)
LEMMA QuietWrite ==
  ASSUME TypeOK, UNCHANGED <<log, lastSnapshotIndex>>, RequestStep,
         UNCHANGED persisted \/ \E i \in Server : Persist(i)
  PROVE  WriteStep
<1>1. \A v \in Server : DiskStep(v)
  BY PersistWrites, Zenon DEF DiskStep
<1>2. \A v \in Server : LogStep(v)
  BY Zenon DEF LogStep, Same
<1> QED
  BY <1>1, <1>2, Zenon DEF WriteStep

(* A step that leaves calls and late requests alone is a RequestStep.        *)
LEMMA NoRequests ==
  ASSUME UNCHANGED <<call, late>>
  PROVE  RequestStep
<1>1. late' \subseteq InFlight
  BY InFlightMembers, Zenon
<1> QED
  BY <1>1, RequestsKept, Zenon

(* Start is a WriteStep: it appends one entry of the leader's term.          *)
LEMMA StartWrites ==
  ASSUME TypeOK, NEW i \in Server, NEW c \in Command, Start(i, c)
  PROVE  WriteStep
<1>1. /\ Persist(i) /\ UNCHANGED <<call, late, lastSnapshotIndex, state>> /\ state[i] = "LEADER"
      /\ log' = [log EXCEPT ![i] = Append(@, [Term |-> currentTerm[i], Command |-> c])]
  BY Zenon DEF Start, rpcVars, snapVars, roleVars
<1>2. log \in [Server -> Seq(Entry) \ {<< >>}]
  BY Zenon DEF TypeOK
<1>3. Started(i) /\ \A v \in Server \ {i} : Same(v)
  BY <1>1, <1>2, Zenon DEF Started, Same
<1> QED
  BY <1>1, <1>3, PersistWrites, NoRequests, Zenon DEF WriteStep

(* Accepting an AppendEntries is a WriteStep: it splices the request into    *)
(* the log of a follower.                                                    *)
LEMMA AcceptWrites ==
  ASSUME TypeOK, NEW m \in InFlight, AppendEntries(m), AppendEntriesAccept(m)
  PROVE  WriteStep
<1> DEFINE j == m.to
<1>1. j \in Server
  BY MessageType, Zenon DEF AppendEntries, AppendEntriesArgs
<1>2. /\ Persist(j) /\ UNCHANGED lastSnapshotIndex /\ m.rpc = "AppendEntries"
      /\ Respond(m, [Rejection EXCEPT !.Success = TRUE])
      /\ InLog(j, m.PrevLogIndex) /\ PrevLogMatches(j, m)
      /\ log' = [log EXCEPT ![j] = LogTo(j, m.PrevLogIndex) \o m.Entries]
      /\ state' = [state EXCEPT ![j] = "FOLLOWER"]
  BY Zenon DEF AppendEntries, AppendEntriesAccept, AdoptLeader, snapVars
<1>3. /\ log \in [Server -> Seq(Entry) \ {<< >>}]
      /\ state \in [Server -> {"FOLLOWER", "CANDIDATE", "LEADER"}]
  BY Zenon DEF TypeOK
<1>4. /\ state'[j] = "FOLLOWER" /\ log'[j] = LogTo(j, m.PrevLogIndex) \o m.Entries
      /\ \A v \in Server \ {j} : log'[v] = log[v]
  BY <1>1, <1>2, <1>3, Zenon
<1>5. Spliced(j)
  BY <1>2, <1>4, Zenon DEF Spliced
<1>6. \A v \in Server : LogStep(v)
  BY <1>2, <1>4, <1>5, Zenon DEF LogStep, Same
<1> QED
  BY <1>1, <1>2, <1>6, PersistWrites, RespondKept, Zenon DEF WriteStep

(* Where a log is cut: the index of the snapshot is in it.                   *)
LEMMA CutAt ==
  ASSUME NEW a \in Int, NEW k \in Int
  PROVE  k = a + (k - a + 1) - 1
OBVIOUS

(* Taking a snapshot is a WriteStep: it cuts the log.                        *)
LEMMA SaveWrites ==
  ASSUME TypeOK, NEW i \in Server, SaveSnapshot(i), SaveStateAndSnapshot(i, serving[i], sm[i])
  PROVE  WriteStep
<1> DEFINE k == serving[i]
<1>1. /\ UNCHANGED <<call, late>> /\ serving[i] > 0
      /\ \E data : PersistWithSnapshot(i, data)
      /\ InLog(i, k) /\ log' = [log EXCEPT ![i] = LogFrom(i, k)]
      /\ lastSnapshotIndex' = [lastSnapshotIndex EXCEPT ![i] = k]
  BY Zenon DEF SaveSnapshot, SaveStateAndSnapshot, rpcVars
<1>2. /\ log \in [Server -> Seq(Entry) \ {<< >>}]
      /\ lastSnapshotIndex \in [Server -> Nat] /\ serving \in [Server -> Int]
  BY FieldTypes, Zenon
<1>3. /\ log'[i] = LogFrom(i, k) /\ lastSnapshotIndex'[i] = k
      /\ \A v \in Server \ {i} : Same(v)
  BY <1>1, <1>2, Zenon DEF Same
<1>4. k = lastSnapshotIndex[i] + Real(i, k) - 1
  <2>1. lastSnapshotIndex[i] \in Int /\ k \in Int
    BY <1>2, CountSteps, Zenon
  <2> QED
    BY <2>1, CutAt, Zenon DEF Real
<1>5. Cut(i)
  BY <1>1, <1>3, <1>4, Zenon DEF Cut, Snapshotting, InLog, LogFrom
<1>6. \A v \in Server : LogStep(v)
  BY <1>3, <1>5, Zenon DEF LogStep
<1> QED
  BY <1>1, <1>6, PersistWrites, NoRequests, Zenon DEF WriteStep

(* Where InstallSnapshot cuts a log, or that it is past the end of it.       *)
LEMMA InstallAt ==
  ASSUME NEW a \in Nat, NEW k \in Nat, NEW n \in Nat, a < k
  PROVE  /\ ~(k - a >= n) => (k - a) + 1 \in 1 .. n
         /\ k = a + ((k - a) + 1) - 1
         /\ k - a >= n => a + n - 1 < k
OBVIOUS

(* InstallSnapshot is a WriteStep: it cuts the log, or replaces all of it.   *)
LEMMA InstallWrites ==
  ASSUME TypeOK, NEW m \in InFlight, InstallSnapshot(m)
  PROVE  WriteStep
<1> DEFINE j == m.to
           k == m.LastIncludeIndex
<1>1. j \in Server /\ k \in Nat /\ m.rpc = "InstallSnapshot"
  BY MessageType, Zenon DEF InstallSnapshot, InstallSnapshotArgs
<1>2. RequestStep
  BY RespondKept, Zenon DEF InstallSnapshot
<1>3. CASE UNCHANGED <<log, lastSnapshotIndex>> /\ (UNCHANGED persisted \/ Persist(j))
  BY <1>1, <1>2, <1>3, QuietWrite, Zenon
<1>4. CASE /\ lastSnapshotIndex[j] < k
           /\ log' = [log EXCEPT ![j] = InstalledLog(j, m)]
           /\ lastSnapshotIndex' = [lastSnapshotIndex EXCEPT ![j] = k]
           /\ PersistWithSnapshot(j, m.Data)
  <2>1. /\ log \in [Server -> Seq(Entry) \ {<< >>}] /\ lastSnapshotIndex \in [Server -> Nat]
    BY FieldTypes, Zenon
  <2>2. /\ log'[j] = InstalledLog(j, m) /\ lastSnapshotIndex'[j] = k
        /\ \A v \in Server \ {j} : Same(v)
    BY <1>1, <1>4, <2>1, Zenon DEF Same
  <2>3. lastSnapshotIndex[j] \in Nat /\ Len(log[j]) \in Nat
    BY <1>1, <2>1, LogType, Zenon
  <2>4. Snapshotting(j)
    BY <1>1, <1>4, Zenon DEF Snapshotting
  <2>5. ASSUME k - lastSnapshotIndex[j] >= Len(log[j])
        PROVE  LogStep(j)
    <3>1. InstalledLog(j, m) = << [Term |-> m.LastIncludeTerm, Command |-> None] >>
      BY <2>5, Zenon DEF InstalledLog
    <3>2. Len(log'[j]) = 1
      BY <2>2, <3>1
    <3>3. LastLogIndex(j) < lastSnapshotIndex'[j]
      BY <1>1, <1>4, <2>2, <2>3, <2>5, InstallAt, Zenon DEF LastLogIndex
    <3> QED
      BY <2>4, <3>2, <3>3, Zenon DEF Emptied, LogStep
  <2>6. ASSUME ~(k - lastSnapshotIndex[j] >= Len(log[j]))
        PROVE  LogStep(j)
    <3>1. InstalledLog(j, m) = SubSeq(log[j], (k - lastSnapshotIndex[j]) + 1, Len(log[j]))
      BY <2>6, Zenon DEF InstalledLog
    <3>2. /\ (k - lastSnapshotIndex[j]) + 1 \in 1 .. Len(log[j])
          /\ k = lastSnapshotIndex[j] + ((k - lastSnapshotIndex[j]) + 1) - 1
      BY <1>1, <1>4, <2>3, <2>6, InstallAt, ZenonT(60)
    <3>3. Cut(j)
      BY <2>2, <2>4, <3>1, <3>2, Zenon DEF Cut
    <3> QED
      BY <3>3, Zenon DEF LogStep
  <2>7. \A v \in Server : LogStep(v)
    BY <2>2, <2>5, <2>6, Zenon DEF LogStep
  <2> QED
    BY <1>1, <1>2, <1>4, <2>7, PersistWrites, Zenon DEF WriteStep
<1> QED
  BY <1>3, <1>4, Zenon DEF InstallSnapshot, snapVars

(* A restart is a WriteStep: it reads the log of one server back.            *)
LEMMA RestartWrites ==
  ASSUME TypeOK, NEW i \in Server, Restart(i)
  PROVE  WriteStep
<1> DEFINE sent == {call[i][j] : j \in {k \in Server : reply[i][k] = None}}
                     \ {None, InstallNext, InstallDone}
<1>1. /\ UNCHANGED persisted /\ state' = [state EXCEPT ![i] = "FOLLOWER"]
      /\ log' = [log EXCEPT ![i] = persisted[i].log]
      /\ lastSnapshotIndex' = [lastSnapshotIndex EXCEPT ![i] = persisted[i].lastSnapshotIndex]
      /\ call' = [call EXCEPT ![i] = [j \in Server |-> None]]
      /\ Abandon(sent \cup Canvassing(i))
  BY Zenon DEF Restart
<1>2. late' \subseteq InFlight
  <2>1. ASSUME NEW m \in sent PROVE m \in InFlight
    <3>1. m \notin {None, InstallNext, InstallDone} /\ \E j \in Server : m = call[i][j]
      BY Zenon
    <3> QED
      BY <3>1, InFlightMembers, Zenon
  <2>2. sent \cup Canvassing(i) \subseteq InFlight
    BY <2>1, InFlightMembers, Zenon
  <2> QED
    BY <1>1, <2>2, AbandonKept, Zenon
<1>3. \A a, b \in Server : call'[a][b] \in {call[a][b], None}
  <2>1. \E T : call \in [Server -> T]
    BY Zenon DEF TypeOK
  <2>2. call'[i] = [j \in Server |-> None] /\ \A a \in Server \ {i} : call'[a] = call[a]
    BY <1>1, <2>1, Zenon
  <2> QED
    BY <2>2, Zenon
<1>4. RequestStep
  BY <1>2, <1>3, RequestsKept, Zenon
<1>5. /\ state'[i] = "FOLLOWER" /\ log'[i] = persisted[i].log
      /\ lastSnapshotIndex'[i] = persisted[i].lastSnapshotIndex
      /\ \A v \in Server \ {i} : Same(v)
  BY <1>1, FieldTypes, Zenon DEF Same
<1>6. Reloaded(i)
  BY <1>5, Zenon DEF Reloaded
<1>7. \A v \in Server : LogStep(v)
  BY <1>5, <1>6, Zenon DEF LogStep
<1> QED
  BY <1>1, <1>4, <1>7, Zenon DEF WriteStep, DiskStep

(* What getAEInfo puts in a request, and what InstallSnapshotToPeers does,   *)
(* is taken from the server's log and snapshot.                              *)
LEMMA SendWrites ==
  ASSUME TypeOK, NEW i \in Server, NEW j \in Server,
         SendAppendEntries(i, j) \/ InstallSnapshotToPeers(i, j)
  PROVE  WriteStep
<1>1. UNCHANGED <<log, lastSnapshotIndex, late, persisted>>
  BY Zenon DEF SendAppendEntries, InstallSnapshotToPeers, snapVars
<1>2. PICK m : call' = [call EXCEPT ![i][j] = m] /\ FreshRequest(m)
  <2>1. CASE SendAppendEntries(i, j)
    <3> DEFINE prev == PrevLogIndex(i, j)
               m == [rpc |-> "AppendEntries", from |-> i, to |-> j, Term |-> currentTerm[i],
                     PrevLogIndex |-> prev, PrevLogTerm |-> TermAt(i, prev),
                     Entries |-> LogFrom(i, prev + 1), LeaderCommit |-> commitIndex[i]]
    <3>1. call' = [call EXCEPT ![i][j] = m] /\ InLog(i, prev)
      BY <2>1, Zenon DEF SendAppendEntries
    <3>2. prev \in Int
      <4>1. LastLogIndex(i) \in Int /\ nextIndex[i][j] \in Int
        BY FieldTypes, LogType, Zenon
      <4> QED
        BY <4>1, IndexSteps, Zenon DEF PrevLogIndex
    <3>3. /\ m.rpc = "AppendEntries" /\ m.PrevLogIndex = prev
          /\ m.PrevLogTerm = TermAt(i, prev) /\ m.Entries = LogFrom(i, prev + 1)
      BY Zenon
    <3> HIDE DEF m, prev
    <3> QED
      BY <3>1, <3>2, <3>3, Zenon DEF FreshRequest
  <2>2. CASE InstallSnapshotToPeers(i, j)
    <3> DEFINE m == [rpc |-> "InstallSnapshot", from |-> i, to |-> j, Term |-> currentTerm[i],
                     LastIncludeIndex |-> lastSnapshotIndex[i],
                     LastIncludeTerm |-> lastSnapshotTerm[i],
                     Data |-> persisted[i].snapshot]
    <3>1. call' = [call EXCEPT ![i][j] = m]
      BY <2>2, Zenon DEF InstallSnapshotToPeers
    <3>2. m.rpc = "InstallSnapshot" /\ m.LastIncludeIndex = lastSnapshotIndex[i]
      BY Zenon
    <3> HIDE DEF m
    <3> QED
      BY <3>1, <3>2, Zenon DEF FreshRequest
  <2> QED
    BY <2>1, <2>2, Zenon
<1>3. \A a, b \in Server : call'[a][b] \in {call[a][b], m}
  BY <1>2, CallUpdate, Zenon
<1>4. late' \subseteq InFlight
  BY <1>1, InFlightMembers, Zenon
<1>5. RequestStep
  BY <1>2, <1>3, <1>4, RequestsKept, Zenon
<1> QED
  BY <1>1, <1>5, QuietWrite, Zenon

(* Taking an answer, or giving up on it, is a WriteStep that leaves the logs *)
(* alone.                                                                    *)
LEMMA RepliedWrites ==
  ASSUME TypeOK, NEW i \in Server, NEW j \in Server,
         \/ AppendEntriesReplied(i, j) \/ RPCTimeout(i, j)
         \/ InstallSnapshotReplied(i, j) \/ InstallSnapshotFinish(i, j)
  PROVE  WriteStep
<1>1. /\ UNCHANGED <<log, lastSnapshotIndex>>
      /\ UNCHANGED persisted \/ Persist(i)
      /\ \E c \in {None, InstallNext, InstallDone} : call' = [call EXCEPT ![i][j] = c]
  <2>1. CASE AppendEntriesReplied(i, j)
    <3>1. CASE AppendEntriesStepDown(i, j)
      BY <3>1, Zenon DEF AppendEntriesStepDown, snapVars
    <3>2. CASE AppendEntriesIgnored(i, j)
      BY <3>2, Zenon DEF AppendEntriesIgnored, snapVars
    <3>3. CASE AppendEntriesMatched(i, j)
      BY <3>3, Zenon DEF AppendEntriesMatched, snapVars
    <3>4. CASE AppendEntriesMismatched(i, j)
      BY <3>4, Zenon DEF AppendEntriesMismatched, snapVars
    <3> QED
      BY <2>1, <3>1, <3>2, <3>3, <3>4, ZenonT(60) DEF AppendEntriesReplied
  <2>2. CASE RPCTimeout(i, j)
    BY <2>2, Zenon DEF RPCTimeout, Hangup, snapVars
  <2>3. CASE InstallSnapshotReplied(i, j)
    BY <2>3, Zenon DEF InstallSnapshotReplied, snapVars
  <2>4. CASE InstallSnapshotFinish(i, j)
    BY <2>4, Zenon DEF InstallSnapshotFinish, Hangup, snapVars
  <2> QED
    BY <2>1, <2>2, <2>3, <2>4, Zenon
<1>2. late' \subseteq InFlight
  <2>1. CASE UNCHANGED late
    BY <2>1, InFlightMembers, Zenon
  <2>2. CASE RPCTimeout(i, j)
    <3>1. call[i][j] \in InFlight
      BY <2>2, InFlightMembers, Zenon DEF RPCTimeout
    <3>2. PICK R : R \subseteq {call[i][j]} /\ Abandon(R)
      BY <2>2, Zenon DEF RPCTimeout
    <3>3. R \subseteq InFlight
      BY <3>1, <3>2, Zenon
    <3> QED
      BY <3>2, <3>3, AbandonKept, Zenon
  <2> QED
    BY <2>1, <2>2, Zenon DEF AppendEntriesReplied, InstallSnapshotReplied, InstallSnapshotFinish
<1>3. RequestStep
  <2>1. PICK c \in {None, InstallNext, InstallDone} : call' = [call EXCEPT ![i][j] = c]
    BY <1>1, Zenon
  <2>2. \A a, b \in Server : call'[a][b] \in {call[a][b], c}
    BY <2>1, CallUpdate, Zenon
  <2> QED
    BY <1>2, <2>1, <2>2, RequestsKept, Zenon
<1> QED
  BY <1>1, <1>3, QuietWrite, Zenon

(* Every step of Raft is a WriteStep.                                        *)
LEMMA NextIsWriteStep ==
  ASSUME TypeOK, [Next]_vars
  PROVE  WriteStep
<1>1. CASE UNCHANGED vars
  BY <1>1, NoRequests, QuietWrite, Zenon DEF vars
<1>2. ASSUME NEW i \in Server, Election(i)
      PROVE  WriteStep
  BY <1>2, NoRequests, QuietWrite, Zenon DEF Election, rpcVars, snapVars
<1>3. ASSUME NEW i \in Server, ElectionEnd(i)
      PROVE  WriteStep
  <2>1. /\ UNCHANGED <<log, lastSnapshotIndex, call>>
        /\ UNCHANGED persisted \/ Persist(i)
        /\ Abandon(Canvassing(i))
    BY <1>3, Zenon DEF ElectionEnd, snapVars
  <2>2. Canvassing(i) \subseteq InFlight
    BY InFlightMembers, Zenon
  <2>3. RequestStep
    BY <2>1, <2>2, AbandonKept, RequestsKept, Zenon
  <2> QED
    BY <2>1, <2>3, QuietWrite, Zenon
<1>4. ASSUME NEW i \in Server, Apply(i) \/ Deliver(i) \/ ReadSnapshot(i)
      PROVE  WriteStep
  <2>1. UNCHANGED <<log, lastSnapshotIndex, call, late, persisted>>
    BY <1>4, Zenon DEF Apply, Deliver, ReadSnapshot, rpcVars, snapVars
  <2> QED
    BY <2>1, NoRequests, QuietWrite, Zenon
<1>5. ASSUME NEW i \in Server, SaveSnapshot(i)
      PROVE  WriteStep
  <2>1. CASE UNCHANGED <<log, snapVars, persisted>>
    <3>1. UNCHANGED <<log, lastSnapshotIndex, call, late, persisted>>
      BY <1>5, <2>1, Zenon DEF SaveSnapshot, rpcVars, snapVars
    <3> QED
      BY <3>1, NoRequests, QuietWrite, Zenon
  <2>2. CASE SaveStateAndSnapshot(i, serving[i], sm[i])
    BY <1>5, <2>2, SaveWrites, Zenon
  <2> QED
    BY <1>5, <2>1, <2>2, Zenon DEF SaveSnapshot
<1>6. ASSUME NEW m \in InFlight, RequestVote(m)
      PROVE  WriteStep
  <2>1. /\ UNCHANGED <<log, lastSnapshotIndex, call>> /\ Persist(m.to)
        /\ late' \subseteq late
    BY <1>6, Zenon DEF RequestVote, CountVote, snapVars
  <2>2. m.to \in Server
    BY <1>6, MessageType, Zenon DEF RequestVote, RequestVoteArgs
  <2>3. RequestStep
    BY <2>1, InFlightMembers, RequestsKept, Zenon
  <2> QED
    BY <2>1, <2>2, <2>3, QuietWrite, Zenon
<1>7. ASSUME NEW m \in InFlight, AppendEntries(m)
      PROVE  WriteStep
  <2>1. m.to \in Server
    BY <1>7, MessageType, Zenon DEF AppendEntries, AppendEntriesArgs
  <2>2. CASE AppendEntriesStale(m) \/ AppendEntriesReject(m)
    <3>1. /\ UNCHANGED <<log, lastSnapshotIndex>>
          /\ UNCHANGED persisted \/ Persist(m.to)
          /\ \E r : Respond(m, r)
      BY <1>7, <2>2, Zenon DEF AppendEntries, AppendEntriesStale, AppendEntriesReject, snapVars
    <3> QED
      BY <2>1, <3>1, RespondKept, QuietWrite, Zenon
  <2> QED
    BY <1>7, <2>2, AcceptWrites, Zenon DEF AppendEntries
<1> QED
  BY <1>1, <1>2, <1>3, <1>4, <1>5, <1>6, <1>7, StartWrites, RestartWrites, SendWrites,
     RepliedWrites, InstallWrites, Zenon DEF Next

-----------------------------------------------------------------------------
(* Where the entries of logs, disks and requests come from *)

(* An entry is in a log, on a disk or in a request under way.                *)
LEMMA EntryMembers ==
  ASSUME NEW x
  PROVE  /\ x \in AllEntries <=>
              \/ \E i \in Server : x \in LogEntries(i) \/ x \in DiskEntries(i)
              \/ \E m \in InFlight : m.rpc = "AppendEntries" /\ x \in SentEntries(m)
         /\ x \in AllEntries' <=>
              \/ \E i \in Server : x \in LogEntries(i)' \/ x \in DiskEntries(i)'
              \/ \E m \in InFlight' : m.rpc = "AppendEntries" /\ x \in SentEntries(m)
<1>1. AllEntries' = UNION ({LogEntries(i)' : i \in Server} \cup {DiskEntries(i)' : i \in Server}
         \cup {SentEntries(m) : m \in {n \in InFlight' : n.rpc = "AppendEntries"}})
  BY Zenon DEF AllEntries, SentEntries
<1> QED
  BY <1>1, Zenon DEF AllEntries

(* The disk of a server, like its memory, holds a log that is not empty.     *)
LEMMA DiskType ==
  ASSUME TypeOK, NEW i \in Server
  PROVE  /\ persisted[i].log \in Seq(Entry) /\ Len(persisted[i].log) \in Nat
         /\ Len(persisted[i].log) > 0
         /\ persisted[i].lastSnapshotIndex \in Nat
<1>1. persisted[i] \in PersistedState
  BY Zenon DEF TypeOK
<1>2. /\ persisted[i].log \in Seq(Entry) \ {<< >>} /\ persisted[i].lastSnapshotIndex \in Nat
  BY <1>1, Zenon DEF PersistedState
<1> QED
  BY <1>2

(* Entries of a log are at integer indexes.                                  *)
LEMMA PlacedType ==
  ASSUME NEW base \in Int, NEW l \in Seq(Entry), NEW x \in Placed(base, l)
  PROVE  /\ x[1] \in Int /\ x[2] \in Entry /\ x = <<x[1], x[2]>>
         /\ x[1] <= base + Len(l) - 1
<1>1. PICK p \in 2 .. Len(l) : x = <<base + p - 1, l[p]>>
  BY Zenon DEF Placed
<1>2. l[p] \in Entry /\ base + p - 1 \in Int /\ base + p - 1 <= base + Len(l) - 1
  OBVIOUS
<1> QED
  BY <1>1, <1>2, Zenon

(* Every entry is at an integer index and has a term.                        *)
LEMMA EntryTyped ==
  ASSUME TypeOK, NEW x \in AllEntries
  PROVE  x[1] \in Int /\ x[2].Term \in Nat
<1>1. x[1] \in Int /\ x[2] \in Entry
  <2>1. ASSUME NEW i \in Server, x \in LogEntries(i)
        PROVE  x[1] \in Int /\ x[2] \in Entry
    <3>1. lastSnapshotIndex[i] \in Int /\ log[i] \in Seq(Entry)
      BY FieldTypes, LogType, CountSteps, Zenon
    <3> QED
      BY <2>1, <3>1, PlacedType, Zenon DEF LogEntries
  <2>2. ASSUME NEW i \in Server, x \in DiskEntries(i)
        PROVE  x[1] \in Int /\ x[2] \in Entry
    <3>1. persisted[i].lastSnapshotIndex \in Int /\ persisted[i].log \in Seq(Entry)
      BY DiskType, CountSteps, Zenon
    <3> QED
      BY <2>2, <3>1, PlacedType, Zenon DEF DiskEntries
  <2>3. ASSUME NEW m \in InFlight, m.rpc = "AppendEntries", x \in SentEntries(m)
        PROVE  x[1] \in Int /\ x[2] \in Entry
    <3>1. m.PrevLogIndex \in Int /\ m.Entries \in Seq(Entry)
      BY <2>3, MessageType, Zenon DEF AppendEntriesArgs
    <3>2. PICK p \in 1 .. Len(m.Entries) : x = <<m.PrevLogIndex + p, m.Entries[p]>>
      BY <2>3, Zenon DEF SentEntries
    <3>3. m.PrevLogIndex + p \in Int /\ m.Entries[p] \in Entry
      BY <3>1
    <3> QED
      BY <3>2, <3>3, Zenon
  <2> QED
    BY <2>1, <2>2, <2>3, EntryMembers, Zenon
<1> QED
  BY <1>1, Zenon DEF Entry

(* What a fresh request carries is in the log it was made from.              *)
LEMMA FreshEntries ==
  ASSUME TypeOK, NEW m, FreshRequest(m), m.rpc = "AppendEntries"
  PROVE  \E i \in Server : SentEntries(m) \subseteq LogEntries(i)
<1>1. PICK i \in Server :
        /\ m.PrevLogIndex \in Int /\ InLog(i, m.PrevLogIndex)
        /\ m.Entries = LogFrom(i, m.PrevLogIndex + 1)
  BY Zenon DEF FreshRequest
<1>2. log[i] \in Seq(Entry) /\ lastSnapshotIndex[i] \in Int
  BY FieldTypes, LogType, CountSteps, Zenon
<1>3. \A p \in 1 .. Len(m.Entries) :
        <<m.PrevLogIndex + p, m.Entries[p]>> \in Placed(lastSnapshotIndex[i], log[i])
  <2>1. IsSuffix(m.Entries, log[i], lastSnapshotIndex[i], m.PrevLogIndex)
    BY <1>1, <1>2, SentPlaced, Zenon DEF InLog, LogFrom, Real
  <2> QED
    BY <2>1, Zenon DEF IsSuffix
<1> QED
  BY <1>3, Zenon DEF SentEntries, LogEntries

(* A spliced log is the log up to the entry the request names, and then the  *)
(* entries of the request, all at the indexes they had.                      *)
LEMMA SplicedLog ==
  ASSUME TypeOK, NEW v \in Server, NEW m \in InFlight, m.rpc = "AppendEntries",
         InLog(v, m.PrevLogIndex), log'[v] = LogTo(v, m.PrevLogIndex) \o m.Entries
  PROVE  IsSplice(log'[v], log[v], Real(v, m.PrevLogIndex), m.Entries,
                  lastSnapshotIndex[v], m.PrevLogIndex)
<1> DEFINE r == Real(v, m.PrevLogIndex)
<1>1. /\ log[v] \in Seq(Entry) /\ lastSnapshotIndex[v] \in Int
      /\ m.PrevLogIndex \in Int /\ m.Entries \in Seq(Entry)
  BY FieldTypes, LogType, CountSteps, MessageType, Zenon DEF AppendEntriesArgs
<1>2. /\ r = m.PrevLogIndex - lastSnapshotIndex[v] + 1 /\ r \in 1 .. Len(log[v])
      /\ log'[v] = SubSeq(log[v], 1, r) \o m.Entries
  BY Zenon DEF InLog, LogTo, Real
<1> HIDE DEF r
<1>3. IsSplice(log'[v], log[v], r, m.Entries, lastSnapshotIndex[v], m.PrevLogIndex)
  BY <1>1, <1>2, SplicePlaced, Zenon
<1> QED
  BY <1>3, Zenon DEF r

(* Apart from what a leader starts, no log gets an entry that was not in a   *)
(* log, on a disk or in a request before.                                    *)
LEMMA LogStepEntries ==
  ASSUME TypeOK, NEW v \in Server, LogStep(v)
  PROVE  LogEntries(v)' \subseteq AllEntries
<1>1. log[v] \in Seq(Entry) /\ lastSnapshotIndex[v] \in Int
  BY FieldTypes, LogType, CountSteps, Zenon
<1>2. CASE Same(v)
  BY <1>2, EntryMembers, Zenon DEF Same, LogEntries, Placed
<1>3. CASE Reloaded(v)
  BY <1>3, EntryMembers, Zenon DEF Reloaded, LogEntries, DiskEntries, Placed
<1>4. CASE Cut(v)
  <2>1. PICK n \in 1 .. Len(log[v]) :
          /\ log'[v] = SubSeq(log[v], n, Len(log[v]))
          /\ lastSnapshotIndex'[v] = lastSnapshotIndex[v] + n - 1
    BY <1>4, Zenon DEF Cut
  <2>2. Placed(lastSnapshotIndex'[v], log'[v]) \subseteq LogEntries(v)
    BY <1>1, <2>1, SuffixPlaced, Zenon DEF LogEntries
  <2> QED
    BY <2>2, EntryMembers, Zenon DEF LogEntries, Placed
<1>5. CASE Emptied(v)
  <2>1. 2 .. Len(log'[v]) = {}
    BY <1>5 DEF Emptied
  <2> QED
    BY <2>1, Zenon DEF LogEntries, Placed
<1>6. CASE Spliced(v)
  <2>1. PICK m \in InFlight :
          /\ m.rpc = "AppendEntries" /\ InLog(v, m.PrevLogIndex)
          /\ log'[v] = LogTo(v, m.PrevLogIndex) \o m.Entries
          /\ lastSnapshotIndex'[v] = lastSnapshotIndex[v]
    BY <1>6, Zenon DEF Spliced
  <2>3. ASSUME NEW r, r = Real(v, m.PrevLogIndex), NEW p \in 2 .. Len(log'[v])
        PROVE  <<lastSnapshotIndex[v] + p - 1, log'[v][p]>> \in LogEntries(v) \cup SentEntries(m)
    <3>0. IsSplice(log'[v], log[v], r, m.Entries, lastSnapshotIndex[v], m.PrevLogIndex)
      BY <2>1, <2>3, SplicedLog, Zenon
    <3>1. /\ r \in 1 .. Len(log[v])
          /\ \A q \in 1 .. r : log'[v][q] = log[v][q]
          /\ \A q \in 1 .. Len(m.Entries) : log'[v][r + q] = m.Entries[q]
      BY <3>0, Zenon DEF IsSplice
    <3>2. \/ p \in 2 .. r
          \/ \E q \in 1 .. Len(m.Entries) :
               p = r + q /\ lastSnapshotIndex[v] + p - 1 = m.PrevLogIndex + q
      BY <3>0, Zenon DEF IsSplice
    <3>3. r \in Int /\ r <= Len(log[v]) /\ Len(log[v]) \in Nat
      BY <1>1, <3>1
    <3>4. CASE p \in 2 .. r
      <4>1. p \in 1 .. r /\ p \in 2 .. Len(log[v])
        BY <3>3, <3>4
      <4>2. log'[v][p] = log[v][p]
        BY <3>1, <4>1, Zenon
      <4> QED
        BY <4>1, <4>2, Zenon DEF LogEntries, Placed
    <3>5. ASSUME NEW q \in 1 .. Len(m.Entries), p = r + q,
                 lastSnapshotIndex[v] + p - 1 = m.PrevLogIndex + q
          PROVE  <<lastSnapshotIndex[v] + p - 1, log'[v][p]>> \in SentEntries(m)
      <4>1. log'[v][p] = m.Entries[q]
        BY <3>1, <3>5, Zenon
      <4> QED
        BY <3>5, <4>1, Zenon DEF SentEntries
    <3> QED
      BY <3>2, <3>4, <3>5, Zenon
  <2>5. \A p \in 2 .. Len(log'[v]) :
          <<lastSnapshotIndex[v] + p - 1, log'[v][p]>> \in LogEntries(v) \cup SentEntries(m)
    BY <2>3, Zenon
  <2>6. Placed(lastSnapshotIndex'[v], log'[v]) \subseteq LogEntries(v) \cup SentEntries(m)
    BY <2>1, <2>5, Zenon DEF Placed
  <2> QED
    BY <2>1, <2>6, EntryMembers, Zenon DEF LogEntries, Placed
<1> QED
  BY <1>2, <1>3, <1>4, <1>5, <1>6, Zenon DEF LogStep

(* The arithmetic of the end of a log: Start puts its entry right after it,  *)
(* a cut leaves it where it is, an installed snapshot moves it on.           *)
LEMMA LogEnds ==
  ASSUME NEW a \in Nat, NEW n \in Nat
  PROVE  /\ a + n = (a + n - 1) + 1
         /\ a + (n + 1) - 1 = (a + n - 1) + 1
         /\ a + n - 1 <= (a + n - 1) + 1
         /\ a + n - 1 <= a + n - 1
         /\ \A k \in 1 .. n : (a + k - 1) + (n - k + 1) - 1 = a + n - 1
         /\ \A b \in Nat : a + n - 1 < b => a + n - 1 <= b + 1 - 1
  OBVIOUS

(* What Start does to the log of the leader. *)
LEMMA StartedLog ==
  ASSUME TypeOK, NEW i \in Server, Started(i)
  PROVE  \E e \in Entry : /\ e.Term = currentTerm[i]
                          /\ IsAppend(log'[i], log[i], e, lastSnapshotIndex[i])
<1>1. PICK c \in Command : log'[i] = Append(log[i], [Term |-> currentTerm[i], Command |-> c])
  BY Zenon DEF Started
<1> DEFINE e == [Term |-> currentTerm[i], Command |-> c]
<1>2. e \in Entry /\ e.Term = currentTerm[i] /\ log'[i] = Append(log[i], e)
  BY <1>1, FieldTypes, Zenon DEF Entry
<1>3. log[i] \in Seq(Entry) /\ Len(log[i]) > 0 /\ lastSnapshotIndex[i] \in Int
  BY FieldTypes, LogType, CountSteps, Zenon
<1> HIDE DEF e
<1>4. IsAppend(log'[i], log[i], e, lastSnapshotIndex[i])
  BY <1>2, <1>3, AppendPlaced, Zenon
<1> QED
  BY <1>2, <1>4, Zenon

(* A leader that keeps leading never has a shorter log. *)
LEMMA LeaderLogGrows ==
  ASSUME TypeOK, TypeOK', WriteStep, NEW i \in Server, state'[i] = "LEADER"
  PROVE  LastLogIndex(i) <= LastLogIndex(i)'
<1>1. /\ log[i] \in Seq(Entry) /\ Len(log[i]) \in Nat /\ Len(log[i]) > 0
      /\ lastSnapshotIndex[i] \in Nat /\ lastSnapshotIndex[i] \in Int
      /\ lastSnapshotIndex'[i] \in Nat
  <2>1. lastSnapshotIndex \in [Server -> Nat] /\ lastSnapshotIndex' \in [Server -> Nat]
    BY Zenon DEF TypeOK
  <2> QED
    BY <2>1, LogType, CountSteps, ZenonT(60)
<1>2. CASE Same(i)
  BY <1>1, <1>2, LogEnds, Zenon DEF Same, LastLogIndex
<1>3. CASE Cut(i)
  <2>1. PICK n \in 1 .. Len(log[i]) :
          /\ log'[i] = SubSeq(log[i], n, Len(log[i]))
          /\ lastSnapshotIndex'[i] = lastSnapshotIndex[i] + n - 1
    BY <1>3, Zenon DEF Cut
  <2>2. Len(log'[i]) = Len(log[i]) - n + 1
    BY <1>1, <2>1, SuffixPlaced, Zenon
  <2>3. LastLogIndex(i)' = (lastSnapshotIndex[i] + n - 1) + (Len(log[i]) - n + 1) - 1
    BY <2>1, <2>2, Zenon DEF LastLogIndex
  <2>4. LastLogIndex(i)' = LastLogIndex(i)
    BY <1>1, <2>3, LogEnds, Zenon DEF LastLogIndex
  <2> QED
    BY <1>1, <2>4, LogEnds, Zenon DEF LastLogIndex
<1>4. CASE Emptied(i)
  BY <1>1, <1>4, LogEnds, Zenon DEF Emptied, LastLogIndex
<1>5. CASE Started(i)
  <2>1. Len(log'[i]) = Len(log[i]) + 1 /\ lastSnapshotIndex'[i] = lastSnapshotIndex[i]
    BY <1>5, StartedLog, Zenon DEF IsAppend, Started
  <2>2. LastLogIndex(i)' = lastSnapshotIndex[i] + (Len(log[i]) + 1) - 1
    BY <2>1, Zenon DEF LastLogIndex
  <2>3. LastLogIndex(i)' = LastLogIndex(i) + 1 /\ LastLogIndex(i) <= LastLogIndex(i) + 1
    BY <1>1, <2>2, LogEnds, Zenon DEF LastLogIndex
  <2> QED
    BY <2>3, Zenon
<1> QED
  BY <1>2, <1>3, <1>4, <1>5, Zenon DEF WriteStep, LogStep, Reloaded, Spliced

(* z is the entry that leader i starts *)
NewEntry(i, z) ==
  /\ state[i] = "LEADER" /\ state'[i] = "LEADER"
  /\ z[1] = LastLogIndex(i) + 1 /\ z[2].Term = currentTerm[i]
  /\ LastLogIndex(i)' = LastLogIndex(i) + 1

(* A step makes no entry but the one a leader starts. *)
LEMMA WriteStepEntries ==
  ASSUME TypeOK, TypeOK', WriteStep
  PROVE  \/ AllEntries' \subseteq AllEntries
         \/ \E i \in Server : \E z : NewEntry(i, z) /\ AllEntries' \subseteq AllEntries \cup {z}
<1>1. ASSUME NEW E, AllEntries \subseteq E, \A v \in Server : LogEntries(v)' \subseteq E
      PROVE  AllEntries' \subseteq E
  <2>1. \A v \in Server : DiskEntries(v)' \subseteq E
    <3> SUFFICES ASSUME NEW v \in Server PROVE DiskEntries(v)' \subseteq E
      BY Zenon
    <3>1. DiskEntries(v)' = DiskEntries(v) \/ DiskEntries(v)' = LogEntries(v)'
      BY Zenon DEF WriteStep, DiskStep, DiskEntries, LogEntries, Placed
    <3> QED
      BY <1>1, <3>1, EntryMembers, Zenon
  <2>2. ASSUME NEW m \in InFlight', m.rpc = "AppendEntries"
        PROVE  SentEntries(m) \subseteq E
    <3>1. m \in InFlight \/ FreshRequest(m)
      BY <2>2, Zenon DEF WriteStep, RequestStep
    <3>2. CASE m \in InFlight
      BY <1>1, <2>2, <3>2, EntryMembers, Zenon
    <3>3. CASE FreshRequest(m)
      BY <1>1, <2>2, <3>3, FreshEntries, EntryMembers, Zenon
    <3> QED
      BY <3>1, <3>2, <3>3, Zenon
  <2> QED
    BY <1>1, <2>1, <2>2, EntryMembers, Zenon
<1>2. CASE \A v \in Server : LogStep(v)
  BY <1>1, <1>2, LogStepEntries, Zenon
<1>3. ASSUME NEW i \in Server, Started(i), \A v \in Server \ {i} : Same(v)
      PROVE  \E z : NewEntry(i, z) /\ AllEntries' \subseteq AllEntries \cup {z}
  <2>1. PICK e \in Entry : /\ e.Term = currentTerm[i]
                           /\ IsAppend(log'[i], log[i], e, lastSnapshotIndex[i])
    BY <1>3, StartedLog, Zenon
  <2>2. /\ Len(log[i]) \in Nat /\ lastSnapshotIndex[i] \in Nat
        /\ lastSnapshotIndex'[i] = lastSnapshotIndex[i]
    BY <1>3, FieldTypes, LogType, Zenon DEF Started
  <2> DEFINE z == <<LastLogIndex(i) + 1, e>>
  <2>3. /\ Len(log'[i]) = Len(log[i]) + 1
        /\ Placed(lastSnapshotIndex[i], log'[i])
             \subseteq Placed(lastSnapshotIndex[i], log[i])
                         \cup {<<lastSnapshotIndex[i] + Len(log[i]), e>>}
    BY <2>1, Zenon DEF IsAppend
  <2>4. <<lastSnapshotIndex[i] + Len(log[i]), e>> = z
    BY <2>2, LogEnds, Zenon DEF LastLogIndex
  <2>5. LastLogIndex(i)' = LastLogIndex(i) + 1
    <3>1. LastLogIndex(i)' = lastSnapshotIndex[i] + (Len(log[i]) + 1) - 1
      BY <2>2, <2>3, Zenon DEF LastLogIndex
    <3> QED
      BY <2>2, <3>1, LogEnds, Zenon DEF LastLogIndex
  <2>6. NewEntry(i, z)
    <3>1. z[1] = LastLogIndex(i) + 1 /\ z[2] = e
      BY Zenon
    <3> QED
      BY <1>3, <2>1, <2>5, <3>1, Zenon DEF NewEntry, Started
  <2> HIDE DEF z
  <2>7. LogEntries(i)' \subseteq AllEntries \cup {z}
    <3>1. Placed(lastSnapshotIndex'[i], log'[i]) \subseteq LogEntries(i) \cup {z}
      BY <2>2, <2>3, <2>4, Zenon DEF LogEntries
    <3> QED
      BY <3>1, EntryMembers, Zenon DEF LogEntries, Placed
  <2>8. \A v \in Server \ {i} : LogEntries(v)' \subseteq AllEntries \cup {z}
    BY <1>3, LogStepEntries, Zenon DEF LogStep
  <2>9. \A v \in Server : LogEntries(v)' \subseteq AllEntries \cup {z}
    BY <2>7, <2>8, Zenon
  <2> QED
    BY <1>1, <2>6, <2>9, Zenon
<1> QED
  BY <1>2, <1>3, Zenon DEF WriteStep

(* At the start nothing is under way. *)
LEMMA NoneInFlight ==
  ASSUME Init
  PROVE  InFlight = {}
<1>1. ASSUME NEW m, m \in InFlight PROVE FALSE
  <2>1. m \notin late /\ \A i \in Server : m \notin Canvassing(i)
    BY Zenon DEF Init, Canvassing
  <2>2. m \notin {None, InstallNext, InstallDone} => \A i, j \in Server : m # call[i][j]
    BY Zenon DEF Init
  <2> QED
    BY <1>1, <2>1, <2>2, InFlightMembers, ZenonT(60)
<1> QED
  BY <1>1, Zenon

-----------------------------------------------------------------------------
(* Leaders append only *)

(* Where an entry of a log is found again when the log is kept or appended   *)
(* to.                                                                       *)
LEMMA KeptPosition ==
  ASSUME NEW a \in Nat, NEW n \in Nat, NEW p \in 2 .. n, NEW y, y = a + p - 1
  PROVE  y - a + 1 = p /\ p \in 1 .. n /\ p \in 1 .. n + 1
  OBVIOUS

(* An empty log starts behind every entry of the log it replaces. *)
LEMMA EmptiedPosition ==
  ASSUME NEW a \in Nat, NEW b \in Nat, NEW n \in Nat, NEW p \in 2 .. n, a + n - 1 < b
  PROVE  a + p - 1 <= b
  OBVIOUS

(* Where an entry of a log is found again when the log is cut at k. *)
LEMMA CutPosition ==
  ASSUME NEW a \in Nat, NEW n \in Nat, NEW p \in 2 .. n, NEW k \in 1 .. n,
         NEW y, y = a + p - 1, NEW b, b = a + k - 1, ~(y <= b)
  PROVE  /\ y - b + 1 = p - k + 1
         /\ p - k + 1 \in 1 .. n - k + 1
         /\ k + (p - k + 1) - 1 = p
  OBVIOUS

(* A leader gives up an entry only for a snapshot that includes its index:   *)
(* it never takes entries from another server, and restarts as a follower.   *)
THEOREM LeadersAppendOnly == Spec => LeaderAppendOnly
<1>1. TypeOK /\ TypeOK' /\ [Next]_vars => [LeaderAppends]_vars
  <2> SUFFICES ASSUME TypeOK, TypeOK', [Next]_vars,
                      NEW i \in Server, state'[i] = "LEADER", NEW x \in LogEntries(i)
               PROVE  Holds(i, x[1], x[2])'
    BY Zenon DEF LeaderAppends
  <2>1. WriteStep
    BY NextIsWriteStep, Zenon
  <2>2. /\ log[i] \in Seq(Entry) /\ Len(log[i]) \in Nat
        /\ lastSnapshotIndex[i] \in Nat /\ lastSnapshotIndex'[i] \in Nat
    <3>1. lastSnapshotIndex \in [Server -> Nat] /\ lastSnapshotIndex' \in [Server -> Nat]
      BY Zenon DEF TypeOK
    <3> QED
      BY <3>1, LogType, Zenon
  <2>3. PICK p \in 2 .. Len(log[i]) : x[1] = lastSnapshotIndex[i] + p - 1 /\ x[2] = log[i][p]
    <3>1. PICK p \in 2 .. Len(log[i]) : x = <<lastSnapshotIndex[i] + p - 1, log[i][p]>>
      BY Zenon DEF LogEntries, Placed
    <3> QED
      BY <3>1, Zenon
  <2>4. /\ x[1] - lastSnapshotIndex[i] + 1 = p
        /\ p \in 1 .. Len(log[i]) /\ p \in 1 .. Len(log[i]) + 1
    BY <2>2, <2>3, KeptPosition
  <2>5. ASSUME NEW q \in 1 .. Len(log'[i]), q = x[1] - lastSnapshotIndex'[i] + 1, log'[i][q] = x[2]
        PROVE  Holds(i, x[1], x[2])'
    BY <2>5, Zenon DEF Holds, InLog, Real
  <2>6. CASE Same(i)
    <3>1. x[1] - lastSnapshotIndex'[i] + 1 = p /\ p \in 1 .. Len(log'[i])
      BY <2>6, <2>4, Zenon DEF Same
    <3> QED
      BY <2>3, <2>5, <2>6, <3>1, Zenon DEF Same
  <2>7. CASE Started(i)
    <3>1. /\ Len(log'[i]) = Len(log[i]) + 1 /\ lastSnapshotIndex'[i] = lastSnapshotIndex[i]
          /\ \A q \in 1 .. Len(log[i]) : log'[i][q] = log[i][q]
      BY <2>7, StartedLog, Zenon DEF IsAppend, Started
    <3>2. /\ x[1] - lastSnapshotIndex'[i] + 1 = p
          /\ p \in 1 .. Len(log[i]) /\ p \in 1 .. Len(log'[i])
      BY <2>4, <3>1, Zenon
    <3> QED
      BY <2>3, <2>5, <3>1, <3>2, Zenon
  <2>8. CASE Emptied(i)
    <3>1. x[1] <= lastSnapshotIndex'[i]
      BY <2>2, <2>3, <2>8, EmptiedPosition, Zenon DEF Emptied, LastLogIndex
    <3> QED
      BY <3>1, Zenon DEF Holds
  <2>9. CASE Cut(i)
    <3>1. PICK n \in 1 .. Len(log[i]) :
            /\ log'[i] = SubSeq(log[i], n, Len(log[i]))
            /\ lastSnapshotIndex'[i] = lastSnapshotIndex[i] + n - 1
      BY <2>9, Zenon DEF Cut
    <3>2. /\ Len(log'[i]) = Len(log[i]) - n + 1
          /\ \A q \in 1 .. Len(log[i]) - n + 1 : log'[i][q] = log[i][n + q - 1]
      BY <2>2, <3>1
    <3>3. CASE x[1] <= lastSnapshotIndex'[i]
      BY <3>3, Zenon DEF Holds
    <3>4. CASE ~(x[1] <= lastSnapshotIndex'[i])
      <4>1. /\ x[1] - lastSnapshotIndex'[i] + 1 = p - n + 1
            /\ p - n + 1 \in 1 .. Len(log[i]) - n + 1 /\ n + (p - n + 1) - 1 = p
        BY <2>2, <2>3, <3>1, <3>4, CutPosition, Zenon
      <4>2. log'[i][p - n + 1] = x[2]
        BY <2>3, <3>2, <4>1, Zenon
      <4> QED
        BY <2>5, <3>2, <4>1, <4>2, Zenon
    <3> QED
      BY <3>3, <3>4, Zenon
  <2> QED
    BY <2>1, <2>6, <2>7, <2>8, <2>9, Zenon DEF WriteStep, LogStep, Reloaded, Spliced
<1> QED
  BY <1>1, TypeCorrect, PTL DEF Spec, LeaderAppendOnly

-----------------------------------------------------------------------------
(* The links between entries, as long as no service takes snapshots *)

(* The service never asks for a snapshot, so that no log is ever cut and all *)
(* start with the entry of term 0 at index 0                                 *)
NeverCut ==
  /\ \A v \in Server :
       /\ serving[v] <= 0 /\ lastSnapshotIndex[v] = 0 /\ log[v][1].Term = 0
       /\ persisted[v].lastSnapshotIndex = 0 /\ persisted[v].log[1].Term = 0
  /\ \A m \in InFlight :
       /\ m.rpc = "InstallSnapshot" => m.LastIncludeIndex = 0
       /\ m.rpc = "AppendEntries" /\ m.PrevLogIndex = 0 => m.PrevLogTerm = 0

(* The entries of a log with the terms of the entries before them *)
Linked(base, l) == {<<base + p - 1, l[p - 1].Term, l[p]>> : p \in 2 .. Len(l)}

LogLinks(i) == Linked(lastSnapshotIndex[i], log[i])

DiskLinks(i) == Linked(persisted[i].lastSnapshotIndex, persisted[i].log)

SentLink(m, p) ==
  <<m.PrevLogIndex + p,
    IF p = 1 THEN m.PrevLogTerm ELSE m.Entries[p - 1].Term, m.Entries[p]>>

SentLinks(m) == {SentLink(m, p) : p \in 1 .. Len(m.Entries)}

AllLinks ==
  UNION ({LogLinks(i) : i \in Server} \cup {DiskLinks(i) : i \in Server}
         \cup {SentLinks(m) : m \in {n \in InFlight : n.rpc = "AppendEntries"}})

(* An entry follows the same term wherever it is: AppendEntries checks       *)
(* PrevLogTerm before it takes entries                                       *)
LinksAgree ==
  \A x, y \in AllLinks : x[1] = y[1] /\ x[3].Term = y[3].Term => x = y

MatchInv == NeverCut /\ LinksAgree

(* The service sets no snapshot going when it has no limit for Raft's state. *)
LEMMA NeverServing ==
  ASSUME TypeOK, [Next]_vars, MaxRaftState = -1, \A v \in Server : serving[v] <= 0
  PROVE  \A v \in Server : serving'[v] <= 0
<1>1. serving \in [Server -> Int]
  BY Zenon DEF TypeOK
<1>2. ASSUME NEW i \in Server, NEW n, n = 0 \/ n = Loading,
             serving' = [serving EXCEPT ![i] = n]
      PROVE  \A v \in Server : serving'[v] <= 0
  <2>1. n <= 0
    BY <1>2 DEF Loading
  <2> QED
    BY <1>1, <1>2, <2>1, Zenon
<1>3. ASSUME NEW i \in Server, Deliver(i)
      PROVE  \A v \in Server : serving'[v] <= 0
  <2>1. \E n : (n = 0 \/ n = Loading) /\ serving' = [serving EXCEPT ![i] = n]
    BY <1>3, Zenon DEF Deliver
  <2> QED
    BY <1>2, <2>1, Zenon
<1>4. ASSUME NEW i \in Server, SaveSnapshot(i) \/ ReadSnapshot(i) \/ Restart(i)
      PROVE  \A v \in Server : serving'[v] <= 0
  <2>1. serving' = [serving EXCEPT ![i] = 0]
    BY <1>4, Zenon DEF SaveSnapshot, ReadSnapshot, Restart
  <2> QED
    BY <1>2, <2>1, Zenon
<1>5. ASSUME NEW i \in Server,
             Election(i) \/ ElectionEnd(i) \/ Apply(i) \/ \E c \in Command : Start(i, c)
      PROVE  serving' = serving
  BY <1>5, Zenon DEF Election, ElectionEnd, Apply, Start, applyVars
<1>6. ASSUME NEW i \in Server, NEW j \in Server,
             \/ SendAppendEntries(i, j) \/ AppendEntriesReplied(i, j)
             \/ InstallSnapshotToPeers(i, j) \/ InstallSnapshotReplied(i, j)
             \/ InstallSnapshotFinish(i, j) \/ RPCTimeout(i, j)
      PROVE  serving' = serving
  BY <1>6, Zenon DEF SendAppendEntries, AppendEntriesReplied, InstallSnapshotToPeers,
     InstallSnapshotReplied, InstallSnapshotFinish, RPCTimeout, applyVars
<1>7. ASSUME NEW m \in InFlight, RequestVote(m) \/ AppendEntries(m) \/ InstallSnapshot(m)
      PROVE  serving' = serving
  BY <1>7, Zenon DEF RequestVote, AppendEntries, AppendEntriesStale, AppendEntriesReject,
     AppendEntriesAccept, InstallSnapshot, applyVars
<1>8. UNCHANGED vars => serving' = serving
  BY Zenon DEF vars
<1> QED
  BY <1>3, <1>4, <1>5, <1>6, <1>7, <1>8, ZenonT(60) DEF Next

(* Without snapshots a log only changes by Start, AppendEntries or a         *)
(* restart, and starts at index 0 for good.                                  *)
LEMMA NeverCutStep ==
  ASSUME TypeOK, WriteStep, NeverCut, \A v \in Server : serving'[v] <= 0
  PROVE  /\ NeverCut'
         /\ \A v \in Server : LogStep(v) => Same(v) \/ Reloaded(v) \/ Spliced(v)
<1>1. ASSUME NEW v \in Server PROVE ~Snapshotting(v)
  <2>1. serving[v] \in Int /\ serving[v] <= 0 /\ lastSnapshotIndex[v] = 0
    BY Zenon DEF TypeOK, NeverCut
  <2>2. ~(serving[v] > 0) /\ ~(0 < 0)
    BY <2>1
  <2> QED
    BY <2>1, <2>2, Zenon DEF Snapshotting, NeverCut
<1>2. \A v \in Server : LogStep(v) => Same(v) \/ Reloaded(v) \/ Spliced(v)
  BY <1>1, Zenon DEF LogStep, Cut, Emptied
<1>3. ASSUME NEW v \in Server
      PROVE  lastSnapshotIndex'[v] = 0 /\ log'[v][1].Term = 0
  <2>1. /\ lastSnapshotIndex[v] = 0 /\ log[v][1].Term = 0
        /\ persisted[v].lastSnapshotIndex = 0 /\ persisted[v].log[1].Term = 0
    BY Zenon DEF NeverCut
  <2>2. CASE Same(v)
    BY <2>1, <2>2, Zenon DEF Same
  <2>3. CASE Reloaded(v)
    BY <2>1, <2>3, Zenon DEF Reloaded
  <2>4. CASE Spliced(v)
    <3>1. PICK m \in InFlight :
            /\ m.rpc = "AppendEntries" /\ InLog(v, m.PrevLogIndex)
            /\ log'[v] = LogTo(v, m.PrevLogIndex) \o m.Entries
      BY <2>4, Zenon DEF Spliced
    <3>2. PICK r : r = Real(v, m.PrevLogIndex)
      BY Zenon
    <3>3. IsSplice(log'[v], log[v], r, m.Entries, lastSnapshotIndex[v], m.PrevLogIndex)
      BY <3>1, <3>2, SplicedLog, Zenon
    <3>4. r \in 1 .. Len(log[v]) /\ \A p \in 1 .. r : log'[v][p] = log[v][p]
      BY <3>3, Zenon DEF IsSplice
    <3>5. 1 \in 1 .. r
      BY <3>4
    <3> QED
      BY <2>1, <2>4, <3>4, <3>5, ZenonT(60) DEF Spliced
  <2>5. CASE Started(v)
    <3>1. \A p \in 1 .. Len(log[v]) : log'[v][p] = log[v][p]
      BY <2>5, StartedLog, Zenon DEF IsAppend
    <3>2. 1 \in 1 .. Len(log[v])
      <4>1. Len(log[v]) \in Nat /\ Len(log[v]) > 0
        BY LogType, Zenon
      <4> QED
        BY <4>1
    <3> QED
      BY <2>1, <2>5, <3>1, <3>2, Zenon DEF Started
  <2> QED
    BY <1>2, <2>2, <2>3, <2>4, <2>5, ZenonT(60) DEF WriteStep
<1>4. ASSUME NEW v \in Server
      PROVE  persisted'[v].lastSnapshotIndex = 0 /\ persisted'[v].log[1].Term = 0
  BY <1>3, ZenonT(60) DEF WriteStep, DiskStep, NeverCut
<1>5. ASSUME NEW m \in InFlight'
      PROVE  /\ m.rpc = "InstallSnapshot" => m.LastIncludeIndex = 0
             /\ m.rpc = "AppendEntries" /\ m.PrevLogIndex = 0 => m.PrevLogTerm = 0
  <2>1. CASE m.rpc = "RequestVote"
    BY <2>1, Zenon
  <2>2. CASE m \in InFlight
    BY <2>2, Zenon DEF NeverCut
  <2>3. CASE FreshRequest(m)
    <3>1. \A i \in Server : TermAt(i, 0) = 0
      <4>1. 0 - 0 + 1 = 1
        OBVIOUS
      <4> QED
        BY <4>1, Zenon DEF NeverCut, TermAt, Real
    <3> QED
      BY <2>3, <3>1, Zenon DEF FreshRequest, NeverCut
  <2> QED
    BY <2>1, <2>2, <2>3, Zenon DEF WriteStep, RequestStep
<1>6. NeverCut'
  BY <1>3, <1>4, <1>5, Zenon DEF NeverCut
<1> QED
  BY <1>2, <1>6, Zenon

(* A link is in a log, on a disk or in a request under way.                  *)
LEMMA LinkMembers ==
  ASSUME NEW x
  PROVE  /\ x \in AllLinks <=>
              \/ \E i \in Server : x \in LogLinks(i) \/ x \in DiskLinks(i)
              \/ \E m \in InFlight : m.rpc = "AppendEntries" /\ x \in SentLinks(m)
         /\ x \in AllLinks' <=>
              \/ \E i \in Server : x \in LogLinks(i)' \/ x \in DiskLinks(i)'
              \/ \E m \in InFlight' : m.rpc = "AppendEntries" /\ x \in SentLinks(m)
<1>1. AllLinks' = UNION ({LogLinks(i)' : i \in Server} \cup {DiskLinks(i)' : i \in Server}
         \cup {SentLinks(m) : m \in {n \in InFlight' : n.rpc = "AppendEntries"}})
  BY Zenon DEF AllLinks, SentLinks, SentLink
<1> QED
  BY <1>1, Zenon DEF AllLinks

(* Without the term before it, a link is an entry.                           *)
LEMMA LinkIsEntry ==
  ASSUME NEW x \in AllLinks
  PROVE  <<x[1], x[3]>> \in AllEntries
<1>1. ASSUME NEW base, NEW l, x \in Linked(base, l)
      PROVE  <<x[1], x[3]>> \in Placed(base, l)
  <2>1. PICK p \in 2 .. Len(l) : x = <<base + p - 1, l[p - 1].Term, l[p]>>
    BY <1>1, Zenon DEF Linked
  <2>2. x[1] = base + p - 1 /\ x[3] = l[p]
    BY <2>1, Zenon
  <2> QED
    BY <2>2, Zenon DEF Placed
<1>2. ASSUME NEW m, x \in SentLinks(m)
      PROVE  <<x[1], x[3]>> \in SentEntries(m)
  <2>1. PICK p \in 1 .. Len(m.Entries) : x = SentLink(m, p)
    BY <1>2, Zenon DEF SentLinks
  <2>2. x[1] = m.PrevLogIndex + p /\ x[3] = m.Entries[p]
    BY <2>1, Zenon DEF SentLink
  <2> QED
    BY <2>2, Zenon DEF SentEntries
<1> QED
  BY <1>1, <1>2, LinkMembers, EntryMembers, ZenonT(60)
     DEF LogLinks, DiskLinks, LogEntries, DiskEntries

(* What a request carries is linked as in the log it was made from.          *)
LEMMA FreshLinks ==
  ASSUME TypeOK, NEW m, FreshRequest(m), m.rpc = "AppendEntries"
  PROVE  \E i \in Server : SentLinks(m) \subseteq LogLinks(i)
<1>1. PICK i \in Server :
        /\ m.PrevLogIndex \in Int /\ InLog(i, m.PrevLogIndex)
        /\ m.PrevLogTerm = TermAt(i, m.PrevLogIndex)
        /\ m.Entries = LogFrom(i, m.PrevLogIndex + 1)
  BY Zenon DEF FreshRequest
<1>2. log[i] \in Seq(Entry) /\ lastSnapshotIndex[i] \in Int
  BY FieldTypes, LogType, CountSteps, Zenon
<1>3. PICK r : r = m.PrevLogIndex - lastSnapshotIndex[i] + 1
  BY Zenon
<1>4. \A p \in 1 .. Len(m.Entries) :
        /\ r + p \in 2 .. Len(log[i]) /\ m.Entries[p] = log[i][r + p]
        /\ m.PrevLogIndex + p = lastSnapshotIndex[i] + (r + p) - 1
  <2>1. IsSuffix(m.Entries, log[i], lastSnapshotIndex[i], m.PrevLogIndex)
    BY <1>1, <1>2, SentPlaced, Zenon DEF InLog, LogFrom, Real
  <2> QED
    BY <1>3, <2>1, Zenon DEF IsSuffix
<1>5. r \in Int /\ m.PrevLogTerm = log[i][r].Term /\ Len(m.Entries) \in Nat
  <2>1. r \in Int /\ m.PrevLogTerm = log[i][r].Term
    BY <1>1, <1>2, <1>3 DEF TermAt, Real
  <2>2. Len(m.Entries) \in Nat
    BY <1>1, <1>2, <1>3, SentPlaced, ZenonT(60) DEF InLog, LogFrom, Real
  <2> QED
    BY <2>1, <2>2, Zenon
<1>6. ASSUME NEW p \in 1 .. Len(m.Entries)
      PROVE  SentLink(m, p) \in LogLinks(i)
  <2>1. SentLink(m, p)
          = <<lastSnapshotIndex[i] + (r + p) - 1, log[i][(r + p) - 1].Term, log[i][r + p]>>
    <3>1. CASE p = 1
      <4>1. (r + p) - 1 = r
        BY <1>5, <3>1
      <4> QED
        BY <1>4, <1>5, <3>1, <4>1, ZenonT(60) DEF SentLink
    <3>2. CASE p # 1
      <4>1. p - 1 \in 1 .. Len(m.Entries) /\ r + (p - 1) = (r + p) - 1
        BY <1>5, <3>2
      <4>2. m.Entries[p - 1] = log[i][(r + p) - 1]
        BY <1>4, <4>1, Zenon
      <4> QED
        BY <1>4, <3>2, <4>2, Zenon DEF SentLink
    <3> QED
      BY <3>1, <3>2, Zenon
  <2>2. r + p \in 2 .. Len(log[i])
    BY <1>4, Zenon
  <2> QED
    BY <2>1, <2>2, Zenon DEF LogLinks, Linked
<1> QED
  BY <1>6, Zenon DEF SentLinks

(* Entries spliced in after an entry with the term that the request names    *)
(* are linked as in the log and in the request.                              *)
LEMMA SpliceLinks ==
  ASSUME NEW s, NEW l, NEW r, NEW base, NEW m, Len(l) \in Nat, Len(m.Entries) \in Nat,
         IsSplice(s, l, r, m.Entries, base, m.PrevLogIndex),
         l[r].Term = m.PrevLogTerm
  PROVE  Linked(base, s) \subseteq Linked(base, l) \cup SentLinks(m)
<1>1. /\ r \in 1 .. Len(l)
      /\ \A p \in 1 .. r : s[p] = l[p]
      /\ \A p \in 1 .. Len(m.Entries) : s[r + p] = m.Entries[p]
      /\ \A p \in 2 .. Len(s) :
           \/ p \in 2 .. r
           \/ \E q \in 1 .. Len(m.Entries) : p = r + q /\ base + p - 1 = m.PrevLogIndex + q
  BY Zenon DEF IsSplice
<1>2. r \in Int /\ 1 <= r /\ r <= Len(l)
  BY <1>1
<1>3. ASSUME NEW p \in 2 .. r
      PROVE  <<base + p - 1, s[p - 1].Term, s[p]>> \in Linked(base, l)
  <2>1. p \in 1 .. r /\ p - 1 \in 1 .. r /\ p \in 2 .. Len(l)
    BY <1>2
  <2>2. s[p] = l[p] /\ s[p - 1] = l[p - 1]
    BY <1>1, <2>1, Zenon
  <2> QED
    BY <2>1, <2>2, Zenon DEF Linked
<1>4. ASSUME NEW p, NEW q \in 1 .. Len(m.Entries), p = r + q,
             base + p - 1 = m.PrevLogIndex + q
      PROVE  <<base + p - 1, s[p - 1].Term, s[p]>> \in SentLinks(m)
  <2>1. s[p] = m.Entries[q]
    BY <1>1, <1>4, Zenon
  <2>2. CASE q = 1
    <3>1. p - 1 = r /\ r \in 1 .. r
      BY <1>2, <1>4, <2>2
    <3>2. s[p - 1].Term = m.PrevLogTerm
      BY <1>1, <3>1, Zenon
    <3> QED
      BY <1>4, <2>1, <2>2, <3>2, Zenon DEF SentLinks, SentLink
  <2>3. CASE q # 1
    <3>1. q - 1 \in 1 .. Len(m.Entries) /\ p - 1 = r + (q - 1)
      BY <1>2, <1>4, <2>3
    <3>2. s[p - 1] = m.Entries[q - 1]
      BY <1>1, <3>1, Zenon
    <3> QED
      BY <1>4, <2>1, <2>3, <3>2, Zenon DEF SentLinks, SentLink
  <2> QED
    BY <2>2, <2>3, Zenon
<1>5. \A p \in 2 .. Len(s) :
        <<base + p - 1, s[p - 1].Term, s[p]>> \in Linked(base, l) \cup SentLinks(m)
  BY <1>1, <1>3, <1>4, Zenon
<1>6. ASSUME NEW x \in Linked(base, s)
      PROVE  \E p \in 2 .. Len(s) : x = <<base + p - 1, s[p - 1].Term, s[p]>>
  BY Zenon DEF Linked
<1> QED
  BY <1>5, <1>6, Zenon

(* Start links its entry to the last one of the log.                         *)
LEMMA AppendLinks ==
  ASSUME NEW s, NEW l, NEW e, NEW base, Len(l) \in Nat, Len(l) > 0, IsAppend(s, l, e, base)
  PROVE  Linked(base, s)
           \subseteq Linked(base, l) \cup {<<base + (Len(l) + 1) - 1, l[Len(l)].Term, e>>}
<1>1. /\ Len(s) = Len(l) + 1
      /\ \A p \in 1 .. Len(l) : s[p] = l[p]
      /\ s[Len(l) + 1] = e
  BY Zenon DEF IsAppend
<1>2. ASSUME NEW p \in 2 .. Len(s)
      PROVE  <<base + p - 1, s[p - 1].Term, s[p]>>
               \in Linked(base, l) \cup {<<base + (Len(l) + 1) - 1, l[Len(l)].Term, e>>}
  <2>1. p \in 2 .. Len(l) \/ p = Len(l) + 1
    BY <1>1
  <2>2. CASE p \in 2 .. Len(l)
    <3>1. p \in 1 .. Len(l) /\ p - 1 \in 1 .. Len(l)
      BY <2>2
    <3>2. s[p] = l[p] /\ s[p - 1] = l[p - 1]
      BY <1>1, <3>1, Zenon
    <3> QED
      BY <2>2, <3>2, Zenon DEF Linked
  <2>3. CASE p = Len(l) + 1
    <3>1. p - 1 = Len(l) /\ Len(l) \in 1 .. Len(l)
      BY <2>3
    <3>2. s[p] = e /\ s[p - 1] = l[Len(l)]
      BY <1>1, <2>3, <3>1, Zenon
    <3> QED
      BY <2>3, <3>2, Zenon
  <2> QED
    BY <2>1, <2>2, <2>3, Zenon
<1>3. ASSUME NEW x \in Linked(base, s)
      PROVE  \E p \in 2 .. Len(s) : x = <<base + p - 1, s[p - 1].Term, s[p]>>
  BY Zenon DEF Linked
<1> QED
  BY <1>2, <1>3, Zenon

(* Apart from what a leader starts, no log gets an entry that is linked      *)
(* otherwise than before: AppendEntries compares PrevLogTerm, except at the  *)
(* index 0 where all logs have the term 0.                                   *)
LEMMA LogStepLinks ==
  ASSUME TypeOK, NeverCut, NEW v \in Server, Same(v) \/ Reloaded(v) \/ Spliced(v)
  PROVE  LogLinks(v)' \subseteq AllLinks
<1>1. CASE Same(v)
  BY <1>1, LinkMembers, Zenon DEF Same, LogLinks, Linked
<1>2. CASE Reloaded(v)
  BY <1>2, LinkMembers, Zenon DEF Reloaded, LogLinks, DiskLinks, Linked
<1>3. CASE Spliced(v)
  <2>1. PICK m \in InFlight :
          /\ m.rpc = "AppendEntries" /\ InLog(v, m.PrevLogIndex) /\ PrevLogMatches(v, m)
          /\ log'[v] = LogTo(v, m.PrevLogIndex) \o m.Entries
          /\ lastSnapshotIndex'[v] = lastSnapshotIndex[v]
    BY <1>3, Zenon DEF Spliced
  <2>2. PICK r : r = Real(v, m.PrevLogIndex)
    BY Zenon
  <2>3. IsSplice(log'[v], log[v], r, m.Entries, lastSnapshotIndex[v], m.PrevLogIndex)
    BY <2>1, <2>2, SplicedLog, Zenon
  <2>4. Len(log[v]) \in Nat /\ Len(m.Entries) \in Nat
    <3>1. m.Entries \in Seq(Entry)
      BY <2>1, MessageType, Zenon DEF AppendEntriesArgs
    <3>2. Len(m.Entries) \in Nat
      BY <3>1
    <3> QED
      BY <3>2, LogType, Zenon
  <2>5. log[v][r].Term = m.PrevLogTerm
    <3>1. CASE m.PrevLogTerm = TermAt(v, m.PrevLogIndex)
      BY <2>2, <3>1, Zenon DEF TermAt
    <3>2. CASE m.PrevLogIndex = lastSnapshotIndex[v]
      <4>1. m.PrevLogIndex = 0 /\ lastSnapshotIndex[v] = 0 /\ log[v][1].Term = 0
        BY <3>2, Zenon DEF NeverCut
      <4>2. m.PrevLogTerm = 0
        BY <2>1, <4>1, Zenon DEF NeverCut
      <4>3. r = 1
        BY <2>2, <4>1 DEF Real
      <4> QED
        BY <4>1, <4>2, <4>3, Zenon
    <3> QED
      BY <2>1, <3>1, <3>2, Zenon DEF PrevLogMatches
  <2>6. Linked(lastSnapshotIndex[v], log'[v]) \subseteq LogLinks(v) \cup SentLinks(m)
    BY <2>3, <2>4, <2>5, SpliceLinks, Zenon DEF LogLinks
  <2>7. LogLinks(v)' = Linked(lastSnapshotIndex[v], log'[v])
    BY <2>1, Zenon DEF LogLinks, Linked
  <2> QED
    BY <2>1, <2>6, <2>7, LinkMembers, Zenon
<1> QED
  BY <1>1, <1>2, <1>3, Zenon

(* A step links no entry but the one a leader starts. *)
LEMMA WriteStepLinks ==
  ASSUME TypeOK, WriteStep, NeverCut,
         \A v \in Server : LogStep(v) => Same(v) \/ Reloaded(v) \/ Spliced(v)
  PROVE  \/ AllLinks' \subseteq AllLinks
         \/ \E i \in Server : \E z :
              /\ state[i] = "LEADER" /\ z[1] = LastLogIndex(i) + 1
              /\ z[3].Term = currentTerm[i] /\ AllLinks' \subseteq AllLinks \cup {z}
<1>1. ASSUME NEW E, AllLinks \subseteq E, \A v \in Server : LogLinks(v)' \subseteq E
      PROVE  AllLinks' \subseteq E
  <2>1. ASSUME NEW v \in Server PROVE DiskLinks(v)' \subseteq E
    <3>1. DiskLinks(v)' = DiskLinks(v) \/ DiskLinks(v)' = LogLinks(v)'
      BY Zenon DEF WriteStep, DiskStep, DiskLinks, LogLinks, Linked
    <3> QED
      BY <1>1, <3>1, LinkMembers, Zenon
  <2>2. ASSUME NEW m \in InFlight', m.rpc = "AppendEntries"
        PROVE  SentLinks(m) \subseteq E
    <3>1. m \in InFlight \/ FreshRequest(m)
      BY <2>2, Zenon DEF WriteStep, RequestStep
    <3>2. CASE m \in InFlight
      BY <1>1, <2>2, <3>2, LinkMembers, Zenon
    <3>3. CASE FreshRequest(m)
      BY <1>1, <2>2, <3>3, FreshLinks, LinkMembers, Zenon
    <3> QED
      BY <3>1, <3>2, <3>3, Zenon
  <2> QED
    BY <1>1, <2>1, <2>2, LinkMembers, Zenon
<1>2. CASE \A v \in Server : LogStep(v)
  BY <1>1, <1>2, LogStepLinks, Zenon
<1>3. ASSUME NEW i \in Server, Started(i), \A v \in Server \ {i} : Same(v)
      PROVE  \E z : /\ state[i] = "LEADER" /\ z[1] = LastLogIndex(i) + 1
                    /\ z[3].Term = currentTerm[i] /\ AllLinks' \subseteq AllLinks \cup {z}
  <2>1. PICK e \in Entry : /\ e.Term = currentTerm[i]
                           /\ IsAppend(log'[i], log[i], e, lastSnapshotIndex[i])
    BY <1>3, StartedLog, Zenon
  <2>2. /\ Len(log[i]) \in Nat /\ Len(log[i]) > 0 /\ lastSnapshotIndex[i] \in Nat
        /\ lastSnapshotIndex'[i] = lastSnapshotIndex[i]
    BY <1>3, FieldTypes, LogType, Zenon DEF Started
  <2>3. PICK z : z = <<lastSnapshotIndex[i] + (Len(log[i]) + 1) - 1,
                       log[i][Len(log[i])].Term, e>>
    BY Zenon
  <2>4. z[1] = LastLogIndex(i) + 1 /\ z[3].Term = currentTerm[i]
    <3>1. z[1] = lastSnapshotIndex[i] + (Len(log[i]) + 1) - 1 /\ z[3] = e
      BY <2>3, Zenon
    <3> QED
      BY <2>1, <2>2, <3>1, LogEnds, Zenon DEF LastLogIndex
  <2>5. LogLinks(i)' \subseteq AllLinks \cup {z}
    <3>1. Linked(lastSnapshotIndex[i], log'[i]) \subseteq LogLinks(i) \cup {z}
      BY <2>1, <2>2, <2>3, AppendLinks, Zenon DEF LogLinks
    <3>2. LogLinks(i)' = Linked(lastSnapshotIndex[i], log'[i])
      BY <2>2, Zenon DEF LogLinks, Linked
    <3> QED
      BY <3>1, <3>2, LinkMembers, Zenon
  <2>6. \A v \in Server : LogLinks(v)' \subseteq AllLinks \cup {z}
    BY <1>3, <2>5, LogStepLinks, Zenon
  <2> QED
    BY <1>1, <1>3, <2>4, <2>6, Zenon DEF Started
<1> QED
  BY <1>2, <1>3, Zenon DEF WriteStep

(* At the start every log is the entry of term 0 alone. *)
LEMMA MatchInvInit == Init => MatchInv
<1> SUFFICES ASSUME Init PROVE MatchInv
  BY Zenon
<1>1. ASSUME NEW i \in Server
      PROVE  /\ log[i] = DummyLog /\ persisted[i].log = DummyLog
             /\ lastSnapshotIndex[i] = 0 /\ persisted[i].lastSnapshotIndex = 0
             /\ serving[i] = 0
  BY Zenon DEF Init
<1>2. InFlight = {}
  BY NoneInFlight, Zenon
<1>3. 2 .. Len(DummyLog) = {} /\ DummyLog[1].Term = 0 /\ 0 <= 0
  BY DEF DummyLog
<1>4. \A i \in Server : LogLinks(i) = {} /\ DiskLinks(i) = {}
  BY <1>1, <1>3, Zenon DEF LogLinks, DiskLinks, Linked
<1>5. AllLinks = {}
  BY <1>2, <1>4, LinkMembers, Zenon
<1>6. NeverCut
  BY <1>1, <1>2, <1>3, Zenon DEF NeverCut
<1> QED
  BY <1>5, <1>6, Zenon DEF MatchInv, LinksAgree

(* A set of natural numbers has a smallest one. *)
LEMMA SmallestNat ==
  ASSUME NEW T, T \subseteq Nat, T # {}
  PROVE  \E x \in T : \A y \in T : ~(y < x)
<1>1. PICK x \in T : \A y \in T : ~(<<y, x>> \in OpToRel(<, Nat))
  BY NatLessThanWellFounded, WFMin, Zenon
<1>2. ASSUME NEW y \in T, y < x PROVE FALSE
  <2>1. <<y, x>> \in Nat \X Nat /\ <<y, x>>[1] < <<y, x>>[2]
    BY <1>2, Zenon
  <2> QED
    BY <1>1, <2>1, Zenon DEF OpToRel
<1> QED
  BY <1>2, Zenon

(* The same term at a position up to k means the same entry in a and b,      *)
(* after entries of the same term                                            *)
TermsIdentify(a, b, k) ==
  \A p \in 2 .. k :
    a[p].Term = b[p].Term => a[p] = b[p] /\ a[p - 1].Term = b[p - 1].Term

(* Two logs with the same term at position k are the same from position 2 up *)
(* to k, if terms identify entries: the last difference before k would have  *)
(* one after it.                                                             *)
LEMMA PrefixesMatch ==
  ASSUME NEW a, NEW b, NEW k \in Nat, a[k].Term = b[k].Term, TermsIdentify(a, b, k)
  PROVE  \A p \in 2 .. k : a[p] = b[p]
<1> DEFINE T == {d \in Nat : d <= k - 2 /\ a[k - d] # b[k - d]}
<1>1. ASSUME T # {} PROVE FALSE
  <2>1. PICK d \in T : \A y \in T : ~(y < d)
    BY <1>1, SmallestNat, Zenon
  <2>2. d \in Nat /\ d <= k - 2 /\ a[k - d] # b[k - d]
    BY <2>1, Zenon
  <2>3. k - d \in 2 .. k
    BY <2>2
  <2>4. a[k - d].Term # b[k - d].Term
    BY <2>2, <2>3, Zenon DEF TermsIdentify
  <2>5. CASE d = 0
    <3>1. k - d = k
      BY <2>5
    <3> QED
      BY <2>4, <3>1, Zenon
  <2>6. CASE d # 0
    <3>1. /\ d - 1 \in Nat /\ d - 1 <= k - 2 /\ d - 1 < d
          /\ k - (d - 1) \in 2 .. k /\ k - (d - 1) - 1 = k - d
      BY <2>2, <2>6
    <3>2. d - 1 \notin T
      BY <2>1, <3>1, Zenon
    <3>3. a[k - (d - 1)] = b[k - (d - 1)]
      BY <3>1, <3>2, Zenon
    <3>4. a[k - (d - 1) - 1].Term = b[k - (d - 1) - 1].Term
      BY <3>1, <3>3, Zenon DEF TermsIdentify
    <3> QED
      BY <2>4, <3>1, <3>4, ZenonT(60)
  <2> QED
    BY <2>5, <2>6, Zenon
<1>2. ASSUME NEW p \in 2 .. k, a[p] # b[p] PROVE FALSE
  <2>1. k - p \in Nat /\ k - p <= k - 2 /\ k - (k - p) = p
    OBVIOUS
  <2>2. k - p \in T
    BY <1>2, <2>1, Zenon
  <2> QED
    BY <1>1, <2>2, Zenon
<1> QED
  BY <1>2, Zenon

(* Links that agree make prefixes match. *)
LEMMA LinksMatchLogs ==
  ASSUME TypeOK, NeverCut, LinksAgree
  PROVE  LogMatching
<1> SUFFICES ASSUME NEW i \in Server, NEW j \in Server,
                    NEW k \in lastSnapshotIndex[i] + 1 .. LastLogIndex(i),
                    lastSnapshotIndex[j] < k, k <= LastLogIndex(j), TermAt(i, k) = TermAt(j, k),
                    NEW n \in max(lastSnapshotIndex[i], lastSnapshotIndex[j]) + 1 .. k
             PROVE  log[i][Real(i, n)] = log[j][Real(j, n)]
  BY Zenon DEF LogMatching
<1>1. /\ lastSnapshotIndex[i] = 0 /\ lastSnapshotIndex[j] = 0
      /\ Len(log[i]) \in Nat /\ Len(log[j]) \in Nat
  BY LogType, Zenon DEF NeverCut
<1>2. /\ k + 1 \in Nat /\ k + 1 <= Len(log[i]) /\ k + 1 <= Len(log[j])
      /\ log[i][k + 1].Term = log[j][k + 1].Term
      /\ n + 1 \in 2 .. k + 1 /\ Real(i, n) = n + 1 /\ Real(j, n) = n + 1
  <2>1. /\ k \in 1 .. Len(log[i]) - 1 /\ k <= Len(log[j]) - 1
        /\ Real(i, k) = k + 1 /\ Real(j, k) = k + 1
    BY <1>1 DEF LastLogIndex, Real
  <2>2. n \in 1 .. k /\ Real(i, n) = n + 1 /\ Real(j, n) = n + 1
    BY <1>1 DEF max, Real
  <2>3. log[i][k + 1].Term = log[j][k + 1].Term
    BY <2>1, Zenon DEF TermAt
  <2>4. k + 1 \in Nat /\ k + 1 <= Len(log[i]) /\ k + 1 <= Len(log[j]) /\ n + 1 \in 2 .. k + 1
    BY <1>1, <2>1, <2>2
  <2> QED
    BY <2>2, <2>3, <2>4, Zenon
<1>3. ASSUME NEW p \in 2 .. k + 1, log[i][p].Term = log[j][p].Term
      PROVE  log[i][p] = log[j][p] /\ log[i][p - 1].Term = log[j][p - 1].Term
  <2>1. p \in 2 .. Len(log[i]) /\ p \in 2 .. Len(log[j])
    BY <1>1, <1>2
  <2>2. PICK x : x = <<0 + p - 1, log[i][p - 1].Term, log[i][p]>>
    BY Zenon
  <2>3. PICK y : y = <<0 + p - 1, log[j][p - 1].Term, log[j][p]>>
    BY Zenon
  <2>4. x \in AllLinks /\ y \in AllLinks
    <3>1. x \in LogLinks(i) /\ y \in LogLinks(j)
      BY <1>1, <2>1, <2>2, <2>3, Zenon DEF LogLinks, Linked
    <3> QED
      BY <3>1, LinkMembers, Zenon
  <2>5. /\ x[1] = y[1] /\ x[2] = log[i][p - 1].Term /\ x[3] = log[i][p]
        /\ y[2] = log[j][p - 1].Term /\ y[3] = log[j][p]
    BY <2>2, <2>3, Zenon
  <2>6. x = y
    BY <1>3, <2>4, <2>5, Zenon DEF LinksAgree
  <2> QED
    BY <2>5, <2>6, Zenon
<1>4. \A p \in 2 .. k + 1 : log[i][p] = log[j][p]
  <2>1. TermsIdentify(log[i], log[j], k + 1)
    BY <1>3, Zenon DEF TermsIdentify
  <2> QED
    BY <1>2, <2>1, PrefixesMatch, Zenon
<1> QED
  BY <1>2, <1>4, Zenon
=============================================================================
