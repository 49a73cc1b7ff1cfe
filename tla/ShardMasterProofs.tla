------------------------- MODULE ShardMasterProofs -------------------------
(***************************************************************************)
(* For any number of servers, clerks, groups, requests and faults: the     *)
(* servers of the shard master make the same groups in the same order, no  *)
(* Query is answered with a configuration older than what was known when   *)
(* it was called, and a server is STABLE when no change is under way.      *)
(* How adjustConfig distributes the shards plays no part.                  *)
(***************************************************************************)
EXTENDS ShardMaster, SequenceTheorems, TLAPS

Method == {"Join", "Leave", "Move", "Query"}
Place == {"check", "start", "started", "waiting", "remove", "finish", "done", "gone"}
Op == UNION {OpOf(c, <<c, j>>) : c \in Client, j \in Nat}
HandlerType == [server : Server, op : Op, at : Place, num : Nat,
                err : {"OK", "ErrWrongLeader", "ErrTimeOut"}]

IsList(q) == \E S : q \in Seq(S)

(* The counts of a log of N entries run from 0 to N. *)
LEMMA CountsTo ==
  ASSUME NEW N \in Nat
  PROVE  0 \in 0 .. N /\ N \in 0 .. N /\ \A n \in 0 .. N : n <= N
  OBVIOUS

(* A positive count up to K is the number of a configuration, and 1 is one. *)
LEMMA NumbersTo ==
  ASSUME NEW K \in Nat \ {0}
  PROVE  1 \in 1 .. K /\ \A x \in Nat \ {0} : x <= K => x \in 1 .. K
  OBVIOUS

(* What is at most something smaller than K is smaller than K. *)
LEMMA BelowBound ==
  ASSUME NEW a \in Nat, NEW b \in Nat, NEW K \in Nat, a <= b, b < K
  PROVE  a < K
  OBVIOUS

(* A number below a bound is at most the predecessor of what the bound is   *)
(* at most.                                                                 *)
LEMMA AtMostLast ==
  ASSUME NEW a \in Nat, NEW b \in Nat, NEW K \in Nat, a < b, b <= K
  PROVE  a <= K - 1
  OBVIOUS

LogShape == log \in Seq(Nat) /\ \A n \in 1 .. Len(log) : log[n] \in Request

ServerShape ==
  /\ applied \in [Server -> 0 .. Len(log)]
  /\ state \in [Server -> {"STABLE", "TRANSITION", "FREEZE"}]
  /\ DOMAIN lastApplies = Server /\ DOMAIN sending = Server /\ DOMAIN configs = Server
  /\ \A s \in Server : IsList(configs[s])

(* The operation of a request is the latest of its clerk, or an older one *)
Numbered(o) == \E j \in 0 .. count[o.client] : o.id = <<o.client, j>>

ClerkShape ==
  /\ count \in [Client -> Nat] /\ floor \in [Client -> Nat] /\ known \in Nat
  /\ DOMAIN op = Client /\ DOMAIN call = Client
  /\ \A c \in Client : op[c] # None => op[c] \in OpOf(c, <<c, count[c]>>)
  /\ \A c \in Client : call[c] # None =>
       call[c] \in Request /\ op[c] # None /\ handler[call[c]].op = op[c]
  /\ \A r \in Request : Numbered(handler[r].op)

Shape == LogShape /\ ServerShape /\ handler \in Seq(HandlerType) /\ ClerkShape

-----------------------------------------------------------------------------
(* What the log makes of the configurations: after n commands there are k[n] *)
(* of them, number i has the groups G[i], and last[n] is lastApplies.        *)

Change(groups, o) ==
  CASE o.method = "Join" -> groups \cup o.gids
    [] o.method = "Leave" -> groups \ o.gids
    [] o.method = "Move" -> groups

Follows(G, k, last, n, o) ==
  /\ last[n] = [last[n - 1] EXCEPT ![o.client] = o.id]
  /\ IF o.method = "Query" \/ last[n - 1][o.client] = o.id THEN k[n] = k[n - 1]
     ELSE k[n] = k[n - 1] + 1 /\ G[k[n]] = Change(G[k[n - 1]], o)

(* Server s has made the first j configurations *)
Made(s, G, j) ==
  /\ Len(configs[s]) = j
  /\ \A i \in 1 .. j : configs[s][i].num = i - 1 /\ configs[s][i].groups = G[i]

Ledger(G, k, last) ==
  /\ k \in [0 .. Len(log) -> Nat \ {0}] /\ k[0] = 1
  /\ G[1] = {} /\ last[0] = [c \in Client |-> None]
  /\ \A m, n \in 0 .. Len(log) : m <= n => k[m] <= k[n]
  /\ \A n \in 1 .. Len(log) : Follows(G, k, last, n, handler[log[n]].op)
  /\ \A s \in Server : Made(s, G, k[applied[s]]) /\ lastApplies[s] = last[applied[s]]

-----------------------------------------------------------------------------
(* Where the number in an answer comes from *)

Applied(s, r) == \E n \in 1 .. applied[s] : log[n] = r

(* Nobody knows of a configuration that the log does not have. A command of  *)
(* the operation a clerk is at was committed after what was known then.      *)
Fresh(k) ==
  /\ known < k[Len(log)]
  /\ \A c \in Client : floor[c] <= known
  /\ \A r \in Request : handler[r].num < k[Len(log)]
  /\ \A c \in Client : \A n \in 1 .. Len(log) :
       op[c] # None /\ handler[log[n]].op = op[c] => floor[c] < k[n - 1]

(* A handler that has an answer has it from the log *)
Answered ==
  /\ \A s \in Server : sending[s] # None => Applied(s, sending[s])
  /\ \A r \in Request : handler[r].at \in {"remove", "finish"} /\ handler[r].err = "OK" =>
       Applied(On(r), r)

IInv ==
  /\ Shape /\ Answered /\ QueryIsFresh
  /\ \E G, k, last : Ledger(G, k, last) /\ Fresh(k)

-----------------------------------------------------------------------------
(* The shapes *)

(* An operation names its clerk, its number and its method *)
LEMMA OpFields ==
  ASSUME NEW c, NEW id, NEW o \in OpOf(c, id)
  PROVE  o.client = c /\ o.id = id /\ o.method \in Method
  BY DEF OpOf, Method

(* The operation of a handler is one of a clerk *)
LEMMA OpShape ==
  ASSUME NEW o \in Op
  PROVE  o.client \in Client /\ o.method \in Method
<1>1. PICK c \in Client, j \in Nat : o \in OpOf(c, <<c, j>>)
  BY DEF Op
<1> QED BY <1>1, OpFields, Zenon

(* The numbers of configurations that the clerks compare are ordered *)
LEMMA AtMost ==
  ASSUME NEW a \in Nat, NEW b \in Nat, NEW e \in Nat, a <= b, b <= e
  PROVE  a <= e
  OBVIOUS

(* What Append does to a sequence of anything *)
LEMMA AppendSeq ==
  ASSUME NEW q, IsList(q), NEW e
  PROVE  /\ IsList(Append(q, e)) /\ Len(q) \in Nat /\ Len(Append(q, e)) = Len(q) + 1
         /\ Append(q, e)[Len(q) + 1] = e
         /\ \A i \in 1 .. Len(q) : Append(q, e)[i] = q[i]
<1>1. PICK S : q \in Seq(S)
  BY DEF IsList
<1>2. PICK T : T = S \cup {e}
  BY Zenon
<1>3. q \in Seq(T) /\ e \in T /\ Len(q) \in Nat
  BY <1>1, <1>2, LenProperties
<1>4. Append(q, e) \in Seq(T)
  BY <1>3, AppendProperties
<1>5. IsList(Append(q, e))
  BY <1>4, Zenon DEF IsList
<1>6. /\ Len(Append(q, e)) = Len(q) + 1 /\ Append(q, e)[Len(q) + 1] = e
      /\ \A i \in 1 .. Len(q) : Append(q, e)[i] = q[i]
  BY <1>3, AppendProperties
<1> QED BY <1>3, <1>5, <1>6, Zenon

(* The handlers after one of them goes on: the requests are the same *)
LEMMA HandlerSet ==
  ASSUME handler \in Seq(HandlerType), NEW r \in Request, NEW x \in HandlerType,
         handler' = [handler EXCEPT ![r] = x]
  PROVE  /\ handler' \in Seq(HandlerType) /\ Request' = Request /\ handler'[r] = x
         /\ \A q \in Request : q # r => handler'[q] = handler[q]
<1>1. /\ Len(handler) \in Nat /\ DOMAIN handler = 1 .. Len(handler)
      /\ \A q \in 1 .. Len(handler) : handler[q] \in HandlerType
  BY LenProperties, ElementOfSeq
<1>2. handler' \in [1 .. Len(handler) -> HandlerType]
  BY <1>1 DEF Request
<1>3. handler' \in Seq(HandlerType) /\ Len(handler') = Len(handler)
  BY <1>1, <1>2, LenProperties
<1> QED BY <1>1, <1>3 DEF Request

(* A handler has the fields of its type *)
LEMMA HandlerFields ==
  ASSUME handler \in Seq(HandlerType), NEW r \in Request
  PROVE  /\ handler[r] \in HandlerType /\ On(r) \in Server /\ handler[r].op \in Op
         /\ handler[r].num \in Nat /\ Len(handler) \in Nat
<1>1. handler[r] \in HandlerType
  BY ElementOfSeq DEF Request
<1>2. Len(handler) \in Nat
  BY LenProperties
<1> QED BY <1>1, <1>2 DEF HandlerType, On

(* A handler that goes to another place *)
LEMMA GoToSet ==
  ASSUME handler \in Seq(HandlerType), NEW r \in Request, NEW at \in Place, GoTo(r, at)
  PROVE  handler' = [handler EXCEPT ![r] = [handler[r] EXCEPT !.at = at]]
         /\ [handler[r] EXCEPT !.at = at] \in HandlerType
<1>1. handler[r] \in HandlerType
  BY HandlerFields
<1>2. [handler[r] EXCEPT !.at = at] \in HandlerType
  BY <1>1, Zenon DEF HandlerType
<1> QED BY <1>2 DEF GoTo

-----------------------------------------------------------------------------
(* The ledger *)

(* Steps that neither commit nor apply keep it *)
LEMMA LedgerKept ==
  ASSUME LogShape, NEW G, NEW k, NEW last, Ledger(G, k, last),
         UNCHANGED <<log, configs, lastApplies, applied>>,
         \A q \in Request : handler'[q].op = handler[q].op
  PROVE  Ledger(G, k, last)'
<1>1. \A n \in 1 .. Len(log) : handler'[log[n]].op = handler[log[n]].op
  BY DEF LogShape
<1>2. \A s \in Server : Made(s, G, k[applied[s]])' <=> Made(s, G, k[applied[s]])
  BY DEF Made
<1>3. \A n \in 1 .. Len(log) : Follows(G, k, last, n, handler'[log[n]].op)
  BY <1>1, Zenon DEF Ledger
<1> QED BY <1>2, <1>3, Zenon DEF Ledger

(* A command is committed: the ledger goes on with it *)
LEMMA LedgerCommit ==
  ASSUME Shape, NEW G, NEW k, NEW last, Ledger(G, k, last), Fresh(k), NEW r \in Request,
         log' = Append(log, r),
         UNCHANGED <<handler, configs, lastApplies, applied, known, floor, op>>
  PROVE  \E H, j, l : Ledger(H, j, l)' /\ Fresh(j)'
<1>1. PICK N \in Nat : N = Len(log)
  BY LenProperties DEF Shape, LogShape
<1>2. PICK o : o = handler[r].op
  OBVIOUS
<1>3. /\ Len(log') = N + 1 /\ log'[N + 1] = r /\ \A n \in 1 .. N : log'[n] = log[n]
  <2>1. r \in Nat
    BY LenProperties DEF Shape, Request
  <2> QED BY <1>1, <2>1, AppendProperties DEF Shape, LogShape
<1>4. /\ k \in [0 .. N -> Nat \ {0}] /\ k[0] = 1 /\ G[1] = {} /\ last[0] = [c \in Client |-> None]
      /\ \A m, n \in 0 .. N : m <= n => k[m] <= k[n]
      /\ \A n \in 1 .. N : Follows(G, k, last, n, handler[log[n]].op)
      /\ \A s \in Server : Made(s, G, k[applied[s]]) /\ lastApplies[s] = last[applied[s]]
  BY <1>1, Zenon DEF Ledger
<1>5. PICK K \in Nat \ {0} : K = k[N]
  BY <1>4
<1>6. PICK same \in BOOLEAN : same <=> (o.method = "Query" \/ last[N][o.client] = o.id)
  BY Zenon
<1> DEFINE j == [n \in 0 .. N + 1 |->
                   IF n <= N THEN k[n] ELSE IF same THEN K ELSE K + 1]
           H == [i \in Nat |-> IF i <= K THEN G[i] ELSE Change(G[K], o)]
           l == [n \in 0 .. N + 1 |->
                   IF n <= N THEN last[n] ELSE [last[N] EXCEPT ![o.client] = o.id]]
<1>7. /\ j \in [0 .. N + 1 -> Nat \ {0}] /\ \A n \in 0 .. N : j[n] = k[n]
      /\ j[N + 1] = IF same THEN K ELSE K + 1
  BY <1>4
<1>8. \A i \in 1 .. K : H[i] = G[i]
  OBVIOUS
<1>9. H[K + 1] = Change(G[K], o)
  OBVIOUS
<1>10. /\ \A n \in 0 .. N : l[n] = last[n]
       /\ l[N + 1] = [last[N] EXCEPT ![o.client] = o.id]
  OBVIOUS
<1> HIDE DEF j, H, l
<1>11. \A n \in 0 .. N : k[n] \in 1 .. K
  <2>1. \A n \in 0 .. N : k[n] \in Nat \ {0} /\ k[n] <= K
    BY <1>4, <1>5, CountsTo, Zenon
  <2> QED BY <1>5, <2>1, NumbersTo, Zenon
<1>12. \A m, n \in 0 .. N + 1 : m <= n => j[m] <= j[n]
  <2> SUFFICES ASSUME NEW m \in 0 .. N + 1, NEW n \in 0 .. N + 1, m <= n PROVE j[m] <= j[n]
    OBVIOUS
  <2>1. CASE n \in 0 .. N
    BY <1>4, <1>7, <2>1
  <2>2. CASE n = N + 1 /\ m \in 0 .. N
    BY <1>7, <1>11, <2>2
  <2>3. CASE m = N + 1
    BY <1>7, <2>3
  <2> QED BY <2>1, <2>2, <2>3
<1>13. ASSUME NEW n \in 1 .. N + 1 PROVE Follows(H, j, l, n, handler[log'[n]].op)
  <2>1. CASE n \in 1 .. N
    <3>1. n \in 0 .. N /\ n - 1 \in 0 .. N
      BY <2>1
    <3>2. /\ j[n] = k[n] /\ j[n - 1] = k[n - 1] /\ l[n] = last[n] /\ l[n - 1] = last[n - 1]
          /\ H[k[n]] = G[k[n]] /\ H[k[n - 1]] = G[k[n - 1]]
      BY <1>7, <1>8, <1>10, <1>11, <3>1, Zenon
    <3>3. Follows(G, k, last, n, handler[log[n]].op) /\ log'[n] = log[n]
      BY <1>3, <1>4, <2>1, Zenon
    <3> QED BY <3>2, <3>3 DEF Follows
  <2>2. CASE n = N + 1
    <3>1. n - 1 = N /\ N \in 0 .. N /\ K \in 1 .. K
      BY <2>2
    <3>2. j[n - 1] = K /\ l[n - 1] = last[N] /\ H[K] = G[K] /\ handler[log'[n]].op = o
      BY <1>2, <1>3, <1>5, <1>7, <1>8, <1>10, <2>2, <3>1, Zenon
    <3>3. l[n] = [l[n - 1] EXCEPT ![o.client] = o.id]
      BY <1>10, <2>2, <3>2, Zenon
    <3>4. CASE same
      BY <1>6, <1>7, <2>2, <3>2, <3>3, <3>4, Zenon DEF Follows
    <3>5. CASE ~same
      BY <1>6, <1>7, <1>9, <2>2, <3>2, <3>3, <3>5, ZenonT(40) DEF Follows
    <3> QED BY <3>4, <3>5, Zenon
  <2>3. n \in 1 .. N \/ n = N + 1
    OBVIOUS
  <2> QED BY <2>1, <2>2, <2>3, ZenonT(40)
<1>14. ASSUME NEW s \in Server
       PROVE  Made(s, H, j[applied[s]])' /\ lastApplies'[s] = l[applied'[s]]
  <2>1. applied[s] \in 0 .. N
    BY <1>1 DEF Shape, ServerShape
  <2>2. PICK i \in 1 .. K : i = k[applied[s]] /\ i = j[applied[s]]
    BY <1>7, <1>11, <2>1, Zenon
  <2>3. Made(s, G, i) /\ lastApplies[s] = last[applied[s]]
    BY <1>4, <2>2, Zenon
  <2>4. Made(s, H, i)
    BY <1>8, <2>3 DEF Made
  <2>5. Made(s, H, j[applied[s]])'
    BY <2>2, <2>4 DEF Made
  <2> QED BY <1>10, <2>1, <2>3, <2>5
<1>15. Ledger(H, j, l)'
  <2>1. j[0] = 1 /\ H[1] = {} /\ l[0] = [c \in Client |-> None]
    BY <1>4, <1>5, <1>7, <1>8, <1>10, CountsTo, NumbersTo, Zenon
  <2> QED BY <1>3, <1>7, <1>12, <1>13, <1>14, <2>1, Zenon DEF Ledger
<1>16. Fresh(j)'
  <2>1. /\ known < K /\ \A c \in Client : floor[c] <= known
        /\ \A q \in Request : handler[q].num < K
        /\ \A c \in Client : \A n \in 1 .. N :
             op[c] # None /\ handler[log[n]].op = op[c] => floor[c] < k[n - 1]
    BY <1>1, <1>5, Zenon DEF Fresh
  <2>2. known \in Nat /\ \A c \in Client : floor[c] \in Nat
    BY DEF Shape, ClerkShape
  <2>3. \A q \in Request : handler[q].num \in Nat
    BY HandlerFields DEF Shape
  <2>4. \A x \in Nat : x < K => x < j[N + 1]
    BY <1>7
  <2>5. known < j[N + 1] /\ \A q \in Request : handler[q].num < j[N + 1]
    BY <2>1, <2>2, <2>3, <2>4, Zenon
  <2>6. ASSUME NEW c \in Client, NEW n \in 1 .. N + 1, op[c] # None, handler[log'[n]].op = op[c]
        PROVE  floor[c] < j[n - 1]
    <3>1. CASE n \in 1 .. N
      BY <1>3, <1>7, <2>1, <2>6, <3>1
    <3>2. CASE n = N + 1
      <4>1. n - 1 = N
        BY <3>2
      <4>2. j[N] = K
        BY <1>5, <1>7, CountsTo, Zenon
      <4>3. floor[c] < K
        BY <1>5, <2>1, <2>2, BelowBound, Zenon
      <4> QED BY <4>1, <4>2, <4>3, Zenon
    <3> QED BY <3>1, <3>2
  <2> QED BY <1>3, <2>1, <2>5, <2>6, Zenon DEF Fresh, Request
<1> QED BY <1>15, <1>16, Zenon

(* The number and the groups of the next configuration *)
LEMMA NextFields ==
  ASSUME NEW old, NEW groups, NEW S, NEW next \in NextConfig(old, groups, S)
  PROVE  next.num = old.num + 1 /\ next.groups = groups
  BY DEF NextConfig

(* join, leave and move number the next configuration and give it its groups *)
LEMMA ResultFields ==
  ASSUME NEW s, NEW o, o.method \in Method \ {"Query"}, NEW next \in Results(s, o)
  PROVE  next.num = Latest(s).num + 1 /\ next.groups = Change(Latest(s).groups, o)
<1>1. PICK old : old = Latest(s)
  OBVIOUS
<1>2. PICK S : next \in NextConfig(old, Change(old.groups, o), S)
  <2>1. CASE o.method = "Join"
    BY <1>1, <2>1 DEF Results, Change, join
  <2>2. CASE o.method = "Leave"
    BY <1>1, <2>2 DEF Results, Change, leave
  <2>3. CASE o.method = "Move"
    BY <1>1, <2>3 DEF Results, Change, move
  <2> QED BY <2>1, <2>2, <2>3 DEF Method
<1>3. next.num = old.num + 1 /\ next.groups = Change(old.groups, o)
  BY <1>2, NextFields
<1> QED BY <1>1, <1>3

(* apply: the server makes of the next command what the ledger has for it *)
LEMMA LedgerApply ==
  ASSUME Shape, NEW G, NEW k, NEW last, Ledger(G, k, last), NEW s \in Server, apply(s)
  PROVE  ServerShape' /\ Ledger(G, k, last)'
<1>1. PICK N \in Nat : N = Len(log)
  BY LenProperties, Zenon DEF Shape, LogShape
<1>2. PICK n \in 1 .. N : n = applied[s] + 1
  BY <1>1 DEF apply, Shape, ServerShape
<1>3. n - 1 = applied[s] /\ n - 1 \in 0 .. N
  BY <1>1, <1>2 DEF Shape, ServerShape
<1>4. PICK o : o = handler[log[n]].op
  OBVIOUS
<1>5. o.client \in Client /\ o.method \in Method
  <2>1. log[n] \in Request
    BY <1>1 DEF Shape, LogShape
  <2>2. o \in Op
    BY <1>4, <2>1, HandlerFields DEF Shape
  <2> QED BY <2>2, OpShape
<1>6. /\ applied' = [applied EXCEPT ![s] = n]
      /\ IF o.method = "Query" \/ CheckApplied(s, o) THEN UNCHANGED configs
         ELSE \E next \in Results(s, o) : configs' = [configs EXCEPT ![s] = Append(@, next)]
      /\ lastApplies' = [lastApplies EXCEPT ![s][o.client] = o.id]
      /\ sending' = [sending EXCEPT ![s] = IF log[n] \in notifyData[s] THEN log[n] ELSE None]
      /\ UNCHANGED <<log, state, handler>>
  BY <1>2, <1>4, Zenon DEF apply, raftVars, Added
<1>7. PICK K \in Nat \ {0} : K = k[n - 1]
  BY <1>1, <1>3, Zenon DEF Ledger
<1>8. /\ Follows(G, k, last, n, o) /\ Made(s, G, K) /\ lastApplies[s] = last[n - 1]
      /\ IsList(configs[s])
  BY <1>1, <1>3, <1>4, <1>7, Zenon DEF Ledger, Shape, ServerShape
<1>9. /\ DOMAIN configs = Server /\ DOMAIN applied = Server /\ DOMAIN lastApplies = Server
      /\ DOMAIN sending = Server
  BY DEF Shape, ServerShape
<1>10. /\ applied'[s] = n /\ lastApplies'[s] = [lastApplies[s] EXCEPT ![o.client] = o.id]
       /\ \A t \in Server \ {s} : applied'[t] = applied[t] /\ lastApplies'[t] = lastApplies[t]
       /\ DOMAIN applied' = Server /\ DOMAIN lastApplies' = Server /\ DOMAIN sending' = Server
  BY <1>6, <1>9
<1>11. applied' \in [Server -> 0 .. N]
  BY <1>1, <1>6 DEF Shape, ServerShape
<1>12. /\ DOMAIN configs' = Server /\ \A t \in Server \ {s} : configs'[t] = configs[t]
       /\ IsList(configs'[s]) /\ Made(s, G, k[n])'
  <2>1. CASE o.method = "Query" \/ CheckApplied(s, o)
    <3>1. k[n] = K /\ UNCHANGED configs
      BY <1>6, <1>7, <1>8, <2>1, Zenon DEF Follows, CheckApplied
    <3> QED BY <1>8, <1>9, <3>1, Zenon DEF Made
  <2>2. CASE ~(o.method = "Query" \/ CheckApplied(s, o))
    <3>1. PICK next \in Results(s, o) : configs' = [configs EXCEPT ![s] = Append(@, next)]
      BY <1>6, <2>2, Zenon
    <3>2. k[n] = K + 1 /\ G[K + 1] = Change(G[K], o)
      BY <1>7, <1>8, <2>2, Zenon DEF Follows, CheckApplied
    <3>3. /\ configs'[s] = Append(configs[s], next) /\ DOMAIN configs' = Server
          /\ \A t \in Server \ {s} : configs'[t] = configs[t]
      BY <1>9, <3>1, Zenon
    <3>4. Len(configs[s]) = K /\ K \in 1 .. K
      BY <1>8 DEF Made
    <3>5. Latest(s).num = K - 1 /\ Latest(s).groups = G[K]
      BY <1>8, <3>4, Zenon DEF Made, Latest
    <3>6. o.method \in Method \ {"Query"}
      BY <1>5, <2>2, Zenon
    <3>7. next.num = K /\ next.groups = G[K + 1]
      <4>1. next.num = Latest(s).num + 1 /\ next.groups = Change(Latest(s).groups, o)
        BY <3>6, ResultFields, Zenon
      <4> QED BY <3>2, <3>5, <4>1
    <3>8. /\ IsList(configs'[s]) /\ Len(configs'[s]) = K + 1 /\ configs'[s][K + 1] = next
          /\ \A i \in 1 .. K : configs'[s][i] = configs[s][i]
      <4>1. PICK q : q = configs[s]
        OBVIOUS
      <4>2. /\ IsList(Append(q, next)) /\ Len(Append(q, next)) = Len(q) + 1
            /\ Append(q, next)[Len(q) + 1] = next
            /\ \A i \in 1 .. Len(q) : Append(q, next)[i] = q[i]
        <5>1. IsList(q)
          BY <1>8, <4>1
        <5> QED BY <5>1, AppendSeq
      <4> QED BY <3>3, <3>4, <4>1, <4>2, Zenon
    <3>9. \A i \in 1 .. K + 1 : configs'[s][i].num = i - 1 /\ configs'[s][i].groups = G[i]
      <4>1. \A i \in 1 .. K : configs[s][i].num = i - 1 /\ configs[s][i].groups = G[i]
        BY <1>8, Zenon DEF Made
      <4>2. \A i \in 1 .. K + 1 : i \in 1 .. K \/ (i = K + 1 /\ i - 1 = K)
        OBVIOUS
      <4> QED BY <3>7, <3>8, <4>1, <4>2, ZenonT(40)
    <3> QED BY <3>2, <3>3, <3>8, <3>9, Zenon DEF Made
  <2> QED BY <2>1, <2>2, Zenon
<1>13. ServerShape'
  <2>1. \A t \in Server : IsList(configs'[t])
    BY <1>12, Zenon DEF Shape, ServerShape
  <2>2. state' \in [Server -> {"STABLE", "TRANSITION", "FREEZE"}] /\ Len(log') = N
    BY <1>1, <1>6 DEF Shape, ServerShape
  <2> QED BY <1>10, <1>11, <1>12, <2>1, <2>2, Zenon DEF ServerShape
<1>14. ASSUME NEW t \in Server
       PROVE  Made(t, G, k[applied[t]])' /\ lastApplies'[t] = last[applied'[t]]
  <2>1. CASE t = s
    <3>1. lastApplies'[s] = last[n]
      BY <1>8, <1>10, ZenonT(40) DEF Follows
    <3> QED BY <1>10, <1>12, <2>1, <3>1
  <2>2. CASE t # s
    <3>1. Made(t, G, k[applied[t]]) /\ lastApplies[t] = last[applied[t]]
      BY Zenon DEF Ledger
    <3> QED BY <1>10, <1>12, <2>2, <3>1, Zenon DEF Made
  <2> QED BY <2>1, <2>2, Zenon
<1>15. Ledger(G, k, last)'
  BY <1>6, <1>14, Zenon DEF Ledger
<1> QED BY <1>13, <1>15

(* make([]Config, 1) *)
LEMMA OneSeq ==
  ASSUME NEW z
  PROVE  IsList(<<z>>) /\ Len(<<z>>) = 1 /\ <<z>>[1] = z
<1>1. <<z>> \in Seq({z})
  OBVIOUS
<1>2. IsList(<<z>>)
  BY <1>1, Zenon DEF IsList
<1>3. Len(<<z>>) = 1 /\ <<z>>[1] = z
  OBVIOUS
<1> QED BY <1>2, <1>3

(* A server that starts again has made configuration 0 *)
LEMMA LedgerRestart ==
  ASSUME Shape, NEW G, NEW k, NEW last, Ledger(G, k, last), NEW s \in Server,
         configs' = [configs EXCEPT ![s] = <<NoConfig>>],
         lastApplies' = [lastApplies EXCEPT ![s] = [c \in Client |-> None]],
         applied' = [applied EXCEPT ![s] = 0], log' = log,
         \A q \in Request : handler'[q].op = handler[q].op
  PROVE  Ledger(G, k, last)' /\ \A t \in Server : IsList(configs'[t])
<1>1. DOMAIN configs = Server /\ DOMAIN applied = Server /\ DOMAIN lastApplies = Server
  BY Zenon DEF Shape, ServerShape
<1>2. /\ configs'[s] = <<NoConfig>> /\ applied'[s] = 0
      /\ lastApplies'[s] = [c \in Client |-> None]
      /\ \A t \in Server \ {s} : /\ configs'[t] = configs[t] /\ applied'[t] = applied[t]
                                 /\ lastApplies'[t] = lastApplies[t]
  BY <1>1, Zenon
<1>3. NoConfig.num = 0 /\ NoConfig.groups = {}
  BY DEF NoConfig
<1>4. PICK z : z = NoConfig
  OBVIOUS
<1>5. PICK q : q = <<z>> /\ IsList(q) /\ Len(q) = 1 /\ q[1] = z
  BY OneSeq, Zenon
<1>6. k[0] = 1 /\ G[1] = {} /\ last[0] = [c \in Client |-> None]
  BY DEF Ledger
<1>7. Made(s, G, k[applied[s]])'
  <2>1. Len(configs'[s]) = 1 /\ configs'[s][1].num = 0 /\ configs'[s][1].groups = G[1]
    <3>1. configs'[s] = q /\ z.num = 0 /\ z.groups = {}
      BY <1>2, <1>3, <1>4, <1>5, Zenon
    <3> QED BY <1>5, <1>6, <3>1, Zenon
  <2>2. k[applied'[s]] = 1 /\ \A i \in 1 .. 1 : i = 1 /\ i - 1 = 0
    BY <1>2, <1>6
  <2> QED BY <2>1, <2>2 DEF Made
<1>8. ASSUME NEW t \in Server
      PROVE  /\ Made(t, G, k[applied[t]])' /\ lastApplies'[t] = last[applied'[t]]
             /\ IsList(configs'[t])
  <2>1. CASE t = s
    <3>1. IsList(configs'[s])
      <4>1. configs'[s] = q
        BY <1>2, <1>4, <1>5
      <4> QED BY <1>5, <4>1, Zenon
    <3>2. lastApplies'[s] = last[applied'[s]]
      BY <1>2, <1>6, Zenon
    <3> QED BY <1>7, <2>1, <3>1, <3>2, Zenon
  <2>2. CASE t # s
    <3>1. /\ Made(t, G, k[applied[t]]) /\ lastApplies[t] = last[applied[t]]
          /\ IsList(configs[t])
      BY Zenon DEF Ledger, Shape, ServerShape
    <3> QED BY <1>2, <2>2, <3>1 DEF Made
  <2> QED BY <2>1, <2>2
<1>9. \A n \in 1 .. Len(log) : handler'[log[n]].op = handler[log[n]].op
  BY DEF Shape, LogShape
<1>10. \A n \in 1 .. Len(log) : Follows(G, k, last, n, handler'[log[n]].op)
  BY <1>9, Zenon DEF Ledger
<1> QED BY <1>8, <1>10, Zenon DEF Ledger

-----------------------------------------------------------------------------
(* The answers *)

(* The configurations of a server have the numbers the log gave them *)
LEMMA NumBound ==
  ASSUME Shape, NEW G, NEW k, NEW last, Ledger(G, k, last), NEW s \in Server
  PROVE  /\ Len(configs[s]) \in Nat \ {0} /\ Len(configs[s]) = k[applied[s]]
         /\ Len(configs[s]) <= k[Len(log)] /\ k[Len(log)] \in Nat
         /\ \A i \in 1 .. Len(configs[s]) : configs[s][i].num = i - 1
<1>1. PICK N \in Nat : N = Len(log)
  BY LenProperties DEF Shape, LogShape
<1>2. applied[s] \in 0 .. N /\ N \in 0 .. N
  BY <1>1 DEF Shape, ServerShape
<1>3. /\ k \in [0 .. N -> Nat \ {0}] /\ Made(s, G, k[applied[s]])
      /\ \A m, n \in 0 .. N : m <= n => k[m] <= k[n]
  BY <1>1, Zenon DEF Ledger
<1>4. k[applied[s]] <= k[N] /\ k[applied[s]] \in Nat \ {0} /\ k[N] \in Nat
  BY <1>2, <1>3
<1> QED BY <1>1, <1>3, <1>4, Zenon DEF Made

(* A server that has applied the command of a request has made all that was  *)
(* known when its operation began.                                           *)
LEMMA AnswerFresh ==
  ASSUME Shape, NEW G, NEW k, NEW last, Ledger(G, k, last), Fresh(k),
         NEW s \in Server, NEW r \in Request, Applied(s, r), NEW c \in Client, call[c] = r
  PROVE  floor[c] <= Latest(s).num
<1>1. PICK N \in Nat : N = Len(log)
  BY LenProperties DEF Shape, LogShape
<1>2. PICK n \in 1 .. applied[s] : log[n] = r
  BY DEF Applied
<1>3. applied[s] \in 0 .. N
  BY <1>1 DEF Shape, ServerShape
<1>4. n \in 1 .. N /\ n - 1 \in 0 .. N /\ n - 1 <= applied[s]
  BY <1>3
<1>5. r # None
  <2>1. r \in Nat
    BY LenProperties DEF Shape, Request
  <2> QED BY <2>1, NoneIsNoRequest
<1>6. op[c] # None /\ handler[r].op = op[c]
  BY <1>5, Zenon DEF Shape, ClerkShape
<1>7. floor[c] < k[n - 1]
  BY <1>1, <1>2, <1>4, <1>6, Zenon DEF Fresh
<1>8. k \in [0 .. N -> Nat \ {0}] /\ k[n - 1] <= k[applied[s]]
  BY <1>1, <1>3, <1>4, Zenon DEF Ledger
<1>9. floor[c] \in Nat
  BY DEF Shape, ClerkShape
<1>10. Len(configs[s]) \in Nat \ {0} /\ Len(configs[s]) = k[applied[s]]
       /\ \A i \in 1 .. Len(configs[s]) : configs[s][i].num = i - 1
  BY NumBound, Zenon
<1>11. Latest(s).num = Len(configs[s]) - 1
  BY <1>10 DEF Latest
<1>12. k[n - 1] \in Nat /\ Len(configs[s]) \in Nat /\ k[n - 1] <= Len(configs[s])
  BY <1>4, <1>8, <1>10, Zenon
<1> QED BY <1>7, <1>9, <1>11, <1>12, AtMostLast, Zenon

(* Nothing new is known, and no operation begins *)
LEMMA FreshKept ==
  ASSUME LogShape, NEW k, Fresh(k), UNCHANGED <<log, known, floor, op>>, Request' = Request,
         \A q \in Request : handler'[q].op = handler[q].op /\ handler'[q].num < k[Len(log)]
  PROVE  Fresh(k)'
<1>1. \A n \in 1 .. Len(log) : handler'[log[n]].op = handler[log[n]].op
  BY Zenon DEF LogShape
<1> QED BY <1>1, Zenon DEF Fresh

(* A handler goes on: its answer, if it has one, is from the log. Another    *)
(* configuration's number is as old as one that is there.                    *)
LEMMA HandlerStep ==
  ASSUME IInv, NEW r \in Request, NEW x \in HandlerType, handler' = [handler EXCEPT ![r] = x],
         x.op = handler[r].op, x.server = handler[r].server,
         UNCHANGED <<log, configs, lastApplies, applied, clerkVars>>,
         state' \in [Server -> {"STABLE", "TRANSITION", "FREEZE"}],
         DOMAIN sending' = Server,
         \A s \in Server : sending'[s] = sending[s] \/ sending'[s] = None,
         \/ x.num = handler[r].num
         \/ \E s \in Server : \E i \in 1 .. Len(configs[s]) : x.num = configs[s][i].num,
         x.at \in {"remove", "finish"} /\ x.err = "OK" => Applied(On(r), r),
         x.at = "done" /\ x.err = "OK" /\ x.op.method = "Query" /\ x.op.num = -1 =>
           \A c \in Client : call[c] = r => floor[c] <= x.num
  PROVE  IInv'
<1>1. PICK G, k, last : Ledger(G, k, last) /\ Fresh(k)
  BY Zenon DEF IInv
<1>2. Shape
  BY DEF IInv
<1>3. /\ handler' \in Seq(HandlerType) /\ Request' = Request /\ handler'[r] = x
      /\ \A q \in Request : q # r => handler'[q] = handler[q]
  BY <1>2, HandlerSet, Zenon DEF Shape
<1>4. \A q \in Request : /\ handler'[q].op = handler[q].op
                         /\ handler'[q].server = handler[q].server
  BY <1>3, Zenon
<1>5. Ledger(G, k, last)'
  BY <1>1, <1>2, <1>4, LedgerKept, Zenon DEF Shape
<1>6. \A q \in Request : handler'[q].num < k[Len(log)]
  <2>1. x.num < k[Len(log)]
    <3>1. CASE x.num = handler[r].num
      BY <1>1, <3>1, Zenon DEF Fresh
    <3>2. ASSUME NEW s \in Server, NEW i \in 1 .. Len(configs[s]), x.num = configs[s][i].num
          PROVE  x.num < k[Len(log)]
      <4>1. /\ Len(configs[s]) \in Nat /\ Len(configs[s]) <= k[Len(log)] /\ k[Len(log)] \in Nat
            /\ configs[s][i].num = i - 1
        BY <1>1, <1>2, NumBound, Zenon
      <4> QED BY <3>2, <4>1
    <3> QED BY <3>1, <3>2
  <2> QED BY <1>1, <1>3, <2>1, Zenon DEF Fresh
<1>7. Fresh(k)'
  BY <1>1, <1>2, <1>3, <1>4, <1>6, FreshKept, Zenon DEF Shape, clerkVars
<1>8. Shape'
  <2>1. LogShape' /\ ServerShape'
    BY <1>2, <1>3 DEF Shape, LogShape, ServerShape
  <2>2. ClerkShape'
    <3>1. ClerkShape /\ UNCHANGED <<op, count, call, known, floor>>
      BY <1>2 DEF Shape, clerkVars
    <3>2. ASSUME NEW c \in Client, call[c] # None
          PROVE  call[c] \in Request /\ op[c] # None /\ handler'[call[c]].op = op[c]
      BY <1>4, <3>1, <3>2, ZenonT(40) DEF ClerkShape
    <3>3. ASSUME NEW q \in Request PROVE Numbered(handler[q].op)'
      <4>1. Numbered(handler[q].op)
        BY <3>1 DEF ClerkShape
      <4> QED BY <1>4, <3>1, <4>1, Zenon DEF Numbered
    <3> QED BY <1>3, <3>1, <3>2, <3>3, ZenonT(40) DEF ClerkShape
  <2> QED BY <1>3, <2>1, <2>2, Zenon DEF Shape
<1>9. Answered'
  <2>1. \A s, q : Applied(s, q)' <=> Applied(s, q)
    BY Zenon DEF Applied
  <2>2. \A q \in Request : On(q)' = On(q)
    BY <1>4 DEF On
  <2>3. ASSUME NEW q \in Request, handler'[q].at \in {"remove", "finish"}, handler'[q].err = "OK"
        PROVE  Applied(On(q), q)
    BY <1>3, <2>3, Zenon DEF IInv, Answered
  <2>4. ASSUME NEW s \in Server, sending'[s] # None PROVE Applied(s, sending'[s])
    BY <2>4, ZenonT(40) DEF IInv, Answered
  <2> QED BY <1>3, <2>1, <2>2, <2>3, <2>4, ZenonT(40) DEF Answered
<1>10. QueryIsFresh'
  <2> SUFFICES ASSUME NEW c \in Client, call[c] # None,
                      handler'[call[c]].at = "done", handler'[call[c]].err = "OK",
                      handler'[call[c]].op.method = "Query", handler'[call[c]].op.num = -1
               PROVE  handler'[call[c]].num >= floor[c]
    BY Zenon DEF QueryIsFresh, clerkVars
  <2>1. call[c] \in Request /\ floor[c] \in Nat
    BY <1>2 DEF Shape, ClerkShape
  <2>2. CASE call[c] # r
    BY <1>3, <2>1, <2>2, ZenonT(40) DEF IInv, QueryIsFresh
  <2>3. CASE call[c] = r
    <3>1. floor[c] <= x.num
      BY <1>3, <2>3, ZenonT(40)
    <3>2. x.num \in Nat
      BY DEF HandlerType
    <3> QED BY <1>3, <2>1, <2>3, <3>1, <3>2, Zenon
  <2> QED BY <2>2, <2>3, Zenon
<1> QED BY <1>5, <1>7, <1>8, <1>9, <1>10, Zenon DEF IInv

(* A handler that only goes to another place, and has no answer yet *)
LEMMA PlaceStep ==
  ASSUME IInv, NEW r \in Request, NEW at \in Place, GoTo(r, at),
         UNCHANGED <<log, configs, lastApplies, applied, sending, clerkVars>>,
         state' \in [Server -> {"STABLE", "TRANSITION", "FREEZE"}],
         at \notin {"remove", "done"}, at = "finish" => handler[r].at = "remove"
  PROVE  IInv'
<1>1. Shape
  BY DEF IInv
<1>2. PICK x : x = [handler[r] EXCEPT !.at = at]
  BY Zenon
<1>3. x \in HandlerType /\ handler' = [handler EXCEPT ![r] = x]
  BY <1>1, <1>2, GoToSet, Zenon DEF Shape
<1>4. handler[r] \in HandlerType
  BY <1>1, HandlerFields DEF Shape
<1>5. /\ x.op = handler[r].op /\ x.server = handler[r].server /\ x.num = handler[r].num
      /\ x.err = handler[r].err /\ x.at = at
  BY <1>2, <1>4, Zenon DEF HandlerType
<1>6. x.at \in {"remove", "finish"} /\ x.err = "OK" => Applied(On(r), r)
  <2>1. handler[r].at = "remove" /\ handler[r].err = "OK" => Applied(On(r), r)
    BY Zenon DEF IInv, Answered
  <2> QED BY <1>5, <2>1
<1>7. x.at # "done" /\ DOMAIN sending' = Server
  BY <1>1, <1>5 DEF Shape, ServerShape
<1> QED BY <1>3, <1>5, <1>6, <1>7, HandlerStep, Zenon

(* The state of a server stays one *)
LEMMA StateShape ==
  ASSUME IInv, NEW s \in Server, NEW new \in {"STABLE", "TRANSITION", "FREEZE"}
  PROVE  /\ changeState(s, new) => state' \in [Server -> {"STABLE", "TRANSITION", "FREEZE"}]
         /\ UNCHANGED state => state' \in [Server -> {"STABLE", "TRANSITION", "FREEZE"}]
  BY Zenon DEF IInv, Shape, ServerShape, changeState

(* A handler that goes on with an error, before it has an answer *)
LEMMA ErrorStep ==
  ASSUME IInv, NEW r \in Request, NEW at \in Place, NEW err \in {"ErrWrongLeader", "ErrTimeOut"},
         handler' = [handler EXCEPT ![r].at = at, ![r].err = err],
         UNCHANGED <<log, configs, lastApplies, applied, sending, clerkVars>>,
         state' \in [Server -> {"STABLE", "TRANSITION", "FREEZE"}]
  PROVE  IInv'
<1>1. Shape
  BY DEF IInv
<1>2. PICK x : x = [handler[r] EXCEPT !.at = at, !.err = err]
  OBVIOUS
<1>3. handler[r] \in HandlerType
  BY <1>1, HandlerFields DEF Shape
<1>4. x \in HandlerType
  BY <1>2, <1>3, Zenon DEF HandlerType
<1>5. handler' = [handler EXCEPT ![r] = x]
  BY <1>2, Zenon
<1>6. /\ x.op = handler[r].op /\ x.server = handler[r].server /\ x.num = handler[r].num
      /\ x.err # "OK"
  BY <1>2, <1>3 DEF HandlerType
<1>7. DOMAIN sending' = Server
  BY <1>1 DEF Shape, ServerShape
<1> QED BY <1>4, <1>5, <1>6, <1>7, HandlerStep, Zenon

(* The handlers: the loop until the server is STABLE, Start and what follows *)
LEMMA WaitStableKeeps == ASSUME IInv, NEW r \in Request, WaitStable(r) PROVE IInv'
<1>1. GoTo(r, "start") /\ UNCHANGED <<log, configs, lastApplies, applied, sending, clerkVars, state>>
  BY Zenon DEF WaitStable, raftVars, serverVars
<1>2. On(r) \in Server
  BY HandlerFields DEF IInv, Shape
<1>3. state' \in [Server -> {"STABLE", "TRANSITION", "FREEZE"}]
  BY <1>1, <1>2, StateShape
<1>4. "start" \in Place /\ "start" \notin {"remove", "done"} /\ "start" # "finish"
  BY DEF Place
<1> QED BY <1>1, <1>3, <1>4, PlaceStep, ZenonT(40)

(* Start succeeds, or the handler gives up with ErrWrongLeader *)
LEMMA StartOpKeeps == ASSUME IInv, NEW r \in Request, StartOp(r) PROVE IInv'
<1>1. On(r) \in Server
  BY HandlerFields DEF IInv, Shape
<1>2. UNCHANGED <<log, configs, lastApplies, applied, sending, clerkVars>>
  BY Zenon DEF StartOp, Start, raftVars
<1>3. state' \in [Server -> {"STABLE", "TRANSITION", "FREEZE"}]
  <2>1. changeState(On(r), "TRANSITION") \/ changeState(On(r), "FREEZE") \/ UNCHANGED state
    BY Zenon DEF StartOp
  <2> QED BY <1>1, <2>1, StateShape
<1>4. CASE GoTo(r, "started")
  <2>1. "started" \in Place /\ "started" \notin {"remove", "done"} /\ "started" # "finish"
    BY DEF Place
  <2> QED BY <1>2, <1>3, <1>4, <2>1, PlaceStep, Zenon
<1>5. CASE handler' = [handler EXCEPT ![r].at = "finish", ![r].err = "ErrWrongLeader"]
  <2>1. "finish" \in Place /\ "ErrWrongLeader" \in {"ErrWrongLeader", "ErrTimeOut"}
    BY DEF Place
  <2> QED BY <1>2, <1>3, <1>5, <2>1, ErrorStep, Zenon
<1> QED BY <1>4, <1>5, Zenon DEF StartOp

(* The handler makes its channel in notifyData *)
LEMMA RegisterKeeps == ASSUME IInv, NEW r \in Request, Register(r) PROVE IInv'
<1>1. GoTo(r, "waiting") /\ UNCHANGED <<log, configs, lastApplies, applied, sending, clerkVars, state>>
  BY DEF Register, raftVars
<1>2. On(r) \in Server
  BY HandlerFields DEF IInv, Shape
<1>3. state' \in [Server -> {"STABLE", "TRANSITION", "FREEZE"}]
  BY <1>1, <1>2, StateShape
<1>4. "waiting" \in Place /\ "waiting" \notin {"remove", "done"} /\ "waiting" # "finish"
  BY DEF Place
<1> QED BY <1>1, <1>3, <1>4, PlaceStep, ZenonT(40)

(* The handler waits no longer, and has no answer *)
LEMMA WaitTimeoutKeeps == ASSUME IInv, NEW r \in Request, WaitTimeout(r) PROVE IInv'
<1>1. /\ handler' = [handler EXCEPT ![r].at = "remove", ![r].err = "ErrTimeOut"]
      /\ UNCHANGED <<log, configs, lastApplies, applied, sending, clerkVars, state>>
  BY DEF WaitTimeout, raftVars, serverVars
<1>2. On(r) \in Server
  BY HandlerFields DEF IInv, Shape
<1>3. state' \in [Server -> {"STABLE", "TRANSITION", "FREEZE"}]
  BY <1>1, <1>2, StateShape
<1>4. "remove" \in Place /\ "ErrTimeOut" \in {"ErrWrongLeader", "ErrTimeOut"}
  BY DEF Place
<1> QED BY <1>1, <1>3, <1>4, ErrorStep, Zenon

(* The handler takes its channel away and keeps what it has *)
LEMMA removeChKeeps == ASSUME IInv, NEW r \in Request, removeCh(r) PROVE IInv'
<1>1. /\ GoTo(r, "finish") /\ handler[r].at = "remove"
      /\ UNCHANGED <<log, configs, lastApplies, applied, sending, clerkVars>>
      /\ changeState(On(r), "FREEZE") \/ UNCHANGED state
  BY Zenon DEF removeCh, raftVars
<1>2. On(r) \in Server
  BY HandlerFields DEF IInv, Shape
<1>3. state' \in [Server -> {"STABLE", "TRANSITION", "FREEZE"}]
  BY <1>1, <1>2, StateShape
<1>4. "finish" \in Place /\ "finish" \notin {"remove", "done"}
  BY DEF Place
<1> QED BY <1>1, <1>3, <1>4, PlaceStep, Zenon

(* The waiter takes its answer: apply sent it when it had applied the command *)
LEMMA NotifiedKeeps == ASSUME IInv, NEW r \in Request, Notified(r) PROVE IInv'
<1>1. PICK G, k, last : Ledger(G, k, last) /\ Fresh(k)
  BY DEF IInv
<1>2. Shape
  BY DEF IInv
<1>3. PICK s \in Server : s = On(r)
  BY <1>2, HandlerFields DEF Shape
<1>4. /\ sending[s] = r /\ sending' = [sending EXCEPT ![s] = None]
      /\ handler' = [handler EXCEPT ![r].at = "remove", ![r].err = "OK", ![r].num = Latest(s).num]
      /\ UNCHANGED <<log, configs, lastApplies, applied, clerkVars, state>>
  BY <1>3 DEF Notified, raftVars
<1>5. handler[r] \in HandlerType
  BY <1>2, HandlerFields DEF Shape
<1>6. PICK j : j \in 1 .. Len(configs[s]) /\ configs[s][j].num = Latest(s).num
                 /\ Latest(s).num \in Nat
  <2>1. /\ Len(configs[s]) \in Nat \ {0}
        /\ \A i \in 1 .. Len(configs[s]) : configs[s][i].num = i - 1
    BY <1>1, <1>2, NumBound, Zenon
  <2>2. Len(configs[s]) \in 1 .. Len(configs[s])
    BY <2>1
  <2> QED BY <2>1, <2>2 DEF Latest
<1>7. PICK x : x = [handler[r] EXCEPT !.at = "remove", !.err = "OK", !.num = Latest(s).num]
  OBVIOUS
<1>8. handler' = [handler EXCEPT ![r] = x]
  BY <1>4, <1>7, Zenon
<1>9. x \in HandlerType
  BY <1>5, <1>6, <1>7, Zenon DEF HandlerType, Place
<1>10. /\ x.op = handler[r].op /\ x.server = handler[r].server /\ x.at = "remove"
       /\ x.num = configs[s][j].num
  BY <1>5, <1>6, <1>7 DEF HandlerType
<1>11. Applied(On(r), r)
  <2>1. r # None
    <3>1. r \in Nat
      BY <1>2, LenProperties DEF Shape, Request
    <3> QED BY <3>1, NoneIsNoRequest
  <2> QED BY <1>3, <1>4, <2>1, Zenon DEF IInv, Answered
<1>12. /\ DOMAIN sending' = Server /\ state' \in [Server -> {"STABLE", "TRANSITION", "FREEZE"}]
       /\ \A t \in Server : sending'[t] = sending[t] \/ sending'[t] = None
  BY <1>2, <1>4 DEF Shape, ServerShape
<1>13. x.at # "done" /\ \E t \in Server : \E i \in 1 .. Len(configs[t]) : x.num = configs[t][i].num
  BY <1>6, <1>10, Zenon
<1> QED BY <1>4, <1>8, <1>9, <1>10, <1>11, <1>12, <1>13, HandlerStep, ZenonT(60)

(* The reply of a Query for the latest configuration is not too old *)
LEMMA RespondKeeps == ASSUME IInv, NEW r \in Request, Respond(r) PROVE IInv'
<1>1. PICK G, k, last : Ledger(G, k, last) /\ Fresh(k)
  BY DEF IInv
<1>2. Shape
  BY DEF IInv
<1>3. PICK s \in Server : s = On(r)
  BY <1>2, HandlerFields DEF Shape
<1>4. handler[r] \in HandlerType
  BY <1>2, HandlerFields DEF Shape
<1>5. PICK at \in {"done", "gone"} : at = IF \E c \in Client : call[c] = r THEN "done" ELSE "gone"
  OBVIOUS
<1>6. PICK num : num = IF Changes(r) THEN handler[r].num
                       ELSE getConfigCopy(s, handler[r].op.num).num
  OBVIOUS
<1>7. PICK x : x = [handler[r] EXCEPT !.at = at, !.num = num]
  OBVIOUS
<1>8. /\ handler[r].at = "finish" /\ handler' = [handler EXCEPT ![r] = x]
      /\ changeState(s, Unfrozen(r))
      /\ UNCHANGED <<log, configs, lastApplies, applied, sending, clerkVars>>
  BY <1>3, <1>5, <1>6, <1>7, ZenonT(60) DEF Respond, raftVars
<1>9. state' \in [Server -> {"STABLE", "TRANSITION", "FREEZE"}] /\ DOMAIN sending' = Server
  <2>1. Unfrozen(r) \in {"STABLE", "TRANSITION", "FREEZE"}
    BY <1>2, <1>3 DEF Unfrozen, Shape, ServerShape
  <2> QED BY <1>2, <1>8, <2>1, StateShape, Zenon DEF Shape, ServerShape
<1>10. /\ Len(configs[s]) \in Nat \ {0}
       /\ \A i \in 1 .. Len(configs[s]) : configs[s][i].num = i - 1
  BY <1>1, <1>2, NumBound, Zenon
<1>11. ~Changes(r) => handler[r].op.num \in Int
  <2>1. handler[r].op \in Op
    BY <1>2, HandlerFields, Zenon DEF Shape
  <2>2. PICK c \in Client, j \in Nat : handler[r].op \in OpOf(c, <<c, j>>)
    BY <2>1 DEF Op
  <2> QED BY <2>2 DEF Changes, OpOf
<1>12. ASSUME ~Changes(r)
       PROVE  /\ \E i \in 1 .. Len(configs[s]) : num = configs[s][i].num
              /\ handler[r].op.num = -1 => num = Latest(s).num
  <2>1. PICK n \in Int : n = handler[r].op.num
    BY <1>11, <1>12, Zenon
  <2>2. num = getConfigCopy(s, n).num
    BY <1>6, <1>12, <2>1
  <2>3. CASE n < 0 \/ n >= Len(configs[s])
    <3>1. num = configs[s][Len(configs[s])].num /\ num = Latest(s).num
      BY <2>2, <2>3 DEF getConfigCopy, Latest
    <3>2. Len(configs[s]) \in 1 .. Len(configs[s])
      BY <1>10
    <3> QED BY <3>1, <3>2, Zenon
  <2>4. CASE ~(n < 0 \/ n >= Len(configs[s]))
    <3>1. num = configs[s][n + 1].num /\ n + 1 \in 1 .. Len(configs[s]) /\ n # -1
      BY <1>10, <2>2, <2>4 DEF getConfigCopy
    <3> QED BY <2>1, <3>1, Zenon
  <2> QED BY <2>3, <2>4
<1>13. num \in Nat
  <2>1. CASE Changes(r)
    BY <1>4, <1>6, <2>1, Zenon DEF HandlerType
  <2>2. CASE ~Changes(r)
    BY <1>10, <1>12, <2>2
  <2> QED BY <2>1, <2>2, Zenon
<1>14. x \in HandlerType
  BY <1>4, <1>5, <1>7, <1>13, Zenon DEF HandlerType, Place
<1>15. /\ x.op = handler[r].op /\ x.server = handler[r].server /\ x.at = at
       /\ x.num = num /\ x.err = handler[r].err
  BY <1>4, <1>7 DEF HandlerType
<1>16. \/ x.num = handler[r].num
       \/ \E t \in Server : \E i \in 1 .. Len(configs[t]) : x.num = configs[t][i].num
  <2>1. CASE Changes(r)
    BY <1>6, <1>15, <2>1
  <2>2. CASE ~Changes(r)
    BY <1>12, <1>15, <2>2, Zenon
  <2> QED BY <2>1, <2>2, Zenon
<1>17. ASSUME x.err = "OK", x.op.method = "Query", x.op.num = -1, NEW c \in Client, call[c] = r
       PROVE  floor[c] <= x.num
  <2>1. Applied(s, r)
    BY <1>3, <1>8, <1>15, <1>17, Zenon DEF IInv, Answered
  <2>2. floor[c] <= Latest(s).num
    BY <1>1, <1>2, <1>17, <2>1, AnswerFresh, Zenon
  <2>3. num = Latest(s).num
    BY <1>12, <1>15, <1>17, Zenon DEF Changes
  <2> QED BY <1>15, <2>2, <2>3
<1>18. x.at \notin {"remove", "finish"}
  BY <1>5, <1>15
<1> QED BY <1>8, <1>9, <1>14, <1>15, <1>16, <1>17, <1>18, HandlerStep, Zenon

-----------------------------------------------------------------------------
(* Raft and the goroutine apply *)

(* Elections, and what else of Raft no server sees *)
LEMMA NothingKeeps ==
  ASSUME IInv, UNCHANGED <<log, serverVars, handler, clerkVars>>
  PROVE  IInv'
<1>1. PICK G, k, last : Ledger(G, k, last) /\ Fresh(k)
  BY DEF IInv
<1>2. /\ UNCHANGED <<log, configs, lastApplies, applied, sending, state, handler>>
      /\ UNCHANGED <<op, count, call, known, floor>>
  BY DEF serverVars, clerkVars
<1>3. Request' = Request /\ \A r : On(r)' = On(r)
  BY <1>2 DEF Request, On
<1>4. Shape'
  <2>1. LogShape' /\ ServerShape'
    BY <1>2, <1>3 DEF IInv, Shape, LogShape, ServerShape
  <2>2. ClerkShape' /\ handler' \in Seq(HandlerType)
    BY <1>2, <1>3, Zenon DEF IInv, Shape, ClerkShape, Numbered
  <2> QED BY <2>1, <2>2, Zenon DEF Shape
<1>5. Answered'
  <2>1. \A s, q : Applied(s, q)' <=> Applied(s, q)
    BY <1>2 DEF Applied
  <2> QED BY <1>2, <1>3, <2>1, Zenon DEF IInv, Answered
<1>6. QueryIsFresh'
  BY <1>2, Zenon DEF IInv, QueryIsFresh
<1>7. Ledger(G, k, last)'
  BY <1>1, <1>2, LedgerKept, Zenon DEF IInv, Shape
<1>8. Fresh(k)'
  BY <1>1, <1>2, <1>3, Zenon DEF Fresh
<1> QED BY <1>4, <1>5, <1>6, <1>7, <1>8, Zenon DEF IInv

(* A command is committed *)
LEMMA CommitKeeps == ASSUME IInv, NEW r \in Request, Commit(r) PROVE IInv'
<1>1. PICK G, k, last : Ledger(G, k, last) /\ Fresh(k)
  BY DEF IInv
<1>2. Shape
  BY DEF IInv
<1>3. /\ log' = Append(log, r)
      /\ UNCHANGED <<configs, lastApplies, applied, sending, state, handler>>
      /\ UNCHANGED <<op, count, call, known, floor>>
  BY DEF Commit, LeaderCommit, serverVars, clerkVars
<1>4. \E H, j, l : Ledger(H, j, l)' /\ Fresh(j)'
  BY <1>1, <1>2, <1>3, LedgerCommit, Zenon
<1>5. PICK N \in Nat : N = Len(log)
  BY <1>2, LenProperties, Zenon DEF Shape, LogShape
<1>6. /\ log' \in Seq(Nat) /\ Len(log') = N + 1 /\ log'[N + 1] = r
      /\ \A n \in 1 .. N : log'[n] = log[n]
  <2>1. r \in Nat /\ log \in Seq(Nat)
    BY <1>2, LenProperties DEF Shape, LogShape, Request
  <2> QED BY <1>3, <1>5, <2>1, AppendProperties
<1>7. Request' = Request /\ \A q : On(q)' = On(q)
  BY <1>3, Zenon DEF Request, On
<1>8. LogShape'
  <2>1. \A n \in 1 .. N : log[n] \in Request
    BY <1>2, <1>5, Zenon DEF Shape, LogShape
  <2> QED BY <1>6, <1>7, <2>1 DEF LogShape
<1>9. applied \in [Server -> 0 .. N] /\ ServerShape'
  <2>1. applied \in [Server -> 0 .. N]
    BY <1>2, <1>5, Zenon DEF Shape, ServerShape
  <2>2. applied' \in [Server -> 0 .. Len(log')]
    BY <1>3, <1>6, <2>1
  <2> QED BY <1>2, <1>3, <2>1, <2>2, Zenon DEF Shape, ServerShape
<1>10. ClerkShape' /\ handler' \in Seq(HandlerType)
  BY <1>2, <1>3, <1>7, Zenon DEF Shape, ClerkShape, Numbered
<1>11. \A s \in Server : \A q : Applied(s, q)' <=> Applied(s, q)
  <2> SUFFICES ASSUME NEW s \in Server, NEW q PROVE Applied(s, q)' <=> Applied(s, q)
    OBVIOUS
  <2>1. \A n \in 1 .. applied[s] : log'[n] = log[n]
    BY <1>6, <1>9
  <2> QED BY <1>3, <2>1, Zenon DEF Applied
<1>12. Answered'
  <2>1. \A q \in Request : On(q) \in Server
    BY <1>2, HandlerFields DEF Shape
  <2> QED BY <1>3, <1>7, <1>11, <2>1, Zenon DEF IInv, Answered
<1>13. QueryIsFresh'
  BY <1>3, Zenon DEF IInv, QueryIsFresh
<1> QED BY <1>4, <1>8, <1>9, <1>10, <1>12, <1>13, ZenonT(40) DEF IInv, Shape

(* A server applies a command, and sends to the handler that waits for it *)
LEMMA applyKeeps == ASSUME IInv, NEW s \in Server, apply(s) PROVE IInv'
<1>1. PICK G, k, last : Ledger(G, k, last) /\ Fresh(k)
  BY DEF IInv
<1>2. Shape
  BY DEF IInv
<1>3. ServerShape' /\ Ledger(G, k, last)'
  BY <1>1, <1>2, LedgerApply, ZenonT(60)
<1>4. /\ applied' = [applied EXCEPT ![s] = applied[s] + 1]
      /\ sending' = [sending EXCEPT ![s] = IF log[applied[s] + 1] \in notifyData[s]
                                           THEN log[applied[s] + 1] ELSE None]
      /\ UNCHANGED <<log, handler>> /\ UNCHANGED <<op, count, call, known, floor>>
  BY Zenon DEF apply, raftVars, clerkVars
<1>5. Request' = Request /\ \A q : On(q)' = On(q)
  BY <1>4 DEF Request, On
<1>6. LogShape' /\ ClerkShape' /\ handler' \in Seq(HandlerType)
  BY <1>2, <1>4, <1>5, Zenon DEF Shape, LogShape, ClerkShape, Numbered
<1>7. Fresh(k)'
  BY <1>1, <1>4, <1>5, Zenon DEF Fresh
<1>8. QueryIsFresh'
  BY <1>4, ZenonT(40) DEF IInv, QueryIsFresh
<1>9. /\ \A t \in Server : applied[t] \in Nat /\ DOMAIN sending = Server /\ DOMAIN applied = Server
      /\ applied'[s] = applied[s] + 1 /\ \A t \in Server \ {s} : applied'[t] = applied[t]
  BY <1>2, <1>4, SMTT(60) DEF Shape, ServerShape
<1>10. \A t \in Server : \A q : Applied(t, q) => Applied(t, q)'
  <2> SUFFICES ASSUME NEW t \in Server, NEW q, NEW n \in 1 .. applied[t], log[n] = q
               PROVE  n \in 1 .. applied'[t] /\ log'[n] = q
    BY Zenon DEF Applied
  <2> QED BY <1>4, <1>9
<1>11. Answered'
  <2>1. ASSUME NEW t \in Server, sending'[t] # None PROVE Applied(t, sending[t])'
    <3>1. CASE t = s
      <4>1. sending'[s] = log[applied[s] + 1]
        BY <1>4, <1>9, <2>1, <3>1, Zenon
      <4>2. applied[s] + 1 \in 1 .. applied'[s]
        BY <1>9
      <4> QED BY <1>4, <3>1, <4>1, <4>2, ZenonT(40) DEF Applied
    <3>2. CASE t # s
      <4>1. sending'[t] = sending[t]
        BY <1>4, <1>9, <3>2
      <4>2. Applied(t, sending[t])
        BY <2>1, <4>1, Zenon DEF IInv, Answered
      <4> QED BY <1>10, <4>1, <4>2, ZenonT(40)
    <3> QED BY <3>1, <3>2
  <2>2. \A q \in Request : On(q) \in Server
    BY <1>2, HandlerFields DEF Shape
  <2>3. ASSUME NEW q \in Request, handler[q].at \in {"remove", "finish"}, handler[q].err = "OK"
        PROVE  Applied(On(q), q)'
    <3>1. Applied(On(q), q)
      BY <2>3, Zenon DEF IInv, Answered
    <3> QED BY <1>5, <1>10, <2>2, <3>1, Zenon
  <2> QED BY <1>4, <1>5, <2>1, <2>3, Zenon DEF Answered
<1> QED BY <1>3, <1>6, <1>7, <1>8, <1>11, Zenon DEF IInv, Shape

(* A server starts again: its handlers are gone *)
LEMMA RestartKeeps == ASSUME IInv, NEW s \in Server, Restart(s) PROVE IInv'
<1>1. PICK G, k, last : Ledger(G, k, last) /\ Fresh(k)
  BY DEF IInv
<1>2. Shape
  BY DEF IInv
<1>3. /\ configs' = [configs EXCEPT ![s] = <<NoConfig>>]
      /\ lastApplies' = [lastApplies EXCEPT ![s] = [c \in Client |-> None]]
      /\ state' = [state EXCEPT ![s] = "STABLE"]
      /\ applied' = [applied EXCEPT ![s] = 0]
      /\ sending' = [sending EXCEPT ![s] = None]
      /\ handler' = [r \in Request |->
                       IF On(r) = s THEN [handler[r] EXCEPT !.at = "gone"] ELSE handler[r]]
      /\ UNCHANGED <<log, op, count, call, known, floor>>
  BY DEF Restart, Make, clerkVars
<1>4. \A q \in Request : handler[q] \in HandlerType /\ On(q) \in Server
  BY <1>2, HandlerFields, Zenon DEF Shape
<1>5. ASSUME NEW q \in Request
      PROVE  /\ handler'[q] \in HandlerType /\ handler'[q].op = handler[q].op
             /\ handler'[q].server = handler[q].server /\ handler'[q].num = handler[q].num
             /\ On(q) = s => handler'[q].at = "gone"
             /\ On(q) # s => handler'[q] = handler[q]
  <2>1. CASE On(q) = s
    <3>1. handler'[q] = [handler[q] EXCEPT !.at = "gone"]
      BY <1>3, <2>1, ZenonT(40)
    <3> QED BY <1>4, <2>1, <3>1 DEF HandlerType, Place
  <2>2. CASE On(q) # s
    <3>1. handler'[q] = handler[q]
      BY <1>3, <2>2, Zenon
    <3> QED BY <1>4, <2>2, <3>1
  <2> QED BY <2>1, <2>2
<1>6. handler' \in Seq(HandlerType) /\ Request' = Request
  <2>1. Len(handler) \in Nat
    BY <1>2, LenProperties DEF Shape
  <2>2. DOMAIN handler' = Request
    BY <1>3
  <2>3. handler' \in [1 .. Len(handler) -> HandlerType]
    BY <1>3, <1>5, <2>2 DEF Request
  <2> QED BY <2>1, <2>3, LenProperties DEF Request
<1>7. Ledger(G, k, last)' /\ \A t \in Server : IsList(configs'[t])
  BY <1>1, <1>2, <1>3, <1>5, LedgerRestart, Zenon
<1>8. /\ DOMAIN lastApplies' = Server /\ DOMAIN sending' = Server /\ DOMAIN configs' = Server
      /\ applied' \in [Server -> 0 .. Len(log)]
      /\ state' \in [Server -> {"STABLE", "TRANSITION", "FREEZE"}]
      /\ sending'[s] = None /\ \A t \in Server \ {s} : sending'[t] = sending[t]
      /\ \A t \in Server \ {s} : applied'[t] = applied[t]
  <2>1. Len(log) \in Nat
    BY <1>2, LenProperties DEF Shape, LogShape
  <2> QED BY <1>2, <1>3, <2>1 DEF Shape, ServerShape
<1>9. ServerShape' /\ LogShape'
  BY <1>2, <1>3, <1>6, <1>7, <1>8, Zenon DEF Shape, ServerShape, LogShape
<1>10. ClerkShape'
  <2>1. ClerkShape
    BY <1>2 DEF Shape
  <2>2. ASSUME NEW c \in Client, call[c] # None
        PROVE  call[c] \in Request /\ op[c] # None /\ handler'[call[c]].op = op[c]
    BY <1>5, <2>1, <2>2, Zenon DEF ClerkShape
  <2>3. ASSUME NEW q \in Request PROVE Numbered(handler[q].op)'
    <3>1. Numbered(handler[q].op)
      BY <2>1 DEF ClerkShape
    <3> QED BY <1>3, <1>5, <3>1, Zenon DEF Numbered
  <2> QED BY <1>3, <1>6, <2>1, <2>2, <2>3, Zenon DEF ClerkShape
<1>11. Fresh(k)'
  <2>1. \A q \in Request : handler'[q].num < k[Len(log)]
    BY <1>1, <1>5, Zenon DEF Fresh
  <2> QED BY <1>1, <1>2, <1>3, <1>5, <1>6, <2>1, FreshKept, Zenon DEF Shape
<1>12. \A t \in Server \ {s} : \A q : Applied(t, q) => Applied(t, q)'
  BY <1>3, <1>8, Zenon DEF Applied
<1>13. Answered'
  <2>1. ASSUME NEW t \in Server, sending'[t] # None PROVE Applied(t, sending[t])'
    <3>1. t # s /\ sending'[t] = sending[t] /\ Applied(t, sending[t])
      BY <1>8, <2>1, Zenon DEF IInv, Answered
    <3> QED BY <1>12, <3>1, Zenon
  <2>2. ASSUME NEW q \in Request, handler'[q].at \in {"remove", "finish"}, handler'[q].err = "OK"
        PROVE  Applied(On(q), q)'
    <3>1. On(q) # s /\ handler'[q] = handler[q]
      BY <1>5, <2>2
    <3>2. Applied(On(q), q)
      BY <2>2, <3>1, Zenon DEF IInv, Answered
    <3>3. On(q)' = On(q)
      BY <1>5 DEF On
    <3> QED BY <1>4, <1>12, <3>1, <3>2, <3>3, ZenonT(40)
  <2> QED BY <1>6, <2>1, <2>2, Zenon DEF Answered
<1>14. QueryIsFresh'
  <2> SUFFICES ASSUME NEW c \in Client, call[c] # None,
                      handler'[call[c]].at = "done", handler'[call[c]].err = "OK",
                      handler'[call[c]].op.method = "Query", handler'[call[c]].op.num = -1
               PROVE  handler'[call[c]].num >= floor[c]
    BY <1>3 DEF QueryIsFresh
  <2>1. call[c] \in Request
    BY <1>2, Zenon DEF Shape, ClerkShape
  <2>2. handler'[call[c]] = handler[call[c]]
    BY <1>5, <2>1
  <2> QED BY <2>2, Zenon DEF IInv, QueryIsFresh
<1> QED BY <1>6, <1>7, <1>9, <1>10, <1>11, <1>13, <1>14, Zenon DEF IInv, Shape

-----------------------------------------------------------------------------
(* The clerks *)

(* A clerk begins an operation: no request has its number *)
LEMMA BeginKeeps == ASSUME IInv, NEW c \in Client, Begin(c) PROVE IInv'
<1>1. PICK G, k, last : Ledger(G, k, last) /\ Fresh(k)
  BY DEF IInv
<1>2. Shape /\ ClerkShape
  BY DEF IInv, Shape
<1>3. PICK o \in OpOf(c, <<c, count[c] + 1>>) : op' = [op EXCEPT ![c] = o]
  BY ZenonT(60) DEF Begin, MsgId
<1>4. /\ op[c] = None /\ count' = [count EXCEPT ![c] = count[c] + 1]
      /\ floor' = [floor EXCEPT ![c] = known]
      /\ UNCHANGED <<log, configs, lastApplies, applied, sending, state, handler, call, known>>
  BY DEF Begin, raftVars, serverVars
<1>5. Request' = Request /\ \A r : On(r)' = On(r)
  BY <1>4, Zenon DEF Request, On
<1>6. /\ count \in [Client -> Nat] /\ floor \in [Client -> Nat] /\ known \in Nat
      /\ DOMAIN op = Client
  BY <1>2, Zenon DEF ClerkShape
<1>7. /\ count' \in [Client -> Nat] /\ floor' \in [Client -> Nat] /\ DOMAIN op' = Client
      /\ count'[c] = count[c] + 1 /\ floor'[c] = known /\ op'[c] = o
      /\ \A d \in Client \ {c} : count'[d] = count[d] /\ floor'[d] = floor[d] /\ op'[d] = op[d]
  BY <1>3, <1>4, <1>6, SMTT(60)
<1>8. call[c] = None
  BY <1>2, <1>4, Zenon DEF ClerkShape
<1>9. o.client = c /\ o.id = <<c, count[c] + 1>>
  BY <1>3, OpFields, SMTT(60)
<1>10. \A r \in Request : handler[r].op.client \in Client /\ Numbered(handler[r].op)
  <2>1. \A r \in Request : handler[r].op \in Op
    BY <1>2, HandlerFields, SMTT(60) DEF Shape
  <2> QED BY <1>2, <2>1, OpShape, Zenon DEF ClerkShape
<1>11. ASSUME NEW r \in Request PROVE Numbered(handler[r].op)' /\ handler[r].op # o
  <2>1. PICK p : p = handler[r].op
    BY Zenon
  <2>2. PICK j \in 0 .. count[p.client] : p.id = <<p.client, j>>
    BY <1>10, <2>1 DEF Numbered
  <2>3. p.client \in Client
    BY <1>10, <2>1, Zenon
  <2>4. j \in 0 .. count'[p.client]
    BY <1>6, <1>7, <2>2, <2>3, SMTT(60)
  <2>5. p # o
    <3> SUFFICES ASSUME p = o PROVE FALSE
      OBVIOUS
    <3>1. j = count[c] + 1 /\ p.client = c
      BY <1>9, <2>2
    <3> QED BY <1>6, <2>2, <3>1
  <2> QED BY <1>4, <2>1, <2>2, <2>4, <2>5, Zenon DEF Numbered
<1>12. ClerkShape'
  <2>1. ASSUME NEW d \in Client, op'[d] # None PROVE op'[d] \in OpOf(d, <<d, count'[d]>>)
    <3>1. CASE d = c
      BY <1>3, <1>7, <3>1
    <3>2. CASE d # c
      BY <1>2, <1>7, <2>1, <3>2, Zenon DEF ClerkShape
    <3> QED BY <3>1, <3>2, Zenon
  <2>2. ASSUME NEW d \in Client, call[d] # None
        PROVE  call[d] \in Request /\ op'[d] # None /\ handler[call[d]].op = op'[d]
    <3>1. d # c
      BY <1>8, <2>2, Zenon
    <3> QED BY <1>2, <1>7, <2>2, <3>1, ZenonT(40) DEF ClerkShape
  <2>3. DOMAIN call = Client
    BY <1>2, Zenon DEF ClerkShape
  <2>4. (\A d \in Client : op[d] # None => op[d] \in OpOf(d, <<d, count[d]>>))'
    BY <2>1 DEF OpOf
  <2> QED BY <1>4, <1>5, <1>6, <1>7, <1>11, <2>2, <2>3, <2>4, ZenonT(40) DEF ClerkShape
<1>13. Shape'
  <2>1. LogShape' /\ ServerShape' /\ handler' \in Seq(HandlerType)
    BY <1>2, <1>4, <1>5, Zenon DEF Shape, LogShape, ServerShape
  <2> QED BY <1>12, <2>1, SMTT(60) DEF Shape
<1>14. Answered'
  <2>1. \A s, q : Applied(s, q)' <=> Applied(s, q)
    BY <1>4 DEF Applied
  <2> QED BY <1>4, <1>5, <2>1, Zenon DEF IInv, Answered
<1>15. QueryIsFresh'
  <2>1. \A d \in Client : call[d] # None => floor'[d] = floor[d]
    BY <1>7, <1>8
  <2> QED BY <1>4, <2>1, ZenonT(40) DEF IInv, QueryIsFresh
<1>16. Ledger(G, k, last)'
  BY <1>1, <1>2, <1>4, LedgerKept, Zenon DEF Shape
<1>17. Fresh(k)'
  <2>1. \A d \in Client : floor'[d] <= known
    <3>1. \A d \in Client : floor[d] <= known
      BY <1>1, Zenon DEF Fresh
    <3>2. known <= known
      BY <1>6
    <3> QED BY <1>7, <3>1, <3>2, Zenon
  <2>2. ASSUME NEW d \in Client, NEW n \in 1 .. Len(log), op'[d] # None, handler[log[n]].op = op'[d]
        PROVE  floor'[d] < k[n - 1]
    <3>1. log[n] \in Request
      BY <1>2, ZenonT(60) DEF Shape, LogShape
    <3>2. d # c
      BY <1>7, <1>11, <2>2, <3>1
    <3> QED BY <1>1, <1>7, <2>2, <3>2, Zenon DEF Fresh
  <2> QED BY <1>1, <1>4, <1>5, <2>1, <2>2, Zenon DEF Fresh
<1> QED BY <1>13, <1>14, <1>15, <1>16, <1>17, Zenon DEF IInv

(* A clerk sends its operation to a server *)
LEMMA CallKeeps ==
  ASSUME IInv, NEW c \in Client, NEW s \in Server, Call(c, s)
  PROVE  IInv'
<1>1. PICK G, k, last : Ledger(G, k, last) /\ Fresh(k)
  BY DEF IInv
<1>2. Shape /\ ClerkShape
  BY DEF IInv, Shape
<1>3. PICK M \in Nat : M = Len(handler)
  BY <1>2, LenProperties DEF Shape
<1>4. PICK x : x = [server |-> s, op |-> op[c], at |-> "check", err |-> "OK", num |-> 0]
  BY Zenon
<1>5. /\ op[c] # None /\ handler' = Append(handler, x) /\ call' = [call EXCEPT ![c] = M + 1]
      /\ UNCHANGED <<log, configs, lastApplies, applied, sending, state, op, count, known, floor>>
  BY <1>3, <1>4, Zenon DEF Call, raftVars, serverVars
<1>6. op[c] \in OpOf(c, <<c, count[c]>>) /\ count[c] \in Nat
  BY <1>2, <1>5 DEF ClerkShape
<1>7. x \in HandlerType
  <2>1. op[c] \in Op
    BY <1>6 DEF Op
  <2> QED BY <1>4, <2>1, Zenon DEF HandlerType, Place
<1>8. /\ x.at = "check" /\ x.num = 0 /\ x.op = op[c]
  BY <1>4, SMTT(60)
<1>9. /\ handler' \in Seq(HandlerType) /\ Len(handler') = M + 1 /\ handler'[M + 1] = x
      /\ \A q \in 1 .. M : handler'[q] = handler[q]
  <2>1. handler \in Seq(HandlerType)
    BY <1>2, Zenon DEF Shape
  <2>2. IsList(handler)
    BY <2>1, Zenon DEF IsList
  <2>3. Append(handler, x) \in Seq(HandlerType)
    BY <1>7, <2>1, AppendProperties, Zenon
  <2>4. /\ Len(Append(handler, x)) = M + 1 /\ Append(handler, x)[M + 1] = x
        /\ \A q \in 1 .. M : Append(handler, x)[q] = handler[q]
    BY <1>3, <2>2, AppendSeq, ZenonT(60)
  <2> QED BY <1>5, <2>3, <2>4, Zenon
<1>10. /\ Request = 1 .. M /\ Request' = 1 .. M + 1 /\ Request \subseteq Request'
       /\ M + 1 \in Request'
       /\ \A q \in Request' : q \in Request \/ q = M + 1
       /\ \A q \in Request : handler'[q] = handler[q] /\ On(q)' = On(q) /\ q # M + 1
  <2>1. Request = 1 .. M /\ Request' = 1 .. M + 1
    BY <1>3, <1>9, Zenon DEF Request
  <2>2. /\ 1 .. M \subseteq 1 .. M + 1 /\ M + 1 \in 1 .. M + 1
        /\ \A q \in 1 .. M + 1 : q \in 1 .. M \/ q = M + 1
        /\ \A q \in 1 .. M : q # M + 1
    OBVIOUS
  <2>3. \A q \in 1 .. M : handler'[q] = handler[q] /\ On(q)' = On(q)
    BY <1>9, Zenon DEF On
  <2> QED BY <2>1, <2>2, <2>3, Zenon
<1>11. Numbered(op[c])
  <2>1. op[c].client = c /\ op[c].id = <<c, count[c]>>
    BY <1>6, OpFields, Zenon
  <2>2. count[c] \in 0 .. count[c]
    BY <1>6
  <2> QED BY <2>1, <2>2 DEF Numbered
<1>12. DOMAIN call = Client
  BY <1>2, Zenon DEF ClerkShape
<1>13. call'[c] = M + 1 /\ DOMAIN call' = Client /\ \A d \in Client \ {c} : call'[d] = call[d]
  BY <1>5, <1>12
<1>14. ClerkShape'
  <2>1. ASSUME NEW d \in Client, call'[d] # None
        PROVE  call'[d] \in Request' /\ op[d] # None /\ handler'[call'[d]].op = op[d]
    <3>1. CASE d = c
      BY <1>5, <1>8, <1>9, <1>10, <1>13, <3>1, Zenon
    <3>2. CASE d # c
      <4>1. call'[d] = call[d]
        BY <1>13, <3>2
      <4>2. call[d] \in Request /\ op[d] # None /\ handler[call[d]].op = op[d]
        BY <1>2, <2>1, <4>1, ZenonT(40) DEF ClerkShape
      <4> QED BY <1>10, <4>1, <4>2, Zenon
    <3> QED BY <3>1, <3>2, Zenon
  <2>2. ASSUME NEW q \in Request' PROVE Numbered(handler[q].op)'
    <3>1. CASE q \in Request
      <4>1. Numbered(handler[q].op) /\ handler'[q].op = handler[q].op
        BY <1>2, <1>10, <3>1, Zenon DEF ClerkShape
      <4> QED BY <1>5, <4>1, Zenon DEF Numbered
    <3>2. CASE q = M + 1
      BY <1>5, <1>8, <1>9, <1>11, <3>2 DEF Numbered
    <3> QED BY <1>10, <3>1, <3>2, Zenon
  <2> QED BY <1>2, <1>5, <1>13, <2>1, <2>2, ZenonT(40) DEF ClerkShape
<1>15. Shape'
  <2>1. LogShape'
    BY <1>2, <1>5, <1>10, Zenon DEF Shape, LogShape
  <2>2. ServerShape'
    BY <1>2, <1>5, Zenon DEF Shape, ServerShape
  <2> QED BY <1>9, <1>14, <2>1, <2>2, Zenon DEF Shape
<1>16. Answered'
  <2>1. \A t, q : Applied(t, q)' <=> Applied(t, q)
    BY <1>5 DEF Applied
  <2>2. ASSUME NEW q \in Request', handler'[q].at \in {"remove", "finish"}, handler'[q].err = "OK"
        PROVE  Applied(On(q), q)'
    <3>1. q \in Request /\ handler'[q] = handler[q] /\ On(q)' = On(q)
      BY <1>8, <1>9, <1>10, <2>2
    <3> QED BY <2>1, <2>2, <3>1, ZenonT(40) DEF IInv, Answered
  <2> QED BY <1>5, <2>1, <2>2, Zenon DEF IInv, Answered
<1>17. QueryIsFresh'
  <2> SUFFICES ASSUME NEW d \in Client, call'[d] # None, handler'[call'[d]].at = "done",
                      handler'[call'[d]].err = "OK", handler'[call'[d]].op.method = "Query",
                      handler'[call'[d]].op.num = -1
               PROVE  handler'[call'[d]].num >= floor[d]
    BY <1>5, Zenon DEF QueryIsFresh
  <2>1. d # c
    BY <1>8, <1>9, <1>13, Zenon
  <2>2. call'[d] = call[d]
    BY <1>13, <2>1
  <2>3. handler'[call[d]] = handler[call[d]]
    BY <1>2, <1>10, <2>2, Zenon DEF ClerkShape
  <2> QED BY <2>2, <2>3, ZenonT(40) DEF IInv, QueryIsFresh
<1>18. Ledger(G, k, last)'
  BY <1>1, <1>2, <1>5, <1>10, LedgerKept, Zenon DEF Shape
<1>19. Fresh(k)'
  <2>1. 0 < k[Len(log)]
    <3>1. Len(log) \in Nat
      BY <1>2, LenProperties DEF Shape, LogShape
    <3>2. k \in [0 .. Len(log) -> Nat \ {0}]
      BY <1>1, Zenon DEF Ledger
    <3>3. k[Len(log)] \in Nat \ {0}
      BY <3>1, <3>2
    <3> QED BY <3>3
  <2>2. \A q \in Request' : handler'[q].num < k[Len(log)]
    BY <1>1, <1>8, <1>9, <1>10, <2>1, ZenonT(40) DEF Fresh
  <2>3. \A n \in 1 .. Len(log) : handler'[log[n]] = handler[log[n]]
    BY <1>2, <1>10, Zenon DEF Shape, LogShape
  <2> QED BY <1>1, <1>5, <2>2, <2>3, ZenonT(40) DEF Fresh
<1> QED BY <1>15, <1>16, <1>17, <1>18, <1>19, Zenon DEF IInv

(* A call ends, with a reply or without one. What the reply says is known    *)
(* from then on.                                                             *)
LEMMA HangUp ==
  ASSUME IInv, NEW c \in Client, NEW r \in Request, NEW x \in HandlerType,
         call' = [call EXCEPT ![c] = None], handler' = [handler EXCEPT ![r] = x],
         x = handler[r] \/ x.at = "gone",
         x.op = handler[r].op, x.server = handler[r].server, x.num = handler[r].num,
         DOMAIN op' = DOMAIN op,
         \A d \in Client : op'[d] = op[d] \/ (d = c /\ op'[d] = None),
         known' = known \/ (known' = handler[r].num /\ known' > known),
         UNCHANGED <<log, configs, lastApplies, applied, sending, state, count, floor>>
  PROVE  IInv'
<1>1. PICK G, k, last : Ledger(G, k, last) /\ Fresh(k)
  BY Zenon DEF IInv
<1>2. Shape /\ ClerkShape
  BY DEF IInv, Shape
<1>3. /\ handler' \in Seq(HandlerType) /\ Request' = Request /\ handler'[r] = x
      /\ \A q \in Request : q # r => handler'[q] = handler[q]
  BY <1>2, HandlerSet, ZenonT(60) DEF Shape
<1>4. ASSUME NEW q \in Request
      PROVE  /\ handler'[q].op = handler[q].op /\ handler'[q].num = handler[q].num
             /\ On(q)' = On(q) /\ (handler'[q] = handler[q] \/ handler'[q].at = "gone")
  <2>1. CASE q = r
    BY <1>3, <2>1, Zenon DEF On
  <2>2. CASE q # r
    BY <1>3, <2>2, Zenon DEF On
  <2> QED BY <2>1, <2>2, Zenon
<1>5. /\ DOMAIN call' = Client /\ call'[c] = None /\ DOMAIN op' = Client
      /\ \A d \in Client \ {c} : call'[d] = call[d] /\ op'[d] = op[d]
      /\ \A d \in Client : op'[d] = op[d] \/ op'[d] = None
  <2>1. DOMAIN call = Client /\ DOMAIN op = Client
    BY <1>2, Zenon DEF ClerkShape
  <2> QED BY <2>1, Zenon
<1>6. handler[r].num \in Nat /\ known \in Nat /\ known' \in Nat /\ known <= known'
  <2>1. handler[r].num \in Nat /\ known \in Nat
    BY <1>2, HandlerFields, Zenon DEF Shape, ClerkShape
  <2> QED BY <2>1, SMTT(60)
<1>7. ClerkShape'
  <2>1. ASSUME NEW d \in Client, op'[d] # None PROVE op'[d] \in OpOf(d, <<d, count[d]>>)
    <3>1. op'[d] = op[d]
      BY <1>5, <2>1, ZenonT(60)
    <3> QED BY <1>2, <2>1, <3>1, ZenonT(40) DEF ClerkShape
  <2>2. ASSUME NEW d \in Client, call'[d] # None
        PROVE  call'[d] \in Request /\ op'[d] # None /\ handler'[call'[d]].op = op'[d]
    <3>1. call'[d] = call[d] /\ op'[d] = op[d]
      BY <1>5, <2>2
    <3>2. call[d] \in Request /\ op[d] # None /\ handler[call[d]].op = op[d]
      BY <1>2, <2>2, <3>1, ZenonT(40) DEF ClerkShape
    <3> QED BY <1>4, <3>1, <3>2, Zenon
  <2>3. ASSUME NEW q \in Request PROVE Numbered(handler[q].op)'
    <3>1. Numbered(handler[q].op)
      BY <1>2, SMTT(60) DEF ClerkShape
    <3> QED BY <1>4, <3>1, ZenonT(60) DEF Numbered
  <2>4. (\A d \in Client : op[d] # None => op[d] \in OpOf(d, <<d, count[d]>>))'
    <3>1. count' = count
      BY Zenon
    <3> QED BY <2>1, <3>1, ZenonT(60) DEF OpOf
  <2>5. count' \in [Client -> Nat] /\ floor' \in [Client -> Nat]
    BY <1>2, Zenon DEF ClerkShape
  <2> QED BY <1>3, <1>5, <1>6, <2>2, <2>3, <2>4, <2>5, Zenon DEF ClerkShape
<1>8. Shape'
  <2>1. LogShape' /\ ServerShape'
    BY <1>2, <1>3 DEF Shape, LogShape, ServerShape
  <2> QED BY <1>3, <1>7, <2>1, Zenon DEF Shape
<1>9. Answered'
  <2>1. \A s, q : Applied(s, q)' <=> Applied(s, q)
    BY DEF Applied
  <2>2. ASSUME NEW q \in Request, handler'[q].at \in {"remove", "finish"}, handler'[q].err = "OK"
        PROVE  Applied(On(q), q)'
    <3>1. handler'[q] = handler[q] /\ On(q)' = On(q)
      BY <1>4, <2>2
    <3> QED BY <2>1, <2>2, <3>1, ZenonT(40) DEF IInv, Answered
  <2> QED BY <1>3, <2>1, <2>2, ZenonT(40) DEF IInv, Answered
<1>10. QueryIsFresh'
  <2> SUFFICES ASSUME NEW d \in Client, call'[d] # None, handler'[call'[d]].at = "done",
                      handler'[call'[d]].err = "OK", handler'[call'[d]].op.method = "Query",
                      handler'[call'[d]].op.num = -1
               PROVE  handler'[call'[d]].num >= floor[d]
    BY Zenon DEF QueryIsFresh
  <2>1. call'[d] = call[d]
    BY <1>5, Zenon
  <2>2. call[d] \in Request
    BY <1>2, <2>1, Zenon DEF ClerkShape
  <2>3. handler'[call[d]] = handler[call[d]]
    BY <1>4, <2>1, <2>2
  <2> QED BY <2>1, <2>3, ZenonT(40) DEF IInv, QueryIsFresh
<1>11. Ledger(G, k, last)'
  BY <1>1, <1>2, <1>4, LedgerKept, Zenon DEF Shape
<1>12. Fresh(k)'
  <2>1. known' < k[Len(log)] /\ \A q \in Request : handler'[q].num < k[Len(log)]
    BY <1>1, <1>4, ZenonT(40) DEF Fresh
  <2>2. \A d \in Client : floor[d] <= known'
    <3> SUFFICES ASSUME NEW d \in Client PROVE floor[d] <= known'
      OBVIOUS
    <3>1. floor[d] <= known /\ floor[d] \in Nat
      BY <1>1, <1>2, Zenon DEF Fresh, ClerkShape
    <3> QED BY <1>6, <3>1, AtMost, Zenon
  <2>3. ASSUME NEW d \in Client, NEW n \in 1 .. Len(log), op'[d] # None, handler'[log[n]].op = op'[d]
        PROVE  floor[d] < k[n - 1]
    <3>1. log[n] \in Request
      BY <1>2, ZenonT(60) DEF Shape, LogShape
    <3>2. op'[d] = op[d] /\ handler'[log[n]].op = handler[log[n]].op
      BY <1>4, <1>5, <2>3, <3>1, Zenon
    <3> QED BY <1>1, <2>3, <3>2, ZenonT(40) DEF Fresh
  <2> QED BY <1>3, <2>1, <2>2, <2>3, Zenon DEF Fresh
<1> QED BY <1>8, <1>9, <1>10, <1>11, <1>12, ZenonT(40) DEF IInv

(* The handler of a call that ends *)
LEMMA CallShape ==
  ASSUME IInv, NEW c \in Client, call[c] # None
  PROVE  /\ call[c] \in Request /\ handler[call[c]] \in HandlerType
         /\ [handler[call[c]] EXCEPT !.at = "gone"] \in HandlerType
<1>1. call[c] \in Request
  BY ZenonT(60) DEF IInv, Shape, ClerkShape
<1>2. handler[call[c]] \in HandlerType
  BY <1>1, HandlerFields, Zenon DEF IInv, Shape
<1>3. PICK h \in HandlerType : h = handler[call[c]]
  BY <1>2
<1>4. [h EXCEPT !.at = "gone"] \in HandlerType
  BY DEF HandlerType, Place
<1> QED BY <1>1, <1>3, <1>4, SMTT(60)

(* A reply, after which the clerk goes on or tries the next server *)
LEMMA ReplyKeeps == ASSUME IInv, NEW c \in Client, Reply(c) PROVE IInv'
<1>1. PICK r : r = call[c]
  OBVIOUS
<1>2. r \in Request /\ handler[r] \in HandlerType
  BY <1>1, CallShape DEF Reply
<1>3. PICK x : x = [handler[r] EXCEPT !.at = "gone"]
  BY Zenon
<1>4. x \in HandlerType
  BY <1>1, <1>3, CallShape DEF Reply
<1>5. /\ x.at = "gone" /\ x.op = handler[r].op /\ x.server = handler[r].server
      /\ x.num = handler[r].num
  BY <1>2, <1>3 DEF HandlerType
<1>6. /\ call' = [call EXCEPT ![c] = None] /\ handler' = [handler EXCEPT ![r] = x]
      /\ UNCHANGED <<log, configs, lastApplies, applied, sending, state, count, floor>>
  BY <1>1, <1>3, Zenon DEF Reply, raftVars, serverVars
<1>7. /\ DOMAIN op' = DOMAIN op
      /\ \A d \in Client : op'[d] = op[d] \/ (d = c /\ op'[d] = None)
  <2>1. op' = [op EXCEPT ![c] = IF handler[r].err = "ErrWrongLeader" THEN @ ELSE None]
    BY <1>1, Zenon DEF Reply
  <2>2. DOMAIN op = Client
    BY Zenon DEF IInv, Shape, ClerkShape
  <2> QED BY <2>1, <2>2
<1>8. known' = known \/ (known' = handler[r].num /\ known' > known)
  BY <1>1 DEF Reply
<1> QED BY <1>2, <1>4, <1>5, <1>6, <1>7, <1>8, HangUp, Zenon

(* Call returns false *)
LEMMA CallFailsKeeps == ASSUME IInv, NEW c \in Client, CallFails(c) PROVE IInv'
<1>1. PICK r : r = call[c]
  OBVIOUS
<1>2. r \in Request /\ handler[r] \in HandlerType
  BY <1>1, CallShape, Zenon DEF CallFails
<1>3. PICK x : x = [handler[r] EXCEPT !.at = IF @ = "done" THEN "gone" ELSE @]
  BY Zenon
<1>4. x = handler[r] \/ x = [handler[r] EXCEPT !.at = "gone"]
  BY <1>2, <1>3 DEF HandlerType
<1>5. x \in HandlerType
  BY <1>1, <1>2, <1>4, CallShape DEF CallFails
<1>6. /\ x = handler[r] \/ x.at = "gone"
      /\ x.op = handler[r].op /\ x.server = handler[r].server /\ x.num = handler[r].num
  BY <1>2, <1>4 DEF HandlerType
<1>7. /\ call' = [call EXCEPT ![c] = None] /\ handler' = [handler EXCEPT ![r] = x]
      /\ UNCHANGED <<log, configs, lastApplies, applied, sending, state, count, floor>>
      /\ UNCHANGED <<op, known>>
  BY <1>1, <1>3, Zenon DEF CallFails, raftVars, serverVars
<1>8. DOMAIN op' = DOMAIN op /\ \A d \in Client : op'[d] = op[d]
  BY <1>7
<1> QED BY <1>2, <1>5, <1>6, <1>7, <1>8, HangUp, Zenon

-----------------------------------------------------------------------------
(* The theorems for every behaviour *)

(* A log without commands: every server has configuration 0 *)
LEMMA InitInv == Init => IInv
<1> SUFFICES ASSUME Init PROVE IInv
  OBVIOUS
<1>1. /\ log = <<>> /\ handler = <<>> /\ Len(log) = 0 /\ Len(handler) = 0
      /\ Request = {} /\ 1 .. Len(log) = {} /\ 0 .. Len(log) = {0}
  BY DEF Init, RaftInit, Request
<1>2. PICK z : z = NoConfig
  OBVIOUS
<1>3. \A s \in Server : configs[s] = <<z>>
  BY <1>2, ZenonT(60) DEF Init
<1>4. \A s \in Server : IsList(configs[s]) /\ Len(configs[s]) = 1 /\ configs[s][1] = z
  BY <1>3, OneSeq, Zenon
<1>5. LogShape /\ handler \in Seq(HandlerType)
  BY <1>1 DEF LogShape
<1>6. ServerShape
  BY <1>1, <1>4, Zenon DEF Init, ServerShape
<1>7. ClerkShape
  BY <1>1, Zenon DEF Init, ClerkShape
<1>8. Answered
  BY <1>1, Zenon DEF Init, Answered
<1>9. QueryIsFresh
  BY DEF Init, QueryIsFresh
<1>10. PICK G, k, last : /\ G = [i \in Nat |-> {}] /\ k = [n \in {0} |-> 1]
                         /\ last = [n \in {0} |-> [c \in Client |-> None]]
  BY Zenon
<1>11. k \in [{0} -> Nat \ {0}] /\ k[0] = 1 /\ G[1] = {} /\ last[0] = [c \in Client |-> None]
  BY <1>10
<1>12. z.num = 0 /\ z.groups = {}
  BY <1>2 DEF NoConfig
<1>13. ASSUME NEW s \in Server PROVE Made(s, G, k[applied[s]]) /\ lastApplies[s] = last[applied[s]]
  <2>1. applied[s] = 0 /\ lastApplies[s] = [c \in Client |-> None]
    BY DEF Init
  <2>2. \A i \in 1 .. 1 : i = 1 /\ i - 1 = 0
    OBVIOUS
  <2> QED BY <1>4, <1>11, <1>12, <2>1, <2>2, ZenonT(60) DEF Made
<1>14. Ledger(G, k, last)
  <2>1. \A m, n \in {0} : m <= n => k[m] <= k[n]
    BY <1>11
  <2> QED BY <1>1, <1>11, <1>13, <2>1, Zenon DEF Ledger
<1>15. Fresh(k)
  BY <1>1, <1>11 DEF Init, Fresh
<1> QED BY <1>5, <1>6, <1>7, <1>8, <1>9, <1>14, <1>15, Zenon DEF IInv, Shape

(* Every step of the servers, of Raft and of the clerks keeps the invariant *)
LEMMA NextInv == IInv /\ [Next]_vars => IInv'
<1> SUFFICES ASSUME IInv, [Next]_vars PROVE IInv'
  OBVIOUS
<1>1. CASE UNCHANGED vars
  BY <1>1, NothingKeeps, Zenon DEF vars, raftVars
<1>2. ASSUME NEW s \in Server, Elect(s) \/ RaftStep(s) PROVE IInv'
  <2>1. UNCHANGED <<log, serverVars, handler, clerkVars>>
    BY <1>2 DEF Elect, RaftStep, Election, StepDown, AppendEntries
  <2> QED BY <2>1, NothingKeeps, Zenon
<1>3. ASSUME NEW r \in Request,
             \/ WaitStable(r) \/ StartOp(r) \/ Commit(r) \/ Register(r)
             \/ Notified(r) \/ WaitTimeout(r) \/ removeCh(r) \/ Respond(r)
      PROVE  IInv'
  BY <1>3, WaitStableKeeps, StartOpKeeps, CommitKeeps, RegisterKeeps, NotifiedKeeps,
     WaitTimeoutKeeps, removeChKeeps, RespondKeeps, Zenon
<1>4. ASSUME NEW c \in Client, Begin(c) \/ Reply(c) \/ CallFails(c) \/ \E s \in Server : Call(c, s)
      PROVE  IInv'
  BY <1>4, BeginKeeps, ReplyKeeps, CallFailsKeeps, CallKeeps, Zenon
<1> QED BY <1>1, <1>2, <1>3, <1>4, applyKeeps, RestartKeeps, Zenon DEF Next

(* The invariant: the configurations of every server are the first of those  *)
(* that the committed commands make, and every answer comes from them.       *)
THEOREM Invariant == Spec => []IInv
  BY InitInv, NextInv, PTL DEF Spec

(* The servers make the same groups in the same order and number them from 0, *)
(* whatever was sent twice, lost, or applied again after a restart.           *)
THEOREM ReplicasAgree == Spec => []ReplicasAgreeOnGroups
<1>1. IInv => ReplicasAgreeOnGroups
  <2> SUFFICES ASSUME IInv, NEW s \in Server, NEW t \in Server, NEW n \in 1 .. Len(configs[s])
               PROVE  /\ configs[s][n].num = n - 1
                      /\ n <= Len(configs[t]) => configs[s][n].groups = configs[t][n].groups
    BY Zenon DEF ReplicasAgreeOnGroups
  <2>1. PICK G, k, last : Ledger(G, k, last)
    BY DEF IInv
  <2>2. \A u \in Server : \A i \in 1 .. Len(configs[u]) :
          configs[u][i].num = i - 1 /\ configs[u][i].groups = G[i]
    BY <2>1, ZenonT(40) DEF Ledger, Made
  <2>3. Len(configs[t]) \in Nat /\ Len(configs[s]) \in Nat
    BY <2>1, NumBound DEF IInv
  <2>4. n <= Len(configs[t]) => n \in 1 .. Len(configs[t])
    BY <2>3
  <2> QED BY <2>2, <2>4, Zenon
<1> QED BY <1>1, Invariant, PTL

(* A Query for the latest configuration is answered with one that is at      *)
(* least as new as any that some clerk knew of when the Query was called.    *)
THEOREM AnswersAreFresh == Spec => []QueryIsFresh
<1>1. IInv => QueryIsFresh
  BY DEF IInv
<1> QED BY <1>1, Invariant, PTL

-----------------------------------------------------------------------------
(* STABLE: a server that is not has a handler that will make it so *)

UnderWay(r) == Changes(r) /\ handler[r].at \in {"started", "waiting", "remove", "finish"}

Explained ==
  \A s \in Server : state[s] # "STABLE" => \E r \in Request : On(r) = s /\ UnderWay(r)

(* A handler goes on. It makes the server STABLE, or it is under way, or it  *)
(* leaves the state alone and was not under way.                             *)
LEMMA ExplainedStep ==
  ASSUME IInv, Explained, NEW r \in Request, NEW x, handler' = [handler EXCEPT ![r] = x],
         x.op = handler[r].op, x.server = handler[r].server,
         \A s \in Server : s # On(r) => state'[s] = state[s],
         \/ state'[On(r)] = "STABLE"
         \/ Changes(r) /\ x.at \in {"started", "waiting", "remove", "finish"}
         \/ state'[On(r)] = state[On(r)] /\ ~UnderWay(r)
  PROVE  Explained'
<1>1. PICK S : S = HandlerType \cup {x}
  BY Zenon
<1>2. handler \in Seq(HandlerType)
  BY Zenon DEF IInv, Shape
<1>3. handler \in Seq(S) /\ x \in S
  BY <1>1, <1>2
<1>4. Len(handler) \in Nat /\ handler \in [1 .. Len(handler) -> S]
  BY <1>3, LenProperties, SMTT(60)
<1>5. handler' \in [1 .. Len(handler) -> S]
  BY <1>3, <1>4, ZenonT(60)
<1>6. Len(handler') = Len(handler)
  BY <1>4, <1>5, LenProperties
<1>7. Request' = Request /\ handler'[r] = x /\ \A q \in Request : q # r => handler'[q] = handler[q]
  BY <1>4, <1>6, Zenon DEF Request
<1>8. /\ On(r)' = On(r) /\ Changes(r)' = Changes(r)
      /\ x.at \in {"started", "waiting", "remove", "finish"} /\ Changes(r) => UnderWay(r)'
  BY <1>7, Zenon DEF On, Changes, UnderWay
<1>9. \A q \in Request : q # r => On(q)' = On(q) /\ UnderWay(q)' = UnderWay(q)
  BY <1>7, Zenon DEF On, Changes, UnderWay
<1> SUFFICES ASSUME NEW s \in Server, state'[s] # "STABLE"
             PROVE  \E q \in Request : On(q)' = s /\ UnderWay(q)'
  BY <1>7 DEF Explained
<1>10. CASE Changes(r) /\ x.at \in {"started", "waiting", "remove", "finish"} /\ s = On(r)
  BY <1>8, <1>10, Zenon
<1>11. CASE state'[s] = state[s] /\ (s = On(r) => ~UnderWay(r))
  <2>1. PICK q \in Request : On(q) = s /\ UnderWay(q)
    BY <1>11, Zenon DEF Explained
  <2>2. q # r
    BY <1>11, <2>1, ZenonT(40)
  <2> QED BY <1>9, <2>1, <2>2, Zenon
<1> QED BY <1>10, <1>11, ZenonT(40)

(* Nothing that Explained speaks of changes *)
LEMMA ExplainedKept ==
  ASSUME Explained, UNCHANGED <<handler, state>>
  PROVE  Explained'
  BY ZenonT(60) DEF Explained, Request, On, UnderWay, Changes

(* A handler has its fields *)
LEMMA Typed == ASSUME IInv, NEW r \in Request PROVE handler[r] \in HandlerType
  BY HandlerFields, Zenon DEF IInv, Shape

(* The places a handler goes through without a change of the state *)
LEMMA ExplainedPass ==
  ASSUME IInv, Explained, NEW r \in Request,
         WaitStable(r) \/ Register(r) \/ Notified(r) \/ WaitTimeout(r)
  PROVE  Explained'
<1>1. /\ \A s \in Server : s # On(r) => state'[s] = state[s]
      /\ state'[On(r)] = state[On(r)]
  BY DEF WaitStable, Register, Notified, WaitTimeout, serverVars
<1>2. CASE WaitStable(r)
  <2>1. PICK x : x = [handler[r] EXCEPT !.at = "start"]
    BY Zenon
  <2>2. handler' = [handler EXCEPT ![r] = x] /\ handler[r].at = "check"
    BY <1>2, <2>1 DEF WaitStable, GoTo
  <2>3. ~UnderWay(r)
    BY <2>2 DEF UnderWay
  <2>4. x.op = handler[r].op /\ x.server = handler[r].server
    BY <2>1, Typed DEF HandlerType
  <2> QED BY <1>1, <2>2, <2>3, <2>4, ExplainedStep, Zenon
<1>3. CASE ~WaitStable(r)
  <2>1. PICK x : handler' = [handler EXCEPT ![r] = x] /\
                 \/ x = [handler[r] EXCEPT !.at = "waiting"]
                 \/ x = [handler[r] EXCEPT !.at = "remove", !.err = "ErrTimeOut"]
                 \/ x = [handler[r] EXCEPT !.at = "remove", !.err = "OK", !.num = Latest(On(r)).num]
    BY <1>3, ZenonT(60) DEF Register, GoTo, Notified, WaitTimeout
  <2>2. /\ x.op = handler[r].op /\ x.server = handler[r].server
        /\ x.at \in {"started", "waiting", "remove", "finish"}
    BY <2>1, Typed, Zenon DEF HandlerType
  <2>3. UnderWay(r) \/ ~Changes(r)
    BY <1>3 DEF UnderWay, Register, Notified, WaitTimeout
  <2>4. CASE Changes(r)
    BY <1>1, <2>1, <2>2, <2>4, ExplainedStep, Zenon
  <2>5. CASE ~Changes(r)
    <3>1. ~UnderWay(r)
      BY <2>5 DEF UnderWay
    <3> QED BY <1>1, <2>1, <2>2, <3>1, ExplainedStep, Zenon
  <2> QED BY <2>4, <2>5
<1> QED BY <1>2, <1>3, Zenon

(* The steps that change the state: TRANSITION and FREEZE are set by a       *)
(* handler that is under way from then on, STABLE by one that returns.       *)
LEMMA ExplainedChange ==
  ASSUME IInv, Explained, NEW r \in Request, StartOp(r) \/ removeCh(r) \/ Respond(r)
  PROVE  Explained'
<1>1. PICK s \in Server : s = On(r)
  BY HandlerFields, Zenon DEF IInv, Shape
<1>2. DOMAIN state = Server
  BY DEF IInv, Shape, ServerShape
<1>3. \A new : changeState(s, new) => /\ state'[s] = new
                                      /\ \A t \in Server : t # s => state'[t] = state[t]
  BY <1>2 DEF changeState
<1>4. CASE StartOp(r) \/ removeCh(r)
  <2>1. PICK x : handler' = [handler EXCEPT ![r] = x] /\
                 \/ x = [handler[r] EXCEPT !.at = "started"]
                 \/ x = [handler[r] EXCEPT !.at = "finish"]
                 \/ x = [handler[r] EXCEPT !.at = "finish", !.err = "ErrWrongLeader"]
    BY <1>4, ZenonT(60) DEF StartOp, GoTo, removeCh
  <2>2. /\ x.op = handler[r].op /\ x.server = handler[r].server
        /\ x.at \in {"started", "waiting", "remove", "finish"}
    BY <2>1, Typed, Zenon DEF HandlerType
  <2>3. CASE Changes(r)
    <3>1. \/ changeState(s, "TRANSITION") \/ changeState(s, "FREEZE") \/ UNCHANGED state
      BY <1>1, <1>4, Zenon DEF StartOp, removeCh
    <3>2. \A t \in Server : t # On(r) => state'[t] = state[t]
      BY <1>1, <1>3, <3>1
    <3> QED BY <2>1, <2>2, <2>3, <3>2, ExplainedStep, Zenon
  <2>4. CASE ~Changes(r)
    <3>1. UNCHANGED state
      BY <1>4, <2>4, Zenon DEF StartOp, removeCh, Freezes, Changes
    <3>2. ~UnderWay(r) /\ state'[On(r)] = state[On(r)]
          /\ \A t \in Server : t # On(r) => state'[t] = state[t]
      BY <2>4, <3>1 DEF UnderWay
    <3> QED BY <2>1, <2>2, <3>2, ExplainedStep, Zenon
  <2> QED BY <2>3, <2>4
<1>5. CASE Respond(r)
  <2>1. PICK x, at, num : handler' = [handler EXCEPT ![r] = x] /\
                          x = [handler[r] EXCEPT !.at = at, !.num = num]
    <3>1. PICK at : at = IF \E c \in Client : call[c] = r THEN "done" ELSE "gone"
      BY Zenon
    <3>2. PICK num : num = IF Changes(r) THEN handler[r].num
                           ELSE getConfigCopy(s, handler[r].op.num).num
      OBVIOUS
    <3>3. PICK x : x = [handler[r] EXCEPT !.at = at, !.num = num]
      OBVIOUS
    <3>4. handler' = [handler EXCEPT ![r] = x]
      BY <1>1, <1>5, <3>1, <3>2, <3>3, ZenonT(60) DEF Respond
    <3> QED BY <3>3, <3>4, ZenonT(60)
  <2>2. x.op = handler[r].op /\ x.server = handler[r].server
    BY <2>1, Typed DEF HandlerType
  <2>3. changeState(s, Unfrozen(r))
    BY <1>1, <1>5, Zenon DEF Respond
  <2>4. /\ \A t \in Server : t # On(r) => state'[t] = state[t]
        /\ state'[On(r)] = Unfrozen(r)
    BY <1>1, <1>3, <2>3, ZenonT(60)
  <2>5. state'[On(r)] = "STABLE" \/ (state'[On(r)] = state[On(r)] /\ ~UnderWay(r))
    BY <2>4 DEF Unfrozen, UnderWay
  <2> QED BY <2>1, <2>2, <2>4, <2>5, ExplainedStep, Zenon
<1> QED BY <1>4, <1>5, Zenon

(* A restart makes the server STABLE and touches no handler of another *)
LEMMA ExplainedRestart ==
  ASSUME IInv, Explained, NEW s \in Server, Restart(s)
  PROVE  Explained'
<1>1. /\ state' = [state EXCEPT ![s] = "STABLE"]
      /\ handler' = [r \in Request |->
                       IF On(r) = s THEN [handler[r] EXCEPT !.at = "gone"] ELSE handler[r]]
  BY SMTT(60) DEF Restart
<1>2. handler \in Seq(HandlerType) /\ handler' \in Seq(HandlerType) /\ DOMAIN state = Server
  BY RestartKeeps, Zenon DEF IInv, Shape, ServerShape
<1>3. Request' = Request
  <2>1. /\ DOMAIN handler' = Request /\ DOMAIN handler' = 1 .. Len(handler')
        /\ Len(handler) \in Nat /\ Len(handler') \in Nat
    BY <1>1, <1>2, LenProperties, Zenon
  <2> QED BY <2>1 DEF Request
<1>4. \A q \in Request : On(q) # s => handler'[q] = handler[q]
  BY <1>1, ZenonT(40)
<1>5. \A q \in Request : On(q) # s => On(q)' = On(q) /\ UnderWay(q)' = UnderWay(q)
  BY <1>4 DEF On, UnderWay, Changes
<1>6. state'[s] = "STABLE" /\ \A t \in Server : t # s => state'[t] = state[t]
  BY <1>1, <1>2, Zenon
<1> SUFFICES ASSUME NEW t \in Server, state'[t] # "STABLE"
             PROVE  \E q \in Request : On(q)' = t /\ UnderWay(q)'
  BY <1>3, Zenon DEF Explained
<1>7. t # s /\ state[t] # "STABLE"
  BY <1>6
<1>8. PICK q \in Request : On(q) = t /\ UnderWay(q)
  BY <1>7, Zenon DEF Explained
<1> QED BY <1>5, <1>7, <1>8, Zenon

(* A clerk calls a server, or stops to wait for its reply. No handler that   *)
(* is under way notices.                                                     *)
LEMMA ExplainedClerk ==
  ASSUME IInv, Explained, NEW c \in Client,
         Reply(c) \/ CallFails(c) \/ \E s \in Server : Call(c, s)
  PROVE  Explained'
<1>1. UNCHANGED state
  BY Zenon DEF Reply, CallFails, Call, serverVars
<1>2. CASE Reply(c) \/ CallFails(c)
  <2>1. PICK r : r = call[c]
    OBVIOUS
  <2>2. r \in Request /\ handler[r] \in HandlerType
    BY <1>2, <2>1, CallShape, Zenon DEF Reply, CallFails
  <2>3. PICK x, at : handler' = [handler EXCEPT ![r] = x] /\ x = [handler[r] EXCEPT !.at = at]
                       /\ (at = handler[r].at \/ handler[r].at = "done")
    <3>1. CASE Reply(c)
      BY <2>1, <3>1, Zenon DEF Reply
    <3>2. CASE CallFails(c)
      <4>1. PICK at : at = IF handler[r].at = "done" THEN "gone" ELSE handler[r].at
        OBVIOUS
      <4>2. handler' = [handler EXCEPT ![r] = [handler[r] EXCEPT !.at = at]]
        BY <2>1, <3>2, <4>1 DEF CallFails
      <4> QED BY <4>1, <4>2, Zenon
    <3> QED BY <1>2, <3>1, <3>2
  <2>4. x.op = handler[r].op /\ x.server = handler[r].server /\ x.at = at
    BY <2>2, <2>3, Typed DEF HandlerType
  <2>5. \/ Changes(r) /\ x.at \in {"started", "waiting", "remove", "finish"}
        \/ ~UnderWay(r)
    BY <2>3, <2>4 DEF UnderWay
  <2> QED BY <1>1, <2>2, <2>3, <2>4, <2>5, ExplainedStep, Zenon
<1>3. ASSUME NEW s \in Server, Call(c, s) PROVE Explained'
  <2>1. handler \in Seq(HandlerType) /\ handler' \in Seq(HandlerType)
    BY <1>3, CallKeeps DEF IInv, Shape
  <2>2. PICK M \in Nat : M = Len(handler)
    BY <2>1, LenProperties, Zenon
  <2>3. PICK x : handler' = Append(handler, x)
    BY <1>3 DEF Call
  <2>4. IsList(handler)
    BY <2>1, Zenon DEF IsList
  <2>5. Len(handler') = M + 1 /\ \A q \in 1 .. M : handler'[q] = handler[q]
    BY <2>2, <2>3, <2>4, AppendSeq, ZenonT(60)
  <2>6. \A q \in Request : q \in Request' /\ handler'[q] = handler[q]
    BY <2>2, <2>5, SMTT(60) DEF Request
  <2>7. \A q \in Request : On(q)' = On(q) /\ UnderWay(q)' = UnderWay(q)
    BY <2>6, Zenon DEF On, UnderWay, Changes
  <2> SUFFICES ASSUME NEW t \in Server, state'[t] # "STABLE"
               PROVE  \E q \in Request' : On(q)' = t /\ UnderWay(q)'
    BY Zenon DEF Explained
  <2>8. PICK q \in Request : On(q) = t /\ UnderWay(q)
    BY <1>1, Zenon DEF Explained
  <2> QED BY <2>6, <2>7, <2>8, ZenonT(40)
<1> QED BY <1>2, <1>3

(* Every step keeps it *)
LEMMA ExplainedNext == IInv /\ Explained /\ [Next]_vars => Explained'
<1> SUFFICES ASSUME IInv, Explained, [Next]_vars PROVE Explained'
  OBVIOUS
<1>1. CASE UNCHANGED vars
  <2>1. UNCHANGED <<handler, state>>
    BY <1>1 DEF vars, serverVars
  <2> QED BY <2>1, ExplainedKept, Zenon
<1>2. ASSUME NEW s \in Server, Elect(s) \/ RaftStep(s) \/ apply(s) PROVE Explained'
  <2>1. UNCHANGED <<handler, state>>
    BY <1>2, Zenon DEF Elect, RaftStep, apply, serverVars
  <2> QED BY <2>1, ExplainedKept, SMTT(60)
<1>3. ASSUME NEW r \in Request, Commit(r) PROVE Explained'
  <2>1. UNCHANGED <<handler, state>>
    BY <1>3, Zenon DEF Commit, serverVars
  <2> QED BY <2>1, ExplainedKept
<1>4. ASSUME NEW c \in Client, Begin(c) PROVE Explained'
  <2>1. UNCHANGED <<handler, state>>
    BY <1>4 DEF Begin, serverVars
  <2> QED BY <2>1, ExplainedKept
<1> QED BY <1>1, <1>2, <1>3, <1>4, ExplainedPass, ExplainedChange, ExplainedRestart,
           ExplainedClerk, ZenonT(40) DEF Next

(* A server on which no change is under way is STABLE, whatever timed out,   *)
(* was repeated or found that the server does not lead: no handler returns   *)
(* without changeState(STABLE).                                              *)
THEOREM IdleServersAreStable == Spec => []IdleIsStable
<1>1. Init => Explained
  BY DEF Init, Explained
<1>2. Explained => IdleIsStable
  <2> SUFFICES ASSUME Explained, NEW s \in Server, state[s] # "STABLE"
               PROVE  \E r \in Request : On(r) = s /\ Changes(r)
                        /\ handler[r].at \notin {"check", "start", "done", "gone"}
    BY Zenon DEF IdleIsStable
  <2>1. PICK r \in Request : On(r) = s /\ UnderWay(r)
    BY Zenon DEF Explained
  <2>2. Changes(r) /\ handler[r].at \notin {"check", "start", "done", "gone"}
    BY <2>1 DEF UnderWay
  <2> QED BY <2>1, <2>2, Zenon
<1> QED BY <1>1, <1>2, ExplainedNext, Invariant, PTL DEF Spec

=============================================================================
