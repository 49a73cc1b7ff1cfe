------------------------------ MODULE KVStore ------------------------------
(***************************************************************************)
(* What kvraft promises its clerks: one key/value store, on which each     *)
(* Put and Append takes effect once, at one moment between its call and    *)
(* its return, and a Get returns a value the key had in that time.         *)
(***************************************************************************)
EXTENDS Sequences

CONSTANTS Client, Key, Id, None  \* Id names what the operations write

VARIABLES
  store,    \* the value of each key: what was put, and then appended
  request,  \* request[c]: the operation c is waiting for, or None
  effect,   \* effect[c]: whether it has taken effect
  seen,     \* seen[c]: the values its key has had since the call
  answer    \* answer[c]: what the Get that c has just finished returned

vars == <<store, request, effect, seen, answer>>

Init ==
  /\ store = [k \in Key |-> <<>>]
  /\ request = [c \in Client |-> None]
  /\ effect = [c \in Client |-> FALSE]
  /\ seen = [c \in Client |-> {}]
  /\ answer = [c \in Client |-> <<>>]

Call(c) ==
  /\ request[c] = None
  /\ \E m \in {"Get", "Put", "Append"}, k \in Key, id \in Id :
       /\ request' = [request EXCEPT ![c] =
                        [client |-> c, id |-> id, method |-> m, key |-> k]]
       /\ seen' = [seen EXCEPT ![c] = {store[k]}]
  /\ answer' = [answer EXCEPT ![c] = <<>>]
  /\ UNCHANGED <<store, effect>>

(* The value a Put or Append leaves behind *)
Written(op, old) ==
  IF op.method = "Put" THEN <<op.id>> ELSE Append(old, op.id)

TakeEffect(c) ==
  /\ request[c] # None
  /\ request[c].method # "Get"
  /\ ~effect[c]
  /\ LET k == request[c].key
         v == Written(request[c], store[k])
     IN  /\ store' = [store EXCEPT ![k] = v]
         /\ seen' = [d \in Client |->
                       IF request[d] # None /\ request[d].key = k
                       THEN seen[d] \cup {v} ELSE seen[d]]
  /\ effect' = [effect EXCEPT ![c] = TRUE]
  /\ UNCHANGED <<request, answer>>

Return(c) ==
  /\ request[c] # None
  /\ \/ /\ request[c].method = "Get"
        /\ \E v \in seen[c] : answer' = [answer EXCEPT ![c] = v]
     \/ /\ request[c].method # "Get"
        /\ effect[c]
        /\ UNCHANGED answer
  /\ request' = [request EXCEPT ![c] = None]
  /\ effect' = [effect EXCEPT ![c] = FALSE]
  /\ seen' = [seen EXCEPT ![c] = {}]
  /\ UNCHANGED store

Next == \E c \in Client : Call(c) \/ TakeEffect(c) \/ Return(c)

Spec == Init /\ [][Next]_vars
=============================================================================
