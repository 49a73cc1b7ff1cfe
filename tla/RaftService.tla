---------------------------- MODULE RaftService ----------------------------
(***************************************************************************)
(* Raft as the services on it see it: commands that are committed in one   *)
(* order, a server that takes commands because it believes to lead, and    *)
(* commands that are lost because it did not. What a service is given is   *)
(* the promise of module ReplicatedLog: the commands of log, in order.     *)
(* A service module EXTENDS this one and says what else its steps do.      *)
(***************************************************************************)
EXTENDS Naturals, Sequences

CONSTANTS Server, None

VARIABLES
  log,    \* the committed commands
  tail,   \* tail[s]: what the log of s has after them; None if it lacks some
  leads,  \* leads[s]: the term in which s believes to lead, or 0
  term    \* the latest term

raftVars == <<log, tail, leads, term>>

RaftInit ==
  /\ log = <<>>
  /\ tail = [s \in Server |-> <<>>]
  /\ leads = [s \in Server |-> 0]
  /\ term = 0

Leading(s) == term > 0 /\ leads[s] = term

HasLeader == \E s \in Server : Leading(s)

(* s wins an election, which takes a log with all that is committed. A      *)
(* leader of an older term does not know before it hears of the new one.    *)
Election(s) ==
  /\ tail[s] # None
  /\ ~Leading(s)
  /\ term' = term + 1
  /\ leads' = [leads EXCEPT ![s] = term + 1]
  /\ UNCHANGED <<log, tail>>

StepDown(s) ==
  /\ leads[s] > 0 /\ leads[s] < term
  /\ leads' = [leads EXCEPT ![s] = 0]
  /\ UNCHANGED <<log, tail, term>>

(* s takes over the log of the leader *)
AppendEntries(s) ==
  /\ \E l \in Server : /\ Leading(l) /\ tail[s] # tail[l]
                       /\ tail' = [tail EXCEPT ![s] = tail[l]]
  /\ leads' = [leads EXCEPT ![s] = 0]
  /\ UNCHANGED <<log, term>>

(* The leader commits its next command r. A log without it is behind. *)
LeaderCommit(r) ==
  /\ \E l \in Server : Leading(l) /\ tail[l] \notin {None, <<>>} /\ r = Head(tail[l])
  /\ log' = Append(log, r)
  /\ tail' = [s \in Server |->
                IF tail[s] # None /\ tail[s] # <<>> /\ Head(tail[s]) = r
                THEN Tail(tail[s]) ELSE None]
  /\ UNCHANGED <<leads, term>>

(* The service of s hands in a command. On a log that is behind it is lost. *)
Start(s, r) ==
  /\ leads[s] > 0
  /\ tail' = [tail EXCEPT ![s] = IF @ = None THEN None ELSE Append(@, r)]
  /\ UNCHANGED <<log, leads, term>>

(* A crash of s: the log is on disk, the role is not *)
Make(s) ==
  /\ leads' = [leads EXCEPT ![s] = 0]
  /\ UNCHANGED <<log, tail, term>>
=============================================================================
