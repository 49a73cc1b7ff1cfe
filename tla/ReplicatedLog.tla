---------------------------- MODULE ReplicatedLog ----------------------------
(***************************************************************************)
(* What Raft promises the service on top of it: there is one log of chosen *)
(* entries that only grows, and the service of every server applies that   *)
(* log in order, without gaps or repetitions. A server may jump forward by *)
(* loading a snapshot, and goes back to a snapshot only when it restarts.  *)
(***************************************************************************)
EXTENDS Naturals, Sequences

CONSTANTS Server, Entry

VARIABLES
  chosen,   \* the entries agreed on, in order
  sm,       \* sm[i]: the entries the service of server i has applied
  restarts  \* how many times a server restarted

vars == <<chosen, sm, restarts>>

Init == chosen = << >> /\ sm = [i \in Server |-> << >>] /\ restarts = 0

Prefix(n) == SubSeq(chosen, 1, n)

Agree ==
  /\ chosen' \in Seq(Entry)
  /\ Len(chosen') > Len(chosen)
  /\ SubSeq(chosen', 1, Len(chosen)) = chosen
  /\ UNCHANGED <<sm, restarts>>

ApplyNext(i) ==
  /\ Len(sm[i]) < Len(chosen)
  /\ sm' = [sm EXCEPT ![i] = Prefix(Len(@) + 1)]
  /\ UNCHANGED <<chosen, restarts>>

LoadSnapshot(i) ==
  /\ \E n \in Len(sm[i]) .. Len(chosen) : sm' = [sm EXCEPT ![i] = Prefix(n)]
  /\ UNCHANGED <<chosen, restarts>>

Restart(i) ==
  /\ \E n \in 0 .. Len(chosen) : sm' = [sm EXCEPT ![i] = Prefix(n)]
  /\ restarts' = restarts + 1
  /\ UNCHANGED chosen

Next == Agree \/ \E i \in Server : ApplyNext(i) \/ LoadSnapshot(i) \/ Restart(i)

Spec == Init /\ [][Next]_vars

=============================================================================
