--------------------------- MODULE MCShardMaster ---------------------------
(***************************************************************************)
(* An instance of ShardMaster in two parts. Either two simple operations   *)
(* overlap in every way, with faults; or one clerk changes the             *)
(* configuration in any way, time after time, on one server.               *)
(***************************************************************************)
EXTENDS ShardMaster, TLC

CONSTANT MaxOverlap  \* requests when operations overlap

Symmetry == Permutations(Server) \cup Permutations(Client) \cup Permutations(Gid)

Ops == {handler[r].op : r \in Request} \cup {op[c] : c \in {d \in Client : op[d] # None}}

Simple(o) ==
  \/ o.method = "Query" /\ o.num \in {-1, 0}
  \/ o.method \in {"Join", "Leave"} /\ Cardinality(o.gids) = 1

Change(o) ==
  \/ o.method \in {"Join", "Leave"} /\ o.gids # {}
  \/ o.method = "Move" /\ o.shard = 0

Overlap ==
  /\ \A o \in Ops : Simple(o)
  /\ Len(handler) <= MaxOverlap
  /\ \A c \in Client : count[c] <= 1

Serial ==
  /\ faults = 0
  /\ \A o \in Ops : Change(o)
  /\ Cardinality({c \in Client : count[c] > 0}) <= 1
  /\ \A s \in Server : leads[s] = 0 => applied[s] = 0 /\ tail[s] \in {<<>>, None}
  /\ Cardinality({r \in Request : handler[r].at # "gone"}) <= 1

OverlapOrSerial == Overlap' \/ Serial'
=============================================================================
