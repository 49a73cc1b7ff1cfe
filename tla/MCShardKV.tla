----------------------------- MODULE MCShardKV -----------------------------
(***************************************************************************)
(* Instances of ShardKV: g1, of one server, joins first; g2 has two        *)
(* servers, of which t1 is the first to lead. A clerk appends, and then    *)
(* appends again or reads.                                                 *)
(***************************************************************************)
EXTENDS ShardKV, TLC

CONSTANTS s1, t1, t2, g1, g2

TwoGroups == g1 :> <<s1>> @@ g2 :> <<t1, t2>>

(* A bound on the start: both groups elect a leader, and then g1 joins *)
JoinFirst ==
  Latest = NoConfig =>
    IF leader[g1] = None THEN leader'[g1] = s1
    ELSE IF leader[g2] = None THEN leader'[g2] = t1
    ELSE Len(configs') = 2 /\ g1 \in configs'[2].groups

AppendThenUse ==
  \A c \in Client : count'[c] # count[c] =>
    op'[c].method \in IF op'[c].id[2] = 1 THEN {"Append"} ELSE {"Append", "Get"}

(* Bounds of skv: clerks and changes begin when all servers know the first   *)
(* configuration; the second group joins, rather than that the first leaves; *)
(* something goes wrong only while something is under way after that; and    *)
(* while t1 leads, t2 applies what t1 has applied.                           *)
FirstIsTaken ==
  Len(configs) = 2 /\ count = [c \in Client |-> 0] /\ ~Settled =>
    UNCHANGED <<configs, count, faults>>

SecondJoins == Len(configs') = 3 => Latest'.groups = {g1, g2}

FaultLater == faults' # faults => Len(configs) = 3 /\ ~Settled

FollowerLater ==
  applied'[t2] > applied[t2] /\ leader[g2] = t1 => applied'[t2] <= applied[t1]
=============================================================================
