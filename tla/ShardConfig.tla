---------------------------- MODULE ShardConfig ----------------------------
(***************************************************************************)
(* The configurations of the shard master, and how Join, Leave and Move    *)
(* make the next one (shardmaster/server.go: join, leave, move,            *)
(* adjustConfig). Go ranges over a map in any order, and does so anew each *)
(* time, so that an operator here stands for the set of possible results.  *)
(***************************************************************************)
EXTENDS Integers, FiniteSets

CONSTANTS
  Gid,      \* the replica groups
  NShards,  \* the number of shards, 10 in common.go
  NoGid     \* gid 0, the invalid group

ASSUME ShardAssumption == NShards \in Nat \ {0} /\ NoGid \notin Gid

Shard == 0 .. (NShards - 1)

Config == [num : Nat, shards : [Shard -> Gid \cup {NoGid}], groups : SUBSET Gid]

NoConfig == [num |-> 0, shards |-> [i \in Shard |-> NoGid], groups |-> {}]

(* The shards that sh gives to g *)
Of(sh, g) == {i \in Shard : sh[i] = g}

Count(sh, g) == Cardinality(Of(sh, g))

Assign(sh, S, g) == [i \in Shard |-> IF i \in S THEN g ELSE sh[i]]

(* for g := range S { Body }, from st: all outcomes. after[T] are those of   *)
(* the rounds with T, of which any may have been the last.                   *)
ForRange(S, st, Body(_, _)) ==
  LET after[T \in SUBSET S] ==
        IF T = {} THEN {st}
        ELSE UNION {UNION {Body(x, g) : x \in after[T \ {g}]} : g \in T}
  IN  after[S]

(* The loop over the shards that takes those of W, counts r down and stops   *)
(* when r is 0 after a shard. A negative r never gets there.                 *)
Taken(W, r) == {i \in W : \A j \in 0 .. (i - 1) : Cardinality(W \cap 0 .. j) # r}
-----------------------------------------------------------------------------
(* Mutant of Extra: the remainder goes to nobody *)
ExtraNone(left) == 0

(* "if left > 0 { r ++; left -- }" *)
Extra(left) == IF left > 0 THEN 1 ELSE 0

(* Moves up to r shards of the groups in Old to g. x.last holds what is left *)
(* of the old configuration.                                                 *)
MoveGid(x, g, r, Old) ==
  LET step(y, old) ==
        LET T == Taken(Of(y.last, old), y.r) IN
        IF y.stop THEN {y}
        ELSE {[shards |-> Assign(y.shards, T, g), last |-> Assign(y.last, T, NoGid),
               left |-> y.left, r |-> y.r - Cardinality(T),
               stop |-> y.r = Cardinality(T)]}
      start == [shards |-> x.shards, last |-> x.last, left |-> x.left - Extra(x.left),
                r |-> r, stop |-> FALSE]
  IN  {[shards |-> y.shards, last |-> y.last, left |-> y.left] :
         y \in ForRange(Old, start, step)}

(* Fewer groups than before: the shards of those that left go first to the   *)
(* groups that have shards, then to the others.                              *)
Shrink(last, groups) ==
  LET avg == NShards \div Cardinality(groups)
      Old == last.groups \ groups
      cnt(g) == Count(last.shards, g)
      same(x, g) ==
        LET r == avg - cnt(g) + Extra(x.left) IN
        IF cnt(g) = 0 \/ cnt(g) = avg THEN {x}
        ELSE IF r = 0 THEN {[x EXCEPT !.left = @ - 1]}
        ELSE MoveGid(x, g, r, Old)
      different(x, g) ==
        IF cnt(g) # 0 THEN {x} ELSE MoveGid(x, g, avg + Extra(x.left), Old)
      start == [shards |-> last.shards, last |-> last.shards,
                left |-> NShards % Cardinality(groups)]
  IN  {x.shards : x \in UNION {ForRange(groups, y, different) :
                                 y \in ForRange(groups, start, same)}}

(* As many groups or more: groups give up what they have above the average,  *)
(* and those not finished with get it.                                       *)
Grow(last, groups) ==
  LET avg == NShards \div Cardinality(groups)
      clean(x, g) ==
        LET W == Of(x.shards, g)
            e == Extra(x.left)
            r == Count(last.shards, g) - avg
            T == Taken(W, r - e)
        IN  IF g \notin groups THEN {[x EXCEPT !.shards = Assign(@, W, NoGid)]}
            ELSE IF r = 0 THEN {[x EXCEPT !.finish = @ \cup {g}]}
            ELSE IF r = e THEN {[x EXCEPT !.finish = @ \cup {g}, !.left = @ - e]}
            ELSE {[shards |-> Assign(x.shards, T, NoGid), left |-> x.left - e,
                   finish |-> IF Cardinality(T) = r - e THEN x.finish \cup {g} ELSE x.finish]}
      reassign(x, g) ==
        LET T == Taken(Of(x.shards, NoGid), avg + Extra(x.left)) IN
        IF g \in x.finish THEN {x}
        ELSE {[x EXCEPT !.shards = Assign(@, T, g), !.left = @ - Extra(@)]}
      start == [shards |-> last.shards, left |-> NShards % Cardinality(groups), finish |-> {}]
  IN  {x.shards : x \in UNION {ForRange(groups, y, reassign) :
                                 y \in ForRange(last.groups, start, clean)}}

adjustConfig(last, groups) ==
  CASE groups = {} -> {NoConfig.shards}
    [] Cardinality(groups) = 1 -> {[i \in Shard |-> CHOOSE g \in groups : TRUE]}
    [] Cardinality(groups) > 1 ->
         IF Cardinality(groups) < Cardinality(last.groups)
         THEN Shrink(last, groups) ELSE Grow(last, groups)
-----------------------------------------------------------------------------
(* The next configuration after a command: one of these *)

NextConfig(last, groups, S) ==
  {[num |-> last.num + 1, shards |-> sh, groups |-> groups] : sh \in S}

join(last, gids) ==
  NextConfig(last, last.groups \cup gids, adjustConfig(last, last.groups \cup gids))

leave(last, gids) ==
  NextConfig(last, last.groups \ gids, adjustConfig(last, last.groups \ gids))

move(last, shard, gid) ==
  NextConfig(last, last.groups, {[last.shards EXCEPT ![shard] = gid]})
=============================================================================
