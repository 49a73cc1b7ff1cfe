------------------------------ MODULE MCKVRaft ------------------------------
(* An instance of KVRaft in which every clerk begins with a write *)
EXTENDS KVRaft

(* The first operation of a clerk writes, the second appends or reads *)
WriteThenUse ==
  \A c \in Client : op'[c] # None =>
    op'[c].method # IF op'[c].id[2] = 1 THEN "Get" ELSE "Put"
=============================================================================
