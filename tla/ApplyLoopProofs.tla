-------------------------- MODULE ApplyLoopProofs --------------------------
(***************************************************************************)
(* What ApplyLoop does for every capacity of notifyApplyCh, every number   *)
(* of handlers and every length of the log: Apply never panics, and its    *)
(* two deadlocks are final.                                                *)
(***************************************************************************)
EXTENDS ApplyLoop, SequenceTheorems, TLAPS

(* BatchFits is not inductive: the commands on their way are committed, and  *)
(* a snapshot is sent alone, so that the commitIndex it sets back is not     *)
(* behind a command that follows it.                                         *)
BatchInv ==
  /\ BatchFits
  /\ \A k \in 1 .. Len(msgs) :
       IF msgs[k].CommandValid THEN msgs[k].CommandIndex <= commitIndex
                               ELSE Len(msgs) = 1

IInv == TypeOK /\ BatchInv

(* What Apply puts together is a sequence of messages: committed commands,   *)
(* or a snapshot alone.                                                      *)
LEMMA BatchType ==
  ASSUME IInv
  PROVE  /\ Batch \in Seq(Message)
         /\ \A k \in 1 .. Len(Batch) :
              IF Batch[k].CommandValid THEN Batch[k].CommandIndex <= commitIndex
                                       ELSE Len(Batch) = 1
<1>1. /\ commitIndex \in 0 .. MaxIndex /\ lastApplied \in 0 .. MaxIndex
      /\ lastSnapshotIndex \in 0 .. MaxIndex /\ MaxIndex \in Nat
      /\ lastApplied <= commitIndex
  BY LoopAssumption DEF IInv, TypeOK, BatchInv, BatchFits
<1>2. CASE lastApplied < lastSnapshotIndex
  <2>1. [CommandValid |-> FALSE, CommandIndex |-> lastSnapshotIndex] \in Message
    BY <1>1, <1>2 DEF Message, Index
  <2>2. Batch = << [CommandValid |-> FALSE, CommandIndex |-> lastSnapshotIndex] >>
    BY <1>2, Zenon DEF Batch
  <2> QED BY <2>1, <2>2
<1>3. CASE ~(lastApplied < lastSnapshotIndex)
  <2> DEFINE n == commitIndex - lastApplied
             M(k) == [CommandValid |-> TRUE, CommandIndex |-> lastApplied + k]
  <2>1. Batch = [k \in 1 .. n |-> M(k)]
    BY <1>3 DEF Batch
  <2>2. n \in Nat
    BY <1>1
  <2>3. \A k \in 1 .. n : M(k) \in Message /\ lastApplied + k <= commitIndex
    BY <1>1 DEF Message, Index
  <2>4. Batch \in Seq(Message) /\ Len(Batch) = n
    BY <2>1, <2>2, <2>3, IsASeq
  <2>5. \A k \in 1 .. n : Batch[k] = M(k)
    BY <2>1
  <2> HIDE DEF n
  <2> QED BY <2>3, <2>4, <2>5
<1> QED BY <1>2, <1>3

(* The first message of msgs is a message, and the others keep their order   *)
LEMMA HeadTail ==
  ASSUME IInv, msgs # <<>>
  PROVE  /\ Head(msgs) \in Message /\ Head(msgs) = msgs[1] /\ Len(msgs) >= 1
         /\ Len(msgs) \in Nat
         /\ Tail(msgs) \in Seq(Message) /\ Len(Tail(msgs)) = Len(msgs) - 1
         /\ \A k \in 1 .. Len(Tail(msgs)) : Tail(msgs)[k] = msgs[k + 1]
<1>1. msgs \in Seq(Message)
  BY DEF IInv, TypeOK
<1>2. Len(msgs) \in Nat \ {0}
  BY <1>1, EmptySeq, LenProperties
<1>3. /\ Head(msgs) \in Message /\ Tail(msgs) \in Seq(Message)
  BY <1>1, HeadTailProperties
<1> QED BY <1>1, <1>2, <1>3, HeadTailProperties

(* Every step keeps the strengthened invariant *)
LEMMA StepKeepsInv ==
  ASSUME IInv, [Next]_vars
  PROVE  IInv'
<1> USE LoopAssumption
<1>1. ASSUME NEW n \in Index, LeaderCommit(n) \/ AppendEntries(n) PROVE IInv'
  <2>1. /\ commitIndex' \in 0 .. MaxIndex /\ committed' \in 0 .. MaxIndex
        /\ commitIndex < commitIndex'
        /\ notify' \in 0 .. Capacity
    BY <1>1 DEF LeaderCommit, AppendEntries, CommitUpTo, loopVars, IInv, TypeOK, Index
  <2>2. blocked' \in BOOLEAN /\ leading' \in BOOLEAN
    BY <1>1, Zenon DEF LeaderCommit, AppendEntries, loopVars, IInv, TypeOK
  <2>3. UNCHANGED <<lastApplied, lastSnapshotIndex, armed, fired, loop, msgs,
                    service, waiter, handler, index>>
    BY <1>1, Zenon DEF LeaderCommit, AppendEntries, loopVars, serviceVars
  <2>4. TypeOK'
    BY <2>1, <2>2, <2>3 DEF IInv, TypeOK, Message, Index
  <2>5. \A k \in 1 .. Len(msgs) : msgs[k].CommandIndex \in Nat
    <3>1. msgs \in Seq(Message)
      BY DEF IInv, TypeOK
    <3>2. \A k \in 1 .. Len(msgs) : msgs[k] \in Message
      BY <3>1, ElementOfSeq
    <3> QED BY <3>2 DEF Message, Index
  <2>6. commitIndex \in Nat /\ lastApplied \in Nat /\ commitIndex' \in Nat
    BY <2>1 DEF IInv, TypeOK
  <2>7. BatchInv'
    BY <2>1, <2>3, <2>5, <2>6 DEF IInv, BatchInv, BatchFits
  <2> QED BY <2>4, <2>7 DEF IInv
<1>2. ASSUME NEW n \in Index, InstallSnapshot(n) PROVE IInv'
  <2>1. leading' \in BOOLEAN
    BY <1>2, Zenon DEF InstallSnapshot
  <2> QED
    BY <1>2, <2>1 DEF InstallSnapshot, IInv, TypeOK, BatchInv, BatchFits, Index, Message,
                      loopVars, serviceVars
<1>3. CASE Unblock
  <2>1. notify' \in 0 .. Capacity
    BY <1>3 DEF Unblock, IInv, TypeOK
  <2>2. blocked' \in BOOLEAN
    BY <1>3, Zenon DEF Unblock
  <2>3. UNCHANGED <<raftVars, armed, fired, loop, msgs, serviceVars, handler, index>>
    BY <1>3 DEF Unblock
  <2> QED
    BY <2>1, <2>2, <2>3 DEF IInv, TypeOK, BatchInv, BatchFits, Index, Message, raftVars,
                            serviceVars
<1>4. CASE applyTimerFires
  BY <1>4, Zenon DEF applyTimerFires, IInv, TypeOK, BatchInv, BatchFits, Index, Message, raftVars,
              serviceVars
<1>5. CASE SelectTimer
  BY <1>5, Zenon DEF SelectTimer, IInv, TypeOK, BatchInv, BatchFits, Index, Message, raftVars,
              serviceVars
<1>6. CASE SignalItself
  BY <1>6 DEF SignalItself, IInv, TypeOK, BatchInv, BatchFits, Index, Message, raftVars,
              serviceVars
<1>7. CASE SelectNotify
  BY <1>7 DEF SelectNotify, IInv, TypeOK, BatchInv, BatchFits, Index, Message, raftVars,
              serviceVars
<1>8. CASE Apply
  <2>1. msgs' = Batch
    BY <1>8 DEF Apply, Proceed
  <2>2. /\ msgs' \in Seq(Message)
        /\ \A k \in 1 .. Len(msgs') :
             IF msgs'[k].CommandValid THEN msgs'[k].CommandIndex <= commitIndex
                                      ELSE Len(msgs') = 1
    BY <2>1, BatchType
  <2>3. /\ loop' \in {"select", "sending"}
        /\ (loop' = "sending") <=> msgs' # <<>>
        /\ armed' \in BOOLEAN
    BY <1>8 DEF Apply, Proceed, IInv, TypeOK
  <2> QED
    BY <1>8, <2>2, <2>3
    DEF Apply, IInv, TypeOK, BatchInv, BatchFits, Index, Message, raftVars, serviceVars
<1>9. CASE Deliver
  <2>1. service' \in {"idle", "saving", "notifying"} /\ waiter' \in SUBSET Handler
    BY <1>9 DEF Deliver, NotifyWaiter, serviceVars, IInv, TypeOK
  <2>2. loop = "sending" /\ loop' = "sent"
    BY <1>9 DEF Deliver
  <2>3. UNCHANGED <<raftVars, notify, blocked, armed, fired, msgs, handler, index>>
    BY <1>9 DEF Deliver
  <2> QED
    BY <2>1, <2>2, <2>3 DEF IInv, TypeOK, BatchInv, BatchFits, Index, Message, raftVars
<1>10. CASE Applied
  <2>1. msgs # <<>>
    BY <1>10 DEF Applied, IInv, TypeOK
  <2>2. /\ Head(msgs) \in Message /\ Head(msgs) = msgs[1] /\ Len(msgs) >= 1
        /\ Len(msgs) \in Nat
        /\ Tail(msgs) \in Seq(Message) /\ Len(Tail(msgs)) = Len(msgs) - 1
        /\ \A k \in 1 .. Len(Tail(msgs)) : Tail(msgs)[k] = msgs[k + 1]
    BY <2>1, HeadTail
  <2>3. /\ msgs' = Tail(msgs)
        /\ loop' \in {"select", "sending"}
        /\ (loop' = "sending") <=> msgs' # <<>>
        /\ armed' \in BOOLEAN
    BY <1>10 DEF Applied, Proceed, IInv, TypeOK
  <2>4. /\ lastApplied' = msgs[1].CommandIndex /\ lastApplied' \in Index
        /\ IF msgs[1].CommandValid THEN commitIndex' = commitIndex
                                   ELSE commitIndex' = lastApplied' /\ Len(msgs) = 1
        /\ lastApplied' <= commitIndex'
        /\ commitIndex' \in 0 .. MaxIndex /\ committed' \in 0 .. MaxIndex
    BY <1>10, <2>2 DEF Applied, CommitOf, IInv, TypeOK, BatchInv, Message, Index
  <2>5. \A k \in 1 .. Len(msgs') :
          IF msgs'[k].CommandValid THEN msgs'[k].CommandIndex <= commitIndex'
                                   ELSE Len(msgs') = 1
    <3>1. \A k \in 1 .. Len(msgs') : k + 1 \in 1 .. Len(msgs) /\ msgs'[k] = msgs[k + 1]
      BY <2>2, <2>3
    <3>2. ASSUME NEW k \in 1 .. Len(msgs')
          PROVE  IF msgs'[k].CommandValid THEN msgs'[k].CommandIndex <= commitIndex'
                                          ELSE Len(msgs') = 1
      <4>1. Len(msgs) > 1
        BY <2>2, <2>3, <3>1
      <4>2. commitIndex' = commitIndex
        BY <2>2, <2>4, <4>1, SMTT(60)
      <4> QED BY <3>1, <4>1, <4>2 DEF IInv, BatchInv
    <3> QED BY <3>2
  <2> QED
    BY <1>10, <2>2, <2>3, <2>4, <2>5, SMTT(60)
    DEF Applied, IInv, TypeOK, BatchInv, BatchFits, Index, serviceVars
<1>11. CASE saveSnapshot
  <2>1. service' \in {"idle", "saving", "notifying"} /\ waiter' \in SUBSET Handler
    BY <1>11 DEF saveSnapshot, NotifyWaiter, IInv, TypeOK
  <2>2. lastSnapshotIndex' \in 0 .. MaxIndex
    <3>1. loop = "sent" => Head(msgs) \in Message
      BY HeadTail DEF IInv, TypeOK
    <3> QED BY <1>11, <3>1 DEF saveSnapshot, Taken, IInv, TypeOK, Message, Index
  <2>3. UNCHANGED <<leading, commitIndex, lastApplied, committed, loopVars, handler, index>>
    BY <1>11 DEF saveSnapshot
  <2> QED
    BY <2>1, <2>2, <2>3 DEF IInv, TypeOK, BatchInv, BatchFits, Index, Message, loopVars
<1>12. ASSUME NEW h \in Handler, Request(h) \/ HandlerStep(h) PROVE IInv'
  <2>1. UNCHANGED <<raftVars, loopVars>>
    BY <1>12 DEF Request, HandlerStep, Notified, Start, Register, WaitTimeout, removeCh
  <2>2. /\ handler' \in [Handler -> {"idle", "calling", "started", "waiting", "leaving"}]
        /\ index' \in [Handler -> 0 .. MaxIndex]
        /\ service' \in {"idle", "saving", "notifying"} /\ waiter' \in SUBSET Handler
    BY <1>12, SMTT(60) DEF Request, HandlerStep, Notified, Start, Register, WaitTimeout, removeCh,
                 IInv, TypeOK, serviceVars
  <2> QED
    BY <2>1, <2>2
    DEF IInv, TypeOK, BatchInv, BatchFits, Index, Message, raftVars, loopVars
<1>13. CASE changeRole
  <2>1. leading' \in BOOLEAN
    BY <1>13, Zenon DEF changeRole
  <2>2. UNCHANGED <<commitIndex, lastApplied, lastSnapshotIndex, committed, loopVars,
                    serviceVars, handler, index>>
    BY <1>13, Zenon DEF changeRole
  <2> QED
    BY <2>1, <2>2 DEF IInv, TypeOK, BatchInv, BatchFits, Index, Message, loopVars, serviceVars
<1>14. CASE UNCHANGED vars
  BY <1>14 DEF vars, IInv, TypeOK, BatchInv, BatchFits, Index, Message, raftVars, loopVars,
               serviceVars
<1> QED
  BY <1>1, <1>2, <1>3, <1>4, <1>5, <1>6, <1>7, <1>8, <1>9, <1>10, <1>11, <1>12, <1>13, <1>14
  DEF Next, LoopStep

(* The strengthened invariant holds when a server starts *)
LEMMA InitInv == Init => IInv
<1> SUFFICES ASSUME Init PROVE IInv
  OBVIOUS
<1>1. /\ commitIndex \in 0 .. MaxIndex /\ lastApplied \in 0 .. MaxIndex
      /\ lastSnapshotIndex \in 0 .. MaxIndex /\ committed \in 0 .. MaxIndex
      /\ notify \in 0 .. Capacity /\ lastApplied <= commitIndex
      /\ index \in [Handler -> 0 .. MaxIndex]
  BY LoopAssumption DEF Init
<1>2. leading \in BOOLEAN /\ blocked \in BOOLEAN /\ armed \in BOOLEAN /\ fired \in BOOLEAN
  BY Zenon DEF Init
<1>3. msgs = <<>> /\ loop = "select" /\ msgs \in Seq(Message) /\ Len(msgs) = 0
  BY DEF Init
<1>4. /\ service = "idle" /\ waiter \in SUBSET Handler
      /\ handler \in [Handler -> {"idle", "calling", "started", "waiting", "leaving"}]
  BY DEF Init
<1>5. TypeOK
  BY <1>1, <1>2, <1>3, <1>4 DEF TypeOK
<1>6. BatchInv
  BY <1>1, <1>3 DEF BatchInv, BatchFits
<1> QED BY <1>5, <1>6 DEF IInv

(* Apply never panics: in every reachable state what is applied is committed *)
THEOREM ApplyNeverPanics == Spec => []BatchFits
<1>1. IInv /\ [Next]_vars => IInv'
  BY StepKeepsInv
<1>2. IInv => BatchFits
  BY DEF IInv, BatchInv
<1> QED BY InitInv, <1>1, <1>2, PTL DEF Spec

(* The variables keep their types; in particular notifyApplyCh never holds   *)
(* more than its capacity.                                                   *)
THEOREM TypesHold == Spec => []TypeOK
<1>1. IInv /\ [Next]_vars => IInv'
  BY StepKeepsInv
<1>2. IInv => TypeOK
  BY DEF IInv
<1> QED BY InitInv, <1>1, <1>2, PTL DEF Spec

(* WaitApplyCh sends to h, which waits for kv.mu: no step changes that *)
LEMMA WaiterGoneStays ==
  ASSUME TypeOK, [Next]_vars, WaiterGone
  PROVE  WaiterGone'
<1>1. service = "notifying"
  BY DEF WaiterGone
<1>2. PICK h \in waiter : handler[h] = "leaving"
  BY DEF WaiterGone
<1>3. handler \in [Handler -> {"idle", "calling", "started", "waiting", "leaving"}]
  BY DEF TypeOK
<1>4. ASSUME NEW g \in Handler, Request(g) \/ HandlerStep(g)
      PROVE  handler'[h] = "leaving" /\ UNCHANGED serviceVars
  <2>1. CASE Notified(g)
    BY <2>1, <1>2 DEF Notified
  <2>2. CASE removeCh(g)
    BY <2>2, <1>1 DEF removeCh, kvMuFree
  <2>3. CASE Request(g) \/ Start(g) \/ Register(g) \/ WaitTimeout(g)
    <3>1. handler[g] # "leaving" /\ UNCHANGED serviceVars
      BY <2>3 DEF Request, Start, Register, WaitTimeout
    <3>2. PICK x : handler' = [handler EXCEPT ![g] = x]
      BY <2>3 DEF Request, Start, Register, WaitTimeout
    <3> QED BY <3>1, <3>2, <1>2, <1>3
  <2> QED BY <1>4, <2>1, <2>2, <2>3 DEF HandlerStep
<1>5. CASE UNCHANGED handler /\ UNCHANGED serviceVars
  BY <1>1, <1>2, <1>5 DEF WaiterGone, serviceVars
<1>6. CASE \E g \in Handler : Request(g) \/ HandlerStep(g)
  BY <1>1, <1>2, <1>4, <1>6 DEF WaiterGone, serviceVars
<1>7. ~saveSnapshot /\ ~Deliver
  BY <1>1, SMTT(60) DEF saveSnapshot, Deliver
<1> QED
  BY <1>5, <1>6, <1>7
  DEF Next, LoopStep, vars, changeRole, LeaderCommit, AppendEntries, InstallSnapshot, Unblock, applyTimerFires,
      SelectTimer, SignalItself, SelectNotify, Apply, Applied

(* notifyApplyCh is full and the apply goroutine waits: no step changes that *)
LEMMA NotifyFullStays ==
  ASSUME [Next]_vars, NotifyFull
  PROVE  NotifyFull'
<1>1. notify = Capacity /\ ~(notify < Capacity) /\ loop # "select"
  BY LoopAssumption DEF NotifyFull
<1>2. ~Unblock /\ ~SignalItself /\ ~SelectTimer /\ ~SelectNotify
  BY <1>1 DEF Unblock, SignalItself, SelectTimer, SelectNotify
<1>3. ASSUME NEW n \in Index, AppendEntries(n) PROVE NotifyFull'
  BY <1>1, <1>3 DEF AppendEntries, NotifyFull, rfMuFree
<1>4. ~Apply /\ ~Applied
  BY DEF Apply, Applied, rfMuFree, NotifyFull
<1>5. CASE Deliver
  BY <1>5 DEF Deliver, NotifyFull
<1>6. CASE UNCHANGED <<notify, blocked, loop>>
  BY <1>6 DEF NotifyFull
<1> QED
  BY <1>2, <1>3, <1>4, <1>5, <1>6
  DEF Next, LoopStep, HandlerStep, vars, loopVars, changeRole, LeaderCommit, InstallSnapshot, applyTimerFires,
      saveSnapshot, Request, Notified, Start, Register, WaitTimeout, removeCh

(* A step leaves a server in the deadlock it is in *)
StaysStuck == (WaiterGone => WaiterGone') /\ (NotifyFull => NotifyFull')

(* The two deadlocks that AppliesCommitted and CallsReturn except are real   *)
(* ones: once WaitApplyCh sends to a handler that waits for kv.mu, or        *)
(* notifyApplyCh is full and its only reader waits, no timeout, heartbeat or *)
(* request gets the server out of it.                                        *)
THEOREM DeadlocksAreFinal == Spec => [][StaysStuck]_vars
<1>1. TypeOK /\ [Next]_vars => StaysStuck
  BY WaiterGoneStays, NotifyFullStays DEF StaysStuck
<1> QED BY <1>1, TypesHold, PTL DEF Spec
=============================================================================
