----------------------------- MODULE ApplyLoop -----------------------------
(***************************************************************************)
(* How one server hands committed commands to its service, with the locks  *)
(* and channels on the way: the goroutine of Periodic that applies, the    *)
(* handlers that commit, WaitApplyCh of kvraft, and the handlers of clerks *)
(* in waitForRaft. Modules Raft and KVRaft take these steps without the    *)
(* locks.                                                                  *)
(*                                                                         *)
(* A critical section that does not wait for a channel is one step. The    *)
(* two that do: a handler holds rf.mu while it sends on notifyApplyCh, and *)
(* WaitApplyCh holds kv.mu while it waits for rf.mu to take a snapshot and *)
(* while it sends a result.                                                *)
(***************************************************************************)
EXTENDS Naturals, Sequences

CONSTANTS
  Handler,   \* goroutines that run handlers of clerks' requests
  Capacity,  \* of notifyApplyCh
  MaxIndex   \* no later log index is committed

ASSUME LoopAssumption == Capacity \in Nat /\ MaxIndex \in Nat

VARIABLES
  leading,     \* rf.state is LEADER
  commitIndex, lastApplied, lastSnapshotIndex,
  committed,   \* history: the highest commitIndex so far
  notify,      \* the number of signals in notifyApplyCh
  blocked,     \* a handler holds rf.mu and waits for room in notifyApplyCh
  armed,       \* applyTimer runs
  fired,       \* applyTimer.C has a value
  loop,        \* where the apply goroutine is
  msgs,        \* what Apply has yet to send, or to count as applied
  service,     \* where WaitApplyCh is
  waiter,      \* the handlers whose channel it sends to: one or none
  handler,     \* handler[h]: where waitForRaft is
  index        \* index[h]: the log index Start gave its command

raftVars == <<leading, commitIndex, lastApplied, lastSnapshotIndex, committed>>
loopVars == <<notify, blocked, armed, fired, loop, msgs>>
serviceVars == <<service, waiter>>
vars == <<raftVars, loopVars, serviceVars, handler, index>>

Index == 1 .. MaxIndex

Init ==
  /\ leading = FALSE
  /\ commitIndex = 0 /\ lastApplied = 0 /\ lastSnapshotIndex = 0
  /\ committed = 0
  /\ notify = 0 /\ blocked = FALSE
  /\ armed = TRUE /\ fired = FALSE
  /\ loop = "select" /\ msgs = <<>>
  /\ service = "idle" /\ waiter = {}
  /\ handler = [h \in Handler |-> "idle"]
  /\ index = [h \in Handler |-> 0]
-----------------------------------------------------------------------------
(* Mutant of rfMuFree: Apply keeps rf.mu while it sends *)
RfMuFreeAfterSends == ~blocked /\ loop # "sending"

rfMuFree == ~blocked

kvMuFree == service = "idle"
-----------------------------------------------------------------------------
(* Handlers that hold rf.mu *)

(* The server wins an election, or learns of a later term *)
changeRole ==
  /\ rfMuFree
  /\ leading' = ~leading
  /\ UNCHANGED <<commitIndex, lastApplied, lastSnapshotIndex, committed, loopVars,
                 serviceVars, handler, index>>

CommitUpTo(n) ==
  /\ n > commitIndex
  /\ commitIndex' = n
  /\ committed' = IF n > committed THEN n ELSE committed

(* An entry of the leader's own term has reached a majority. hasCommit is    *)
(* never set, so that nobody is signalled.                                   *)
LeaderCommit(n) ==
  /\ rfMuFree
  /\ leading
  /\ CommitUpTo(n)
  /\ UNCHANGED <<leading, lastApplied, lastSnapshotIndex, loopVars, serviceVars,
                 handler, index>>

(* A follower learns that n is committed, and signals the apply goroutine *)
AppendEntries(n) ==
  /\ rfMuFree
  /\ leading' = FALSE
  /\ CommitUpTo(n)
  /\ IF notify < Capacity
     THEN notify' = notify + 1 /\ UNCHANGED blocked
     ELSE blocked' = TRUE /\ UNCHANGED notify
  /\ UNCHANGED <<lastApplied, lastSnapshotIndex, armed, fired, loop, msgs,
                 serviceVars, handler, index>>

(* There is room at last: the signal is sent and rf.mu released *)
Unblock ==
  /\ blocked /\ notify < Capacity
  /\ blocked' = FALSE
  /\ notify' = notify + 1
  /\ UNCHANGED <<raftVars, armed, fired, loop, msgs, serviceVars, handler, index>>

(* A snapshot of the leader is put on disk; nobody is signalled *)
InstallSnapshot(n) ==
  /\ rfMuFree
  /\ n > lastSnapshotIndex
  /\ lastSnapshotIndex' = n
  /\ leading' = FALSE
  /\ UNCHANGED <<commitIndex, lastApplied, committed, loopVars, serviceVars,
                 handler, index>>
-----------------------------------------------------------------------------
(* The apply goroutine *)

applyTimerFires ==
  /\ armed
  /\ armed' = FALSE /\ fired' = TRUE
  /\ UNCHANGED <<raftVars, notify, blocked, loop, msgs, serviceVars, handler, index>>

(* The goroutine takes the tick of its timer, and then signals itself *)
SelectTimer ==
  /\ loop = "select" /\ fired
  /\ fired' = FALSE
  /\ loop' = "signalling"
  /\ UNCHANGED <<raftVars, notify, blocked, armed, msgs, serviceVars, handler, index>>

SignalItself ==
  /\ loop = "signalling" /\ notify < Capacity
  /\ notify' = notify + 1
  /\ loop' = "select"
  /\ UNCHANGED <<raftVars, blocked, armed, fired, msgs, serviceVars, handler, index>>

SelectNotify ==
  /\ loop = "select" /\ notify > 0
  /\ notify' = notify - 1
  /\ loop' = "applying"
  /\ UNCHANGED <<raftVars, blocked, armed, fired, msgs, serviceVars, handler, index>>

(* Mutant of Batch: one command too many *)
BatchPastCommit ==
  IF lastApplied < lastSnapshotIndex
  THEN << [CommandValid |-> FALSE, CommandIndex |-> lastSnapshotIndex] >>
  ELSE [k \in 1 .. commitIndex + 1 - lastApplied |->
          [CommandValid |-> TRUE, CommandIndex |-> lastApplied + k]]

Batch ==
  IF lastApplied < lastSnapshotIndex
  THEN << [CommandValid |-> FALSE, CommandIndex |-> lastSnapshotIndex] >>
  ELSE [k \in 1 .. commitIndex - lastApplied |->
          [CommandValid |-> TRUE, CommandIndex |-> lastApplied + k]]

(* Mutant of Proceed: Apply does not reset its timer *)
ProceedNoReset(rest) ==
  /\ msgs' = rest
  /\ loop' = IF rest = <<>> THEN "select" ELSE "sending"
  /\ UNCHANGED armed

(* Apply goes on with the messages that are left. After the last one, and if *)
(* there was none, it resets the timer, which leaves an old tick in its      *)
(* channel.                                                                  *)
Proceed(rest) ==
  /\ msgs' = rest
  /\ loop' = IF rest = <<>> THEN "select" ELSE "sending"
  /\ armed' = (armed \/ rest = <<>>)

Apply ==
  /\ loop = "applying" /\ rfMuFree
  /\ Proceed(Batch)
  /\ UNCHANGED <<raftVars, notify, blocked, fired, serviceVars, handler, index>>

(* WaitApplyCh has applied the command at n, and sends the result to the     *)
(* handler that waits for it. The command may also be another one, that took *)
(* the place of the handler's command in the log.                            *)
NotifyWaiter(n) ==
  \E w \in {{}} \cup {{h} : h \in {g \in Handler :
                 handler[g] \in {"waiting", "leaving"} /\ index[g] = n}} :
    /\ waiter' = w
    /\ service' = IF w = {} THEN "idle" ELSE "notifying"

(* Apply sends a message, and WaitApplyCh takes it. A snapshot is loaded. If *)
(* the Raft state is large, a command is followed by a snapshot.             *)
Deliver ==
  LET msg == Head(msgs) IN
  /\ loop = "sending" /\ service = "idle"
  /\ loop' = "sent"
  /\ \/ ~msg.CommandValid /\ UNCHANGED serviceVars
     \/ msg.CommandValid /\ service' = "saving" /\ UNCHANGED waiter
     \/ msg.CommandValid /\ NotifyWaiter(msg.CommandIndex)
  /\ UNCHANGED <<raftVars, notify, blocked, armed, fired, msgs, handler, index>>

(* Mutant of CommitOf: a loaded snapshot does not count as committed *)
CommitOfKept(msg) == commitIndex

CommitOf(msg) == IF msg.CommandValid THEN commitIndex ELSE msg.CommandIndex

(* Apply takes rf.mu again and counts the message as applied. The snapshot   *)
(* the service loaded sets commitIndex back if more has been committed.      *)
Applied ==
  LET msg == Head(msgs) IN
  /\ loop = "sent" /\ rfMuFree
  /\ lastApplied' = msg.CommandIndex
  /\ commitIndex' = CommitOf(msg)
  /\ committed' = IF commitIndex' > committed THEN commitIndex' ELSE committed
  /\ Proceed(Tail(msgs))
  /\ UNCHANGED <<leading, lastSnapshotIndex, notify, blocked, fired, serviceVars, handler, index>>
-----------------------------------------------------------------------------
(* WaitApplyCh *)

(* The command WaitApplyCh has taken is the first of msgs until Apply counts *)
(* it, and then the last one counted.                                        *)
Taken == IF loop = "sent" THEN Head(msgs).CommandIndex ELSE lastApplied

saveSnapshot ==
  /\ service = "saving" /\ rfMuFree
  /\ lastSnapshotIndex' = IF Taken < lastSnapshotIndex THEN lastSnapshotIndex ELSE Taken
  /\ NotifyWaiter(Taken)
  /\ UNCHANGED <<leading, commitIndex, lastApplied, committed, loopVars, handler, index>>

(* The channel has no buffer: the send ends when the handler receives *)
Notified(h) ==
  /\ service = "notifying" /\ waiter = {h} /\ handler[h] = "waiting"
  /\ service' = "idle" /\ waiter' = {}
  /\ handler' = [handler EXCEPT ![h] = "leaving"]
  /\ UNCHANGED <<raftVars, loopVars, index>>
-----------------------------------------------------------------------------
(* A handler of a clerk's request, in waitForRaft *)

Request(h) ==
  /\ handler[h] = "idle"
  /\ handler' = [handler EXCEPT ![h] = "calling"]
  /\ UNCHANGED <<raftVars, loopVars, serviceVars, index>>

(* Start needs rf.mu. It gives the command an index, if this server leads.   *)
Start(h) ==
  /\ handler[h] = "calling" /\ rfMuFree
  /\ \/ \E n \in committed + 1 .. MaxIndex :
          /\ leading
          /\ index' = [index EXCEPT ![h] = n]
          /\ handler' = [handler EXCEPT ![h] = "started"]
     \/ /\ ~leading \/ committed = MaxIndex
        /\ handler' = [handler EXCEPT ![h] = "idle"]
        /\ UNCHANGED index
  /\ UNCHANGED <<raftVars, loopVars, serviceVars>>

Register(h) ==
  /\ handler[h] = "started" /\ kvMuFree
  /\ handler' = [handler EXCEPT ![h] = "waiting"]
  /\ UNCHANGED <<raftVars, loopVars, serviceVars, index>>

WaitTimeout(h) ==
  /\ handler[h] = "waiting"
  /\ handler' = [handler EXCEPT ![h] = "leaving"]
  /\ UNCHANGED <<raftVars, loopVars, serviceVars, index>>

removeCh(h) ==
  /\ handler[h] = "leaving" /\ kvMuFree
  /\ handler' = [handler EXCEPT ![h] = "idle"]
  /\ index' = [index EXCEPT ![h] = 0]
  /\ UNCHANGED <<raftVars, loopVars, serviceVars>>
-----------------------------------------------------------------------------
(* The heartbeats a follower gets repeat what is committed *)
Recommit == ~leading /\ committed > commitIndex /\ AppendEntries(committed)

LoopStep ==
  SelectTimer \/ SignalItself \/ SelectNotify \/ Apply \/ Deliver \/ Applied

HandlerStep(h) ==
  Notified(h) \/ Start(h) \/ Register(h) \/ WaitTimeout(h) \/ removeCh(h)

Next ==
  \/ changeRole
  \/ \E n \in Index : LeaderCommit(n) \/ AppendEntries(n) \/ InstallSnapshot(n)
  \/ Unblock
  \/ applyTimerFires \/ LoopStep
  \/ saveSnapshot
  \/ \E h \in Handler : Request(h) \/ HandlerStep(h)

Spec == Init /\ [][Next]_vars

(* The goroutines run, timers fire, and heartbeats arrive at a follower. No  *)
(* election and no command of a clerk is sure to come.                       *)
Fairness ==
  /\ WF_vars(Recommit) /\ WF_vars(Unblock)
  /\ WF_vars(applyTimerFires) /\ WF_vars(LoopStep)
  /\ WF_vars(saveSnapshot)
  /\ \A h \in Handler : WF_vars(HandlerStep(h))

FairSpec == Spec /\ Fairness
-----------------------------------------------------------------------------
(* Properties *)

Message == [CommandValid : BOOLEAN, CommandIndex : Index]

(* The variables have their types; what Apply sends has been committed or is *)
(* in a snapshot, and notifyApplyCh keeps its capacity.                      *)
TypeOK ==
  /\ leading \in BOOLEAN
  /\ commitIndex \in 0 .. MaxIndex /\ lastApplied \in 0 .. MaxIndex
  /\ lastSnapshotIndex \in 0 .. MaxIndex /\ committed \in 0 .. MaxIndex
  /\ notify \in 0 .. Capacity
  /\ blocked \in BOOLEAN /\ armed \in BOOLEAN /\ fired \in BOOLEAN
  /\ loop \in {"select", "signalling", "applying", "sending", "sent"}
  /\ msgs \in Seq(Message)
  /\ (loop \in {"sending", "sent"}) <=> msgs # <<>>
  /\ service \in {"idle", "saving", "notifying"}
  /\ waiter \in SUBSET Handler
  /\ handler \in [Handler -> {"idle", "calling", "started", "waiting", "leaving"}]
  /\ index \in [Handler -> 0 .. MaxIndex]

(* Apply never makes a batch of negative capacity, at which make panics:     *)
(* what is applied is committed, also after a snapshot was loaded that is    *)
(* ahead of commitIndex.                                                     *)
BatchFits == lastApplied <= commitIndex

(* WaitApplyCh sends to a handler that has timed out and wants kv.mu *)
WaiterGone == service = "notifying" /\ \E h \in waiter : handler[h] = "leaving"

(* notifyApplyCh is full, and the goroutine that would empty it either adds  *)
(* to it or needs rf.mu from a handler that adds to it.                      *)
NotifyFull ==
  /\ notify = Capacity
  /\ loop = "signalling" \/ (blocked /\ loop # "select")

(* A leader has loaded a snapshot, which set its commitIndex back below n.   *)
(* Only a command of a clerk makes LeaderCommit look again.                  *)
SetBack(n) == leading /\ commitIndex < n

(* What is committed, or in an installed snapshot, is applied: the timer     *)
(* makes up for LeaderCommit and InstallSnapshot, which signal nobody, and   *)
(* heartbeats for a follower's commitIndex that was set back. The exceptions *)
(* are a leader's, and the two deadlocks.                                    *)
AppliesCommitted ==
  \A n \in Index :
    (commitIndex >= n \/ lastSnapshotIndex >= n) ~>
      (lastApplied >= n \/ SetBack(n) \/ WaiterGone \/ NotifyFull)

(* A call of waitForRaft returns, and with it the RPC, except in a deadlock. *)
(* Start in particular gets rf.mu.                                           *)
CallsReturn ==
  \A h \in Handler :
    handler[h] # "idle" ~> (handler[h] = "idle" \/ WaiterGone \/ NotifyFull)
=============================================================================
