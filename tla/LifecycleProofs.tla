-------------------------- MODULE LifecycleProofs --------------------------
(***************************************************************************)
(* Proofs about Lifecycle, for any set of actors, any assignment of        *)
(* supervision strategies and any number of messages, watches and          *)
(* failures.                                                               *)
(***************************************************************************)
EXTENDS Lifecycle, TLAPS

USE Zenon

Gone == {"signalling", "ended"}

(* Polling found an item, and only the actor itself dequeues.              *)
RecvInv == \A a \in Actors : pc[a] = "recv" => mailbox[a] # <<>>

(* Parents are spawned before their children, and a child listens on a     *)
(* generation which its parent has reached ...                             *)
ParentInv ==
    \A c \in Actors :
      Spawned(c) => /\ parent[c] \in Actors => Spawned(parent[c])
                    /\ parent[c] = System => c = Root
                    /\ parentGen[c] <= gen[parent[c]]

(* ... and left behind when it stops its children.                         *)
BarrierInv ==
    \A a, c \in Actors :
      pc[a] \in {"restarting", "stopping"} \cup Past /\ Spawned(c) /\ parent[c] = a =>
        parentGen[c] < gen[a]

(* The parents form a tree: a set of spawned actors without the root has a *)
(* member whose parent is outside.                                         *)
ForestInv ==
    \A S \in SUBSET Actors :
      S # {} /\ Root \notin S /\ (\A c \in S : Spawned(c)) => \E c \in S : parent[c] \notin S

TreeInv == ParentInv /\ BarrierInv /\ ForestInv /\ ChildrenFirst /\ OneGeneration

(* Registration, connection and the actor's own record follow the steps of *)
(* terminate.                                                              *)
TerminateInv ==
    \A a \in Actors :
      /\ open[a] <=> pc[a] \notin Gone
      /\ ~open[a] => watchers[a] = {}
      /\ pending[a] # {} => pc[a] = "signalling"
      /\ connected[a] <=> pc[a] \notin {"deregister", "stopping"} \cup Past
      /\ pc[a] \in {"stopping"} \cup Past => watched[a] = {}

(* Only the root has the actor system for a watcher, which learns of its   *)
(* termination when it is past it.                                         *)
SystemInv ==
    /\ \A a \in Actors : System \in watchers[a] \/ System \in pending[a] => a = Root
    /\ system = "terminated" => pc[Root] \in Gone

WatchInv ==
    /\ TerminateInv /\ SystemInv
    /\ SignalProvesTermination /\ RegistrationsMatch /\ NoLostSignal /\ SignalLast

(* The actor which began a callback late is in it or on its way out.       *)
LateInv ==
    \A a \in Actors :
      lateCalls[a] = 0 \/
      /\ lateCalls[a] = 1
      /\ StopRequested(a)
      /\ pc[a] \notin {"unborn", "start", "recv", "restarting", "backoff"}

IInv == TypeOK /\ RecvInv /\ TreeInv /\ WatchInv /\ LateInv

----------------------------------------------------------------------------
(* Types, and with them RecvInv: an actor that polled its mailbox finds    *)
(* the item.                                                               *)

(* Messages and signals are what mailboxes hold.                           *)
LEMMA IncomingType ==
    /\ \A w \in Watcher : Message(w) \in Incoming /\ Terminated(w) \in Incoming
    /\ Actors \subseteq Watcher
    /\ Root \in Actors /\ System \in Watcher
BY RootAssumption DEF Incoming, Message, Terminated, Watcher

(* A send keeps the type of the mailboxes and empties none.                *)
LEMMA EnqueueType ==
    ASSUME NEW b \in Actors, NEW incoming \in Incoming,
           mailbox \in [Actors -> Seq(Incoming)],
           Enqueue(b, incoming)
    PROVE  /\ mailbox' \in [Actors -> Seq(Incoming)]
           /\ \A a \in Actors : mailbox[a] # <<>> => mailbox'[a] # <<>>
<1>1. Append(mailbox[b], incoming) \in Seq(Incoming) /\ Append(mailbox[b], incoming) # <<>>
  BY SMT
<1>2. mailbox' = [mailbox EXCEPT ![b] = Append(mailbox[b], incoming)] \/ mailbox' = mailbox
  BY DEF Enqueue
<1>. QED
  BY <1>1, <1>2

(* The places a task of the run loop or of terminate can go to.            *)
LEMMA Labels ==
    /\ "start" \in PC /\ "init" \in PC /\ "select" \in PC /\ "recv" \in PC /\ "receive" \in PC
    /\ "initFailed" \in PC /\ "failed" \in PC /\ "restarting" \in PC /\ "backoff" \in PC
    /\ "terminate" \in PC /\ "drained" \in PC /\ "deregister" \in PC /\ "stopping" \in PC
    /\ "dropping" \in PC /\ "signalling" \in PC /\ "ended" \in PC
BY DEF PC, Callback

(* A task that moves on keeps the type of pc.                              *)
LEMMA GotoType ==
    ASSUME NEW a \in Actors, NEW l \in PC, pc \in [Actors -> PC], Goto(a, l)
    PROVE  /\ pc' \in [Actors -> PC]
           /\ pc'[a] = l
           /\ \A x \in Actors \ {a} : pc'[x] = pc[x]
BY DEF Goto

Used == [tells : 0 .. MaxTells, watches : 0 .. MaxWatches, failures : 0 .. MaxFailures]

(* Using up one of the bounded calls keeps the bounds.                     *)
LEMMA UsedType ==
    ASSUME NEW u \in Used
    PROVE  /\ u.tells < MaxTells => [u EXCEPT !.tells = @ + 1] \in Used
           /\ u.watches < MaxWatches => [u EXCEPT !.watches = @ + 1] \in Used
           /\ u.failures < MaxFailures => [u EXCEPT !.failures = @ + 1] \in Used
<1>1. /\ u.tells < MaxTells => u.tells + 1 \in 0 .. MaxTells
      /\ u.watches < MaxWatches => u.watches + 1 \in 0 .. MaxWatches
      /\ u.failures < MaxFailures => u.failures + 1 \in 0 .. MaxFailures
  BY BoundsAssumption, SMT DEF Used
<1>. QED
  BY <1>1 DEF Used

(* Replacing one actor's set by another set of the kind keeps the type.    *)
LEMMA MemberType ==
    ASSUME NEW S, NEW f \in [Actors -> SUBSET S], NEW a \in Actors, NEW x
    PROVE  /\ [f EXCEPT ![a] = @ \ {x}] \in [Actors -> SUBSET S]
           /\ x \in S => [f EXCEPT ![a] = @ \cup {x}] \in [Actors -> SUBSET S]
<1>1. f[a] \ {x} \in SUBSET S /\ (x \in S => f[a] \cup {x} \in SUBSET S)
  OBVIOUS
<1>. QED
  BY <1>1

(* Every step keeps every variable in its type.                            *)
LEMMA TypeStep == TypeOK /\ RecvInv /\ [Next]_vars => TypeOK'
<1> SUFFICES ASSUME TypeOK, RecvInv, [Next]_vars
             PROVE  TypeOK'
  OBVIOUS
<1> USE Labels, GotoType DEF TypeOK, treeVars, mailVars, watchVars, ghostVars
<1>1. CASE WatchRoot
  <2>1. Root \in Actors /\ System \in Watcher
    BY IncomingType
  <2>2. watchers' \in [Actors -> SUBSET Watcher]
    <3>1. [watchers EXCEPT ![Root] = @ \cup {System}] \in [Actors -> SUBSET Watcher]
      BY <2>1, MemberType
    <3>. QED
      BY <1>1, <3>1 DEF WatchRoot
  <2>. QED
    BY <1>1, <2>2 DEF WatchRoot
<1>2. CASE StopSystem
  BY <1>2, IncomingType, SMT DEF StopSystem, NextGeneration
<1>3. CASE TellRoot
  <2>1. mailbox' \in [Actors -> Seq(Incoming)]
    BY <1>3, EnqueueType, IncomingType DEF TellRoot
  <2>2. used' \in Used
    BY <1>3, UsedType DEF TellRoot, Used
  <2>. QED
    BY <1>3, <2>1, <2>2 DEF TellRoot, Used
<1>4. ASSUME NEW a \in Actors, NEW b \in Actors, Tell(a, b) PROVE TypeOK'
  <2>1. mailbox' \in [Actors -> Seq(Incoming)]
    BY <1>4, EnqueueType, IncomingType DEF Tell
  <2>2. used' \in Used
    BY <1>4, UsedType DEF Tell, Used
  <2>. QED
    BY <1>4, <2>1, <2>2 DEF Tell, Used
<1>5. ASSUME NEW a \in Actors, NEW b \in Actors, Spawn(a, b) PROVE TypeOK'
  BY <1>5, IncomingType DEF Spawn
<1>6. ASSUME NEW a \in Actors, NEW b \in Actors, Watch(a, b) PROVE TypeOK'
  <2>1. mailbox' \in [Actors -> Seq(Incoming)]
    BY <1>6, EnqueueType, IncomingType DEF Watch, Register
  <2>2. watchers' \in [Actors -> SUBSET Watcher]
    <3>1. a \in Watcher
      BY IncomingType
    <3>2. [watchers EXCEPT ![b] = @ \cup {a}] \in [Actors -> SUBSET Watcher]
      BY <3>1, MemberType
    <3>. QED
      BY <1>6, <3>2 DEF Watch, Register
  <2>3. used' \in Used
    BY <1>6, UsedType DEF Watch, Used
  <2>4. watched' \in [Actors -> SUBSET Actors]
    BY <1>6, MemberType DEF Watch
  <2>5. UNCHANGED <<pc, parent, parentGen, gen, restarts, connected, open, pending, system,
                    seen, lateCalls>>
    BY <1>6 DEF Watch
  <2>. QED
    BY <2>1, <2>2, <2>3, <2>4, <2>5 DEF Used
<1>7. ASSUME NEW a \in Actors, NEW b \in Actors, Unwatch(a, b) PROVE TypeOK'
  BY <1>7 DEF Unwatch, Forget
<1>8. ASSUME NEW a \in Actors, CallInit(a) PROVE TypeOK'
  <2>1. lateCalls' \in [Actors -> Nat]
    BY <1>8, SMT DEF CallInit, LateCall
  <2>. QED
    BY <1>8, <2>1 DEF CallInit
<1>9. ASSUME NEW a \in Actors, InitOk(a) PROVE TypeOK'
  BY <1>9 DEF InitOk, Return
<1>10. ASSUME NEW a \in Actors, InitFails(a) PROVE TypeOK'
  <2>1. used' \in Used
    BY <1>10, UsedType DEF InitFails, Fail, Used
  <2>. QED
    BY <1>10, <2>1 DEF InitFails, Fail, Used
<1>11. ASSUME NEW a \in Actors, ReceiveContinue(a) PROVE TypeOK'
  BY <1>11 DEF ReceiveContinue, Return
<1>12. ASSUME NEW a \in Actors, ReceiveStop(a) PROVE TypeOK'
  BY <1>12, SMTT(30) DEF ReceiveStop, Return
<1>13. ASSUME NEW a \in Actors, ReceiveFails(a) PROVE TypeOK'
  <2>1. used' \in Used
    BY <1>13, UsedType DEF ReceiveFails, Fail, Used
  <2>. QED
    BY <1>13, <2>1 DEF ReceiveFails, Fail, Used
<1>14. ASSUME NEW a \in Actors, StoppedByParent(a) PROVE TypeOK'
  BY <1>14 DEF StoppedByParent
<1>15. ASSUME NEW a \in Actors, PollMailbox(a) PROVE TypeOK'
  BY <1>15 DEF PollMailbox
<1>16. ASSUME NEW a \in Actors, Recv(a) PROVE TypeOK'
  <2>1. mailbox[a] \in Seq(Incoming) /\ mailbox[a] # <<>>
    BY <1>16 DEF Recv, RecvInv
  <2>2. Head(mailbox[a]) \in Incoming /\ Tail(mailbox[a]) \in Seq(Incoming)
    BY <2>1, SMT
  <2>3. mailbox' \in [Actors -> Seq(Incoming)]
    BY <1>16, <2>2 DEF Recv
  <2> DEFINE b == Head(mailbox[a]).actor
  <2>4. watched' \in [Actors -> SUBSET Actors]
    <3>1. [watched EXCEPT ![a] = @ \ {b}] \in [Actors -> SUBSET Actors]
      BY MemberType, SMTT(20)
    <3>. QED
      BY <1>16, <3>1 DEF Recv
  <2>5. b \in watched[a] => b \in Actors
    OBVIOUS
  <2>6. seen' \in [Actors -> SUBSET Actors]
    <3>1. \A x \in Actors : [seen EXCEPT ![a] = @ \cup {x}] \in [Actors -> SUBSET Actors]
      BY MemberType
    <3>2. \/ seen' = seen
          \/ b \in watched[a] /\ seen' = [seen EXCEPT ![a] = @ \cup {b}]
      BY <1>16 DEF Recv
    <3>3. seen \in [Actors -> SUBSET Actors]
      OBVIOUS
    <3>. HIDE Labels, GotoType DEF TypeOK, b
    <3>. QED
      BY <2>5, <3>1, <3>2, <3>3, SMT
  <2>7. lateCalls' \in [Actors -> Nat]
    BY <1>16, SMTT(20) DEF Recv, LateCall
  <2>8. pc' \in [Actors -> PC]
    BY <1>16 DEF Recv
  <2>. QED
    BY <1>16, <2>3, <2>4, <2>6, <2>7, <2>8 DEF Recv
<1>17. ASSUME NEW a \in Actors, NEW longUp \in BOOLEAN, GiveUp(a, longUp) PROVE TypeOK'
  <2>1. Streak(a, longUp) \in 0 .. MaxRestarts
    BY RestartAssumption, SMT DEF Streak
  <2>2. restarts' \in [Actors -> 0 .. MaxRestarts]
    BY <1>17, <2>1 DEF GiveUp
  <2>3. pc' \in [Actors -> PC]
    BY <1>17 DEF GiveUp
  <2>4. UNCHANGED <<treeVars, mailVars, watchVars, system, ghostVars, used>>
    BY <1>17 DEF GiveUp
  <2>. QED
    BY <2>2, <2>3, <2>4
<1>18. ASSUME NEW a \in Actors, NEW longUp \in BOOLEAN, Restart(a, longUp) PROVE TypeOK'
  <2>1. restarts' \in [Actors -> 0 .. MaxRestarts]
    BY <1>18, RestartAssumption, SMT DEF Restart, Streak, LimitExceeded
  <2>2. pc' \in [Actors -> PC]
    BY <1>18 DEF Restart
  <2>3. gen' \in [Watcher -> Nat]
    <3>1. a \in Watcher
      BY IncomingType
    <3>. QED
      BY <1>18, <3>1, SMT DEF Restart, NextGeneration
  <2>. QED
    BY <1>18, <2>1, <2>2, <2>3 DEF Restart
<1>19. ASSUME NEW a \in Actors, RestartChildrenEnded(a) PROVE TypeOK'
  BY <1>19 DEF RestartChildrenEnded
<1>20. ASSUME NEW a \in Actors, Backoff(a) PROVE TypeOK'
  BY <1>20 DEF Backoff
<1>21. ASSUME NEW a \in Actors, Drain(a) PROVE TypeOK'
  BY <1>21, SMTT(20) DEF Drain
<1>22. ASSUME NEW a \in Actors, DropReceiver(a) PROVE TypeOK'
  BY <1>22 DEF DropReceiver
<1>23. ASSUME NEW a \in Actors, NEW b \in Actors, Deregister(a, b) PROVE TypeOK'
  BY <1>23, SMTT(30) DEF Deregister, Forget
<1>24. ASSUME NEW a \in Actors, StopChildren(a) PROVE TypeOK'
  <2>1. a \in Watcher
    BY IncomingType
  <2>2. gen' \in [Watcher -> Nat]
    BY <1>24, <2>1, SMT DEF StopChildren, NextGeneration
  <2>. QED
    BY <1>24, <2>2 DEF StopChildren
<1>25. ASSUME NEW a \in Actors, AllChildrenEnded(a) PROVE TypeOK'
  BY <1>25 DEF AllChildrenEnded
<1>26. ASSUME NEW a \in Actors, TakeWatchers(a) PROVE TypeOK'
  BY <1>26 DEF TakeWatchers
<1>27. ASSUME NEW a \in Actors, NEW w \in Watcher, SendTerminated(a, w) PROVE TypeOK'
  <2>1. mailbox' \in [Actors -> Seq(Incoming)]
    BY <1>27, EnqueueType, IncomingType DEF SendTerminated, Watcher
  <2>. QED
    BY <1>27, <2>1 DEF SendTerminated
<1>28. ASSUME NEW a \in Actors, End(a) PROVE TypeOK'
  BY <1>28 DEF End
<1>29. CASE UNCHANGED vars
  BY <1>29 DEF vars
<1>. HIDE Labels, GotoType DEF TypeOK, treeVars, mailVars, watchVars, ghostVars
<1>. QED
  BY <1>1, <1>2, <1>3, <1>4, <1>5, <1>6, <1>7, <1>8, <1>9, <1>10, <1>11, <1>12, <1>13, <1>14,
     <1>15, <1>16, <1>17, <1>18, <1>19, <1>20, <1>21, <1>22, <1>23, <1>24, <1>25, <1>26,
     <1>27, <1>28, <1>29
     DEF Next, UserCode, Task, Returns, RunLoop, Terminate

----------------------------------------------------------------------------
(* The tree.  Most steps move one actor along its run loop and leave the   *)
(* tree alone.                                                             *)

Barrier == {"restarting", "stopping"} \cup Past
Running == {"start", "select", "recv", "backoff"} \cup Callback

(* A step that leaves the tree and every task's place alone.               *)
LEMMA TreeSame ==
    ASSUME TreeInv, UNCHANGED <<pc, treeVars>>
    PROVE  TreeInv'
BY DEF TreeInv, ParentInv, BarrierInv, ForestInv, ChildrenFirst, OneGeneration, Spawned, treeVars

(* A step of an actor into a barrier is from a barrier, past it with all   *)
(* children ended, and a restart runs again with all children ended.       *)
LEMMA TreeGoto ==
    ASSUME pc \in [Actors -> PC], TreeInv, UNCHANGED treeVars,
           NEW a \in Actors, NEW l \in PC, Goto(a, l),
           pc[a] \notin {"unborn", "ended"}, l # "unborn",
           l \in Barrier => pc[a] \in Barrier,
           l \in Past => pc[a] \in Past \/ ChildrenEnded(a),
           l \in Running => pc[a] \in Running \/ (pc[a] = "restarting" /\ ChildrenEnded(a))
    PROVE  TreeInv'
<1>1. /\ pc'[a] = l /\ \A x \in Actors \ {a} : pc'[x] = pc[x]
      /\ parent' = parent /\ parentGen' = parentGen /\ gen' = gen
  BY GotoType DEF treeVars
<1>2. \A x \in Actors : Spawned(x)' <=> Spawned(x)
  BY <1>1 DEF Spawned
<1>3. \A x \in Actors : pc[x] = "ended" => pc'[x] = "ended"
  BY <1>1
<1>4. ParentInv' /\ ForestInv'
  BY <1>1, <1>2 DEF TreeInv, ParentInv, ForestInv
<1>5. BarrierInv'
  BY <1>1, <1>2 DEF TreeInv, BarrierInv, Barrier
<1>6. ChildrenFirst'
  <2>1. SUFFICES ASSUME NEW x \in Actors, NEW c \in Actors,
                        pc'[x] \in Past, Spawned(c)', parent'[c] = x
                 PROVE  pc'[c] = "ended"
    BY DEF ChildrenFirst
  <2>2. CASE pc[x] \in Past
    BY <1>1, <1>2, <1>3, <2>1, <2>2 DEF TreeInv, ChildrenFirst
  <2>3. CASE pc[x] \notin Past
    <3>1. x = a /\ ChildrenEnded(a) /\ l \in Past
      BY <1>1, <2>1, <2>3
    <3>2. parentGen[c] < gen[a]
      BY <1>1, <1>2, <2>1, <3>1 DEF TreeInv, BarrierInv, Barrier, Past
    <3>. QED
      BY <1>1, <1>2, <1>3, <2>1, <3>1, <3>2 DEF ChildrenEnded
  <2>. QED
    BY <2>2, <2>3
<1>7. OneGeneration'
  <2>1. SUFFICES ASSUME NEW x \in Actors, NEW c \in Actors,
                        pc'[x] \in Running, Spawned(c)', parent'[c] = x, pc'[c] # "ended"
                 PROVE  parentGen'[c] = gen'[x]
    BY DEF OneGeneration, Running
  <2>2. CASE pc[x] \in Running
    BY <1>1, <1>2, <1>3, <2>1, <2>2 DEF TreeInv, OneGeneration, Running
  <2>3. CASE pc[x] \notin Running
    <3>1. x = a /\ ChildrenEnded(a) /\ pc[a] = "restarting"
      BY <1>1, <2>1, <2>3
    <3>2. parentGen[c] < gen[a]
      BY <1>1, <1>2, <2>1, <3>1 DEF TreeInv, BarrierInv
    <3>. QED
      BY <1>1, <1>2, <1>3, <2>1, <3>1, <3>2 DEF ChildrenEnded
  <2>. QED
    BY <2>2, <2>3
<1>. QED
  BY <1>4, <1>5, <1>6, <1>7 DEF TreeInv

(* An actor stops its children: all of them listened on a generation up to *)
(* the one left behind.                                                    *)
LEMMA TreeStopChildren ==
    ASSUME TypeOK, TreeInv, UNCHANGED <<parent, parentGen>>, NEW a \in Actors, NextGeneration(a),
           NEW l \in {"restarting", "stopping"}, Goto(a, l),
           pc[a] \notin {"unborn", "ended"}, pc[a] \notin Barrier
    PROVE  TreeInv'
<1>1. /\ pc'[a] = l /\ \A x \in Actors \ {a} : pc'[x] = pc[x]
      /\ parent' = parent /\ parentGen' = parentGen
  BY GotoType, Labels DEF TypeOK
<1>2. /\ gen'[a] = gen[a] + 1 /\ \A p \in Watcher \ {a} : gen'[p] = gen[p]
      /\ gen \in [Watcher -> Nat] /\ parentGen \in [Actors -> Nat]
      /\ parent \in [Actors -> Watcher] /\ a \in Watcher
  BY IncomingType DEF NextGeneration, TypeOK
<1>3. \A x \in Actors : Spawned(x)' <=> Spawned(x)
  BY <1>1 DEF Spawned
<1>4. \A c \in Actors : Spawned(c) => parentGen[c] <= gen[parent[c]]
  BY DEF TreeInv, ParentInv
<1>5. ParentInv'
  <2>1. \A c \in Actors : Spawned(c) => parentGen[c] <= gen'[parent[c]]
    BY <1>2, <1>4, SMT
  <2>. QED
    BY <1>1, <1>3, <2>1 DEF TreeInv, ParentInv
<1>6. ForestInv'
  BY <1>1, <1>3 DEF TreeInv, ForestInv
<1>7. BarrierInv'
  <2>1. SUFFICES ASSUME NEW x \in Actors, NEW c \in Actors,
                        pc'[x] \in Barrier, Spawned(c), parent[c] = x
                 PROVE  parentGen[c] < gen'[x]
    BY <1>1, <1>3 DEF BarrierInv, Barrier
  <2>2. CASE x = a
    BY <1>2, <1>4, <2>1, <2>2, SMT
  <2>3. CASE x # a
    <3>1. gen'[x] = gen[x] /\ pc[x] \in Barrier
      BY <1>1, <1>2, <2>1, <2>3, IncomingType
    <3>. QED
      BY <2>1, <3>1 DEF TreeInv, BarrierInv, Barrier
  <2>. QED
    BY <2>2, <2>3
<1>8. ChildrenFirst'
  <2>1. \A x \in Actors : pc'[x] \in Past => x # a
    BY <1>1 DEF Past
  <2>. QED
    BY <1>1, <1>3, <2>1 DEF TreeInv, ChildrenFirst
<1>9. OneGeneration'
  <2>1. \A x \in Actors : pc'[x] \in Running => x # a /\ pc[x] \in Running /\ gen'[x] = gen[x]
    BY <1>1, <1>2, IncomingType DEF Running, Callback
  <2>2. \A x \in Actors : pc[x] = "ended" => pc'[x] = "ended"
    BY <1>1
  <2>. QED
    BY <1>1, <1>3, <2>1, <2>2, SMT DEF TreeInv, OneGeneration, Running
<1>. QED
  BY <1>5, <1>6, <1>7, <1>8, <1>9 DEF TreeInv

(* The system's channel is nobody's but the root's.                        *)
LEMMA TreeStopSystem ==
    ASSUME TypeOK, TreeInv, UNCHANGED <<pc, parent, parentGen>>, NextGeneration(System)
    PROVE  TreeInv'
<1>1. /\ gen'[System] = gen[System] + 1 /\ \A p \in Actors : gen'[p] = gen[p]
      /\ gen \in [Watcher -> Nat] /\ parentGen \in [Actors -> Nat]
      /\ parent \in [Actors -> Watcher]
  BY IncomingType, RootAssumption DEF NextGeneration, TypeOK
<1>2. ParentInv'
  <2>1. \A c \in Actors : Spawned(c) => parentGen[c] <= gen'[parent[c]]
    BY <1>1, SMT DEF TreeInv, ParentInv, Watcher
  <2>. QED
    BY <2>1 DEF TreeInv, ParentInv, Spawned
<1>3. ForestInv' /\ ChildrenFirst'
  BY DEF TreeInv, ForestInv, ChildrenFirst, Spawned
<1>4. BarrierInv' /\ OneGeneration'
  BY <1>1 DEF TreeInv, BarrierInv, OneGeneration, Spawned
<1>. QED
  BY <1>2, <1>3, <1>4 DEF TreeInv

(* A new leaf: nobody has it for a parent, and its own parent is running.  *)
LEMMA TreeSpawn ==
    ASSUME TypeOK, TreeInv, NEW a \in Actors, NEW c \in Actors, Spawn(a, c)
    PROVE  TreeInv'
<1>1. /\ pc'[c] = "start" /\ \A x \in Actors \ {c} : pc'[x] = pc[x]
      /\ parent'[c] = a /\ \A x \in Actors \ {c} : parent'[x] = parent[x]
      /\ parentGen'[c] = gen[a] /\ \A x \in Actors \ {c} : parentGen'[x] = parentGen[x]
      /\ gen' = gen /\ pc[a] \in Callback /\ pc[c] = "unborn" /\ a # c
  BY GotoType, Labels, ZenonT(20) DEF Spawn, TypeOK, Callback
<1>2. \A x \in Actors \ {c} : Spawned(x)' <=> Spawned(x)
  BY <1>1 DEF Spawned
<1>3. \A x \in Actors \ {c} : Spawned(x) => parent[x] # c
  BY <1>1, SMT DEF TreeInv, ParentInv, Spawned
<1>4. Spawned(a) /\ Spawned(a)' /\ ~Spawned(c)
  BY <1>1, <1>2 DEF Spawned, Callback
<1>5. gen[a] \in Nat /\ a # System
  BY IncomingType, RootAssumption DEF TypeOK
<1>6. ParentInv'
  <2>1. SUFFICES ASSUME NEW x \in Actors, Spawned(x)'
                 PROVE  /\ parent'[x] \in Actors => pc'[parent'[x]] # "unborn"
                        /\ parent'[x] = System => x = Root
                        /\ parentGen'[x] <= gen'[parent'[x]]
    BY DEF ParentInv, Spawned
  <2>2. CASE x = c
    BY <1>1, <1>4, <1>5, <2>2, SMT DEF Spawned
  <2>3. CASE x # c
    <3>1. Spawned(x) /\ parent'[x] = parent[x] /\ parentGen'[x] = parentGen[x] /\ parent[x] # c
      BY <1>1, <1>2, <1>3, <2>1, <2>3
    <3>2. /\ parent[x] \in Actors => Spawned(parent[x])
          /\ parent[x] = System => x = Root
          /\ parentGen[x] <= gen[parent[x]]
      BY <3>1 DEF TreeInv, ParentInv
    <3>. QED
      BY <1>1, <3>1, <3>2 DEF Spawned
  <2>. QED
    BY <2>2, <2>3
<1>7. ForestInv'
  <2>1. SUFFICES ASSUME NEW S \in SUBSET Actors, S # {}, Root \notin S, \A x \in S : Spawned(x)'
                 PROVE  \E x \in S : parent'[x] \notin S
    BY DEF ForestInv, Spawned
  <2> DEFINE T == S \ {c}
  <2>2. CASE T = {}
    BY <1>1, <2>1, <2>2
  <2>3. CASE T # {}
    <3>1. T \in SUBSET Actors /\ Root \notin T /\ \A x \in T : Spawned(x)
      BY <1>2, <2>1
    <3>2. PICK x \in T : parent[x] \notin T
      BY <2>3, <3>1 DEF TreeInv, ForestInv
    <3>3. parent[x] # c /\ parent'[x] = parent[x]
      BY <1>1, <1>3, <3>1, <3>2
    <3>. QED
      BY <3>2, <3>3
  <2>. QED
    BY <2>2, <2>3
<1>8. BarrierInv' /\ ChildrenFirst'
  <2>1. \A x \in Actors : pc'[x] \in Barrier \cup Past => x # c /\ x # a /\ pc[x] = pc'[x]
    BY <1>1 DEF Barrier, Past, Callback
  <2>2. \A x, y \in Actors : pc'[x] \in Barrier \cup Past /\ Spawned(y)' /\ parent'[y] = x =>
          y # c /\ Spawned(y) /\ parent[y] = x
    BY <1>1, <1>2, <2>1
  <2>. QED
    BY <1>1, <2>1, <2>2, SMT DEF TreeInv, BarrierInv, ChildrenFirst, Barrier, Past
<1>9. OneGeneration'
  <2>1. SUFFICES ASSUME NEW x \in Actors, NEW y \in Actors,
                        pc'[x] \in Running, Spawned(y)', parent'[y] = x, pc'[y] # "ended"
                 PROVE  parentGen'[y] = gen'[x]
    BY DEF OneGeneration, Running
  <2>2. CASE y = c
    BY <1>1, <2>1, <2>2
  <2>3. CASE y # c
    <3>1. Spawned(y) /\ parent[y] = x /\ pc[y] # "ended" /\ x # c
      BY <1>1, <1>2, <1>3, <2>1, <2>3
    <3>2. pc[x] \in Running
      BY <1>1, <2>1, <3>1
    <3>. QED
      BY <1>1, <2>3, <3>1, <3>2, SMTT(30) DEF TreeInv, OneGeneration, Running
  <2>. QED
    BY <2>2, <2>3
<1>. QED
  BY <1>6, <1>7, <1>8, <1>9 DEF TreeInv

(* Every step keeps the tree part of the invariant.                        *)
LEMMA TreeStep ==
    ASSUME TypeOK, TreeInv, [Next]_vars
    PROVE  TreeInv'
<1>1. CASE WatchRoot
  BY <1>1, TreeSame DEF WatchRoot
<1>2. CASE StopSystem
  BY <1>2, TreeStopSystem DEF StopSystem
<1>3. CASE TellRoot
  BY <1>3, TreeSame DEF TellRoot
<1>4. ASSUME NEW a \in Actors, NEW b \in Actors, Tell(a, b) PROVE TreeInv'
  BY <1>4, TreeSame DEF Tell
<1>5. ASSUME NEW a \in Actors, NEW b \in Actors, Spawn(a, b) PROVE TreeInv'
  BY <1>5, TreeSpawn
<1>6. ASSUME NEW a \in Actors, NEW b \in Actors, Watch(a, b) PROVE TreeInv'
  BY <1>6, TreeSame DEF Watch
<1>7. ASSUME NEW a \in Actors, NEW b \in Actors, Unwatch(a, b) PROVE TreeInv'
  BY <1>7, TreeSame DEF Unwatch
<1>8. ASSUME NEW a \in Actors, CallInit(a) PROVE TreeInv'
  BY <1>8, TreeGoto, Labels DEF CallInit, TypeOK, Barrier, Past, Running, Callback
<1>9. ASSUME NEW a \in Actors, InitOk(a) PROVE TreeInv'
  BY <1>9, TreeGoto, Labels DEF InitOk, Return, TypeOK, Barrier, Past, Running, Callback
<1>10. ASSUME NEW a \in Actors, InitFails(a) PROVE TreeInv'
  BY <1>10, TreeGoto, Labels DEF InitFails, Fail, TypeOK, Barrier, Past, Running, Callback
<1>11. ASSUME NEW a \in Actors, ReceiveContinue(a) PROVE TreeInv'
  BY <1>11, TreeGoto, Labels
     DEF ReceiveContinue, Return, TypeOK, Barrier, Past, Running, Callback
<1>12. ASSUME NEW a \in Actors, ReceiveStop(a) PROVE TreeInv'
  BY <1>12, TreeGoto, Labels
     DEF ReceiveStop, Return, TypeOK, Barrier, Past, Running, Callback
<1>13. ASSUME NEW a \in Actors, ReceiveFails(a) PROVE TreeInv'
  BY <1>13, TreeGoto, Labels DEF ReceiveFails, Fail, TypeOK, Barrier, Past, Running, Callback
<1>14. ASSUME NEW a \in Actors, StoppedByParent(a) PROVE TreeInv'
  BY <1>14, TreeGoto, Labels DEF StoppedByParent, TypeOK, Barrier, Past, Running, Callback
<1>15. ASSUME NEW a \in Actors, PollMailbox(a) PROVE TreeInv'
  BY <1>15, TreeGoto, Labels DEF PollMailbox, TypeOK, Barrier, Past, Running, Callback
<1>16. ASSUME NEW a \in Actors, Recv(a) PROVE TreeInv'
  <2>1. PICK l \in {"select", "receive"} : Goto(a, l)
    BY <1>16 DEF Recv
  <2>. QED
    BY <1>16, <2>1, TreeGoto, Labels DEF Recv, TypeOK, Barrier, Past, Running, Callback
<1>17. ASSUME NEW a \in Actors, NEW longUp \in BOOLEAN, GiveUp(a, longUp) PROVE TreeInv'
  BY <1>17, TreeGoto, Labels DEF GiveUp, TypeOK, Barrier, Past, Running, Callback
<1>18. ASSUME NEW a \in Actors, NEW longUp \in BOOLEAN, Restart(a, longUp) PROVE TreeInv'
  <2>1. CASE StopRequested(a)
    BY <1>18, <2>1, TreeGoto, Labels
       DEF Restart, treeVars, TypeOK, Barrier, Past, Running, Callback
  <2>2. CASE ~StopRequested(a)
    BY <1>18, <2>2, TreeStopChildren DEF Restart, Barrier, Past
  <2>. QED
    BY <2>1, <2>2
<1>19. ASSUME NEW a \in Actors, RestartChildrenEnded(a) PROVE TreeInv'
  BY <1>19, TreeGoto, Labels
     DEF RestartChildrenEnded, TypeOK, Barrier, Past, Running, Callback
<1>20. ASSUME NEW a \in Actors, Backoff(a) PROVE TreeInv'
  <2>1. PICK l \in {"terminate", "start"} : Goto(a, l)
    BY <1>20 DEF Backoff
  <2>. QED
    BY <1>20, <2>1, TreeGoto, Labels DEF Backoff, TypeOK, Barrier, Past, Running, Callback
<1>21. ASSUME NEW a \in Actors, Drain(a) PROVE TreeInv'
  BY <1>21, TreeGoto, Labels DEF Drain, TypeOK, Barrier, Past, Running, Callback
<1>22. ASSUME NEW a \in Actors, DropReceiver(a) PROVE TreeInv'
  BY <1>22, TreeGoto, Labels DEF DropReceiver, TypeOK, Barrier, Past, Running, Callback
<1>23. ASSUME NEW a \in Actors, NEW b \in Actors, Deregister(a, b) PROVE TreeInv'
  BY <1>23, TreeSame DEF Deregister
<1>24. ASSUME NEW a \in Actors, StopChildren(a) PROVE TreeInv'
  BY <1>24, TreeStopChildren DEF StopChildren, Barrier, Past
<1>25. ASSUME NEW a \in Actors, AllChildrenEnded(a) PROVE TreeInv'
  BY <1>25, TreeGoto, Labels DEF AllChildrenEnded, TypeOK, Barrier, Past, Running, Callback
<1>26. ASSUME NEW a \in Actors, TakeWatchers(a) PROVE TreeInv'
  BY <1>26, TreeGoto, Labels DEF TakeWatchers, TypeOK, Barrier, Past, Running, Callback
<1>27. ASSUME NEW a \in Actors, NEW w \in Watcher, SendTerminated(a, w) PROVE TreeInv'
  BY <1>27, TreeSame DEF SendTerminated
<1>28. ASSUME NEW a \in Actors, End(a) PROVE TreeInv'
  BY <1>28, TreeGoto, Labels DEF End, TypeOK, Barrier, Past, Running, Callback
<1>29. CASE UNCHANGED vars
  BY <1>29, TreeSame DEF vars
<1>. QED
  BY <1>1, <1>2, <1>3, <1>4, <1>5, <1>6, <1>7, <1>8, <1>9, <1>10, <1>11, <1>12, <1>13, <1>14,
     <1>15, <1>16, <1>17, <1>18, <1>19, <1>20, <1>21, <1>22, <1>23, <1>24, <1>25, <1>26,
     <1>27, <1>28, <1>29
     DEF Next, UserCode, Task, Returns, RunLoop, Terminate

(* A task about to dequeue has something to dequeue: nobody else empties   *)
(* its mailbox.                                                            *)
LEMMA RecvStep ==
    ASSUME TypeOK, RecvInv, [Next]_vars
    PROVE  RecvInv'
<1> USE DEF TypeOK, RecvInv
<1>1. CASE WatchRoot
  BY <1>1 DEF WatchRoot, mailVars
<1>2. CASE StopSystem
  BY <1>2 DEF StopSystem, mailVars
<1>3. CASE TellRoot
  BY <1>3, EnqueueType, IncomingType DEF TellRoot
<1>4. ASSUME NEW a \in Actors, NEW b \in Actors, Tell(a, b) PROVE RecvInv'
  BY <1>4, EnqueueType, IncomingType DEF Tell
<1>5. ASSUME NEW a \in Actors, NEW b \in Actors, Spawn(a, b) PROVE RecvInv'
  BY <1>5, GotoType, Labels DEF Spawn, mailVars
<1>6. ASSUME NEW a \in Actors, NEW b \in Actors, Watch(a, b) PROVE RecvInv'
  <2>1. \A x \in Actors : mailbox[x] # <<>> => mailbox'[x] # <<>>
    BY <1>6, EnqueueType, IncomingType DEF Watch, Register
  <2>. QED
    BY <1>6, <2>1 DEF Watch
<1>7. ASSUME NEW a \in Actors, NEW b \in Actors, Unwatch(a, b) PROVE RecvInv'
  BY <1>7 DEF Unwatch, mailVars
<1>8. ASSUME NEW a \in Actors, CallInit(a) PROVE RecvInv'
  BY <1>8, GotoType, Labels DEF CallInit, mailVars
<1>9. ASSUME NEW a \in Actors, InitOk(a) PROVE RecvInv'
  BY <1>9, GotoType, Labels DEF InitOk, mailVars, Return
<1>10. ASSUME NEW a \in Actors, InitFails(a) PROVE RecvInv'
  BY <1>10, GotoType, Labels DEF InitFails, mailVars, Fail
<1>11. ASSUME NEW a \in Actors, ReceiveContinue(a) PROVE RecvInv'
  BY <1>11, GotoType, Labels DEF ReceiveContinue, mailVars, Return
<1>12. ASSUME NEW a \in Actors, ReceiveStop(a) PROVE RecvInv'
  BY <1>12, GotoType, Labels DEF ReceiveStop, mailVars, Return
<1>13. ASSUME NEW a \in Actors, ReceiveFails(a) PROVE RecvInv'
  BY <1>13, GotoType, Labels DEF ReceiveFails, mailVars, Fail
<1>14. ASSUME NEW a \in Actors, StoppedByParent(a) PROVE RecvInv'
  BY <1>14, GotoType, Labels DEF StoppedByParent, mailVars
<1>15. ASSUME NEW a \in Actors, PollMailbox(a) PROVE RecvInv'
  BY <1>15, GotoType, Labels DEF PollMailbox, mailVars
<1>16. ASSUME NEW a \in Actors, Recv(a) PROVE RecvInv'
  <2>1. pc'[a] # "recv" /\ \A x \in Actors \ {a} : pc'[x] = pc[x] /\ mailbox'[x] = mailbox[x]
    <3>1. PICK l \in PC : l # "recv" /\ Goto(a, l)
      BY <1>16, Labels DEF Recv
    <3>2. mailbox' = [mailbox EXCEPT ![a] = Tail(@)]
      BY <1>16 DEF Recv
    <3>. QED
      BY <3>1, <3>2, GotoType DEF TypeOK
  <2>. QED
    BY <2>1
<1>17. ASSUME NEW a \in Actors, NEW longUp \in BOOLEAN, GiveUp(a, longUp) PROVE RecvInv'
  BY <1>17, GotoType, Labels DEF GiveUp, mailVars
<1>18. ASSUME NEW a \in Actors, NEW longUp \in BOOLEAN, Restart(a, longUp) PROVE RecvInv'
  BY <1>18, GotoType, Labels DEF Restart, mailVars
<1>19. ASSUME NEW a \in Actors, RestartChildrenEnded(a) PROVE RecvInv'
  BY <1>19, GotoType, Labels DEF RestartChildrenEnded, mailVars
<1>20. ASSUME NEW a \in Actors, Backoff(a) PROVE RecvInv'
  BY <1>20, GotoType, Labels DEF Backoff, mailVars
<1>21. ASSUME NEW a \in Actors, Drain(a) PROVE RecvInv'
  BY <1>21, GotoType, Labels DEF Drain, mailVars
<1>22. ASSUME NEW a \in Actors, DropReceiver(a) PROVE RecvInv'
  BY <1>22, GotoType, Labels DEF DropReceiver, mailVars
<1>23. ASSUME NEW a \in Actors, NEW b \in Actors, Deregister(a, b) PROVE RecvInv'
  BY <1>23 DEF Deregister, mailVars
<1>24. ASSUME NEW a \in Actors, StopChildren(a) PROVE RecvInv'
  BY <1>24, GotoType, Labels DEF StopChildren, mailVars
<1>25. ASSUME NEW a \in Actors, AllChildrenEnded(a) PROVE RecvInv'
  BY <1>25, GotoType, Labels DEF AllChildrenEnded, mailVars
<1>26. ASSUME NEW a \in Actors, TakeWatchers(a) PROVE RecvInv'
  BY <1>26, GotoType, Labels DEF TakeWatchers, mailVars
<1>27. ASSUME NEW a \in Actors, NEW w \in Watcher, SendTerminated(a, w) PROVE RecvInv'
  <2>1. \A x \in Actors : mailbox[x] # <<>> => mailbox'[x] # <<>>
    BY <1>27, EnqueueType, IncomingType DEF SendTerminated, Watcher
  <2>. QED
    BY <1>27, <2>1 DEF SendTerminated
<1>28. ASSUME NEW a \in Actors, End(a) PROVE RecvInv'
  BY <1>28, GotoType, Labels DEF End, mailVars
<1>29. CASE UNCHANGED vars
  BY <1>29 DEF vars, mailVars
<1>. HIDE DEF TypeOK, RecvInv
<1>. QED
  BY <1>1, <1>2, <1>3, <1>4, <1>5, <1>6, <1>7, <1>8, <1>9, <1>10, <1>11, <1>12, <1>13, <1>14,
     <1>15, <1>16, <1>17, <1>18, <1>19, <1>20, <1>21, <1>22, <1>23, <1>24, <1>25, <1>26,
     <1>27, <1>28, <1>29
     DEF Next, UserCode, Task, Returns, RunLoop, Terminate

----------------------------------------------------------------------------
(* Late callbacks.  Early are the places from which a callback may begin   *)
(* without another probe of the stop channel, or none is under way.        *)

Early == {"unborn", "start", "recv", "restarting", "backoff"}

(* A stop request stands: generations only grow.                           *)
LEMMA StopStands ==
    ASSUME TypeOK, UNCHANGED <<parent, parentGen>>, \A p \in Watcher : gen[p] <= gen'[p],
           gen' \in [Watcher -> Nat], NEW a \in Actors, StopRequested(a)
    PROVE  StopRequested(a)'
BY SMT DEF StopRequested, TypeOK

(* Whoever was called late gets to an early place only if it found no stop *)
(* request, which it cannot have.                                          *)
LEMMA LateGoto ==
    ASSUME TypeOK, LateInv, UNCHANGED <<parent, parentGen, lateCalls>>,
           \A p \in Watcher : gen[p] <= gen'[p], gen' \in [Watcher -> Nat],
           NEW a \in Actors, NEW l \in PC, Goto(a, l),
           l \notin Early \/ pc[a] \in Early \/ ~StopRequested(a)
    PROVE  LateInv'
<1>1. pc'[a] = l /\ \A x \in Actors \ {a} : pc'[x] = pc[x]
  BY GotoType DEF TypeOK
<1>2. \A x \in Actors : StopRequested(x) => StopRequested(x)'
  BY StopStands
<1>. QED
  BY <1>1, <1>2 DEF LateInv, Early

(* A step that begins no callback and moves nobody.                        *)
LEMMA LateSame ==
    ASSUME TypeOK, LateInv, UNCHANGED <<pc, parent, parentGen, lateCalls>>,
           \A p \in Watcher : gen[p] <= gen'[p], gen' \in [Watcher -> Nat]
    PROVE  LateInv'
<1>1. \A x \in Actors : StopRequested(x) => StopRequested(x)'
  BY StopStands
<1>. QED
  BY <1>1 DEF LateInv

(* Generations of stop channels only grow.                                 *)
LEMMA GenGrows ==
    ASSUME TypeOK, NEW p \in Watcher, gen' = gen \/ NextGeneration(p)
    PROVE  gen' \in [Watcher -> Nat] /\ \A q \in Watcher : gen[q] <= gen'[q]
<1>1. gen \in [Watcher -> Nat]
  BY DEF TypeOK
<1>2. CASE gen' = gen
  BY <1>1, <1>2, SMT
<1>3. CASE NextGeneration(p)
  BY <1>1, <1>3, SMT DEF NextGeneration
<1>. QED
  BY <1>2, <1>3

(* A callback begins: nobody who comes from an early place was late yet.   *)
LEMMA LateCallback ==
    ASSUME TypeOK, LateInv, UNCHANGED treeVars, NEW a \in Actors, pc[a] \in Early,
           NEW l \in Callback, Goto(a, l), LateCall(a)
    PROVE  LateInv'
<1>1. pc'[a] = l /\ \A x \in Actors \ {a} : pc'[x] = pc[x]
  BY GotoType, Labels DEF TypeOK, Callback
<1>2. \A x \in Actors : StopRequested(x)' <=> StopRequested(x)
  BY DEF StopRequested, treeVars
<1>3. /\ lateCalls[a] = 0
      /\ lateCalls'[a] = IF StopRequested(a) THEN 1 ELSE 0
      /\ \A x \in Actors \ {a} : lateCalls'[x] = lateCalls[x]
  BY SMT DEF LateCall, LateInv, Early, TypeOK
<1>. QED
  BY <1>1, <1>2, <1>3 DEF LateInv, Callback

(* Every step keeps the count of late callbacks within its bound.          *)
LEMMA LateStep ==
    ASSUME TypeOK, LateInv, [Next]_vars
    PROVE  LateInv'
<1>1. CASE WatchRoot
  BY <1>1, GenGrows, IncomingType, LateSame DEF WatchRoot, treeVars, ghostVars
<1>2. CASE StopSystem
  BY <1>2, GenGrows, IncomingType, LateSame DEF StopSystem, ghostVars
<1>3. CASE TellRoot
  BY <1>3, GenGrows, IncomingType, LateSame DEF TellRoot, treeVars, ghostVars
<1>4. ASSUME NEW a \in Actors, NEW b \in Actors, Tell(a, b) PROVE LateInv'
  BY <1>4, GenGrows, IncomingType, LateSame DEF Tell, treeVars, ghostVars
<1>5. ASSUME NEW a \in Actors, NEW b \in Actors, Spawn(a, b) PROVE LateInv'
  <2>1. /\ pc'[b] = "start" /\ \A x \in Actors \ {b} : pc'[x] = pc[x]
        /\ gen' = gen /\ lateCalls' = lateCalls /\ pc[b] = "unborn"
        /\ \A x \in Actors \ {b} : parent'[x] = parent[x] /\ parentGen'[x] = parentGen[x]
    BY <1>5, GotoType, Labels, ZenonT(20) DEF Spawn, TypeOK, ghostVars
  <2>2. lateCalls[b] = 0
    BY <2>1 DEF LateInv
  <2>3. \A x \in Actors \ {b} : StopRequested(x)' <=> StopRequested(x)
    BY <2>1 DEF StopRequested
  <2>. QED
    BY <2>1, <2>2, <2>3 DEF LateInv
<1>6. ASSUME NEW a \in Actors, NEW b \in Actors, Watch(a, b) PROVE LateInv'
  BY <1>6, GenGrows, IncomingType, LateSame DEF Watch, treeVars, ghostVars
<1>7. ASSUME NEW a \in Actors, NEW b \in Actors, Unwatch(a, b) PROVE LateInv'
  BY <1>7, GenGrows, IncomingType, LateSame DEF Unwatch, treeVars, ghostVars
<1>8. ASSUME NEW a \in Actors, CallInit(a) PROVE LateInv'
  BY <1>8, LateCallback DEF CallInit, Early, Callback
<1>9. ASSUME NEW a \in Actors, InitOk(a) PROVE LateInv'
  BY <1>9, GenGrows, IncomingType, LateGoto, Labels DEF InitOk, Return, treeVars, ghostVars, Early
<1>10. ASSUME NEW a \in Actors, InitFails(a) PROVE LateInv'
  BY <1>10, GenGrows, IncomingType, LateGoto, Labels DEF InitFails, Fail, treeVars, ghostVars, Early
<1>11. ASSUME NEW a \in Actors, ReceiveContinue(a) PROVE LateInv'
  BY <1>11, GenGrows, IncomingType, LateGoto, Labels
     DEF ReceiveContinue, Return, treeVars, ghostVars, Early
<1>12. ASSUME NEW a \in Actors, ReceiveStop(a) PROVE LateInv'
  BY <1>12, GenGrows, IncomingType, LateGoto, Labels
     DEF ReceiveStop, Return, treeVars, ghostVars, Early
<1>13. ASSUME NEW a \in Actors, ReceiveFails(a) PROVE LateInv'
  BY <1>13, GenGrows, IncomingType, LateGoto, Labels
     DEF ReceiveFails, Fail, treeVars, ghostVars, Early
<1>14. ASSUME NEW a \in Actors, StoppedByParent(a) PROVE LateInv'
  BY <1>14, GenGrows, IncomingType, LateGoto, Labels, SMTT(30)
     DEF StoppedByParent, treeVars, ghostVars, Early
<1>15. ASSUME NEW a \in Actors, PollMailbox(a) PROVE LateInv'
  BY <1>15, GenGrows, IncomingType, LateGoto, Labels, SMTT(30)
     DEF PollMailbox, MailboxTurn, treeVars, ghostVars, Early
<1>16. ASSUME NEW a \in Actors, Recv(a) PROVE LateInv'
  <2>1. CASE Goto(a, "select") /\ UNCHANGED ghostVars
    <3>1. UNCHANGED <<parent, parentGen, gen, lateCalls>> /\ pc[a] = "recv"
      BY <1>16, <2>1 DEF Recv, treeVars, ghostVars
    <3>2. gen' \in [Watcher -> Nat] /\ \A q \in Watcher : gen[q] <= gen'[q]
      BY <3>1, IncomingType, GenGrows
    <3>3. "recv" \in Early /\ "select" \in PC
      BY Labels DEF Early
    <3>. QED
      BY <2>1, <3>1, <3>2, <3>3, LateGoto
  <2>2. CASE Goto(a, "receive") /\ LateCall(a)
    BY <1>16, <2>2, LateCallback DEF Recv, Early, Callback
  <2>. QED
    BY <1>16, <2>1, <2>2 DEF Recv
<1>17. ASSUME NEW a \in Actors, NEW longUp \in BOOLEAN, GiveUp(a, longUp) PROVE LateInv'
  BY <1>17, GenGrows, IncomingType, LateGoto, Labels DEF GiveUp, treeVars, ghostVars, Early
<1>18. ASSUME NEW a \in Actors, NEW longUp \in BOOLEAN, Restart(a, longUp) PROVE LateInv'
  <2>1. \/ Goto(a, "terminate")
        \/ Goto(a, "restarting") /\ ~StopRequested(a)
    BY <1>18 DEF Restart
  <2>2. gen' = gen \/ NextGeneration(a)
    BY <1>18 DEF Restart
  <2>. QED
    BY <1>18, <2>1, <2>2, GenGrows, IncomingType, LateGoto, Labels DEF Restart, ghostVars, Early
<1>19. ASSUME NEW a \in Actors, RestartChildrenEnded(a) PROVE LateInv'
  BY <1>19, GenGrows, IncomingType, LateGoto, Labels, SMTT(30)
     DEF RestartChildrenEnded, treeVars, ghostVars, Early
<1>20. ASSUME NEW a \in Actors, Backoff(a) PROVE LateInv'
  <2>1. PICK l \in {"terminate", "start"} : Goto(a, l)
    BY <1>20 DEF Backoff
  <2>. QED
    BY <1>20, <2>1, GenGrows, IncomingType, LateGoto, Labels DEF Backoff, treeVars, ghostVars, Early
<1>21. ASSUME NEW a \in Actors, Drain(a) PROVE LateInv'
  BY <1>21, GenGrows, IncomingType, LateGoto, Labels DEF Drain, treeVars, ghostVars, Early
<1>22. ASSUME NEW a \in Actors, DropReceiver(a) PROVE LateInv'
  BY <1>22, GenGrows, IncomingType, LateGoto, Labels, SMTT(30)
     DEF DropReceiver, treeVars, ghostVars, Early
<1>23. ASSUME NEW a \in Actors, NEW b \in Actors, Deregister(a, b) PROVE LateInv'
  BY <1>23, GenGrows, IncomingType, LateSame DEF Deregister, treeVars, ghostVars
<1>24. ASSUME NEW a \in Actors, StopChildren(a) PROVE LateInv'
  BY <1>24, GenGrows, IncomingType, LateGoto, Labels DEF StopChildren, treeVars, ghostVars, Early
<1>25. ASSUME NEW a \in Actors, AllChildrenEnded(a) PROVE LateInv'
  BY <1>25, GenGrows, IncomingType, LateGoto, Labels
     DEF AllChildrenEnded, treeVars, ghostVars, Early
<1>26. ASSUME NEW a \in Actors, TakeWatchers(a) PROVE LateInv'
  BY <1>26, GenGrows, IncomingType, LateGoto, Labels
     DEF TakeWatchers, treeVars, ghostVars, Early
<1>27. ASSUME NEW a \in Actors, NEW w \in Watcher, SendTerminated(a, w) PROVE LateInv'
  BY <1>27, GenGrows, IncomingType, LateSame DEF SendTerminated, treeVars, ghostVars
<1>28. ASSUME NEW a \in Actors, End(a) PROVE LateInv'
  BY <1>28, GenGrows, IncomingType, LateGoto, Labels DEF End, treeVars, ghostVars, Early
<1>29. CASE UNCHANGED vars
  BY <1>29, GenGrows, IncomingType, LateSame DEF vars, treeVars, ghostVars
<1>. QED
  BY <1>1, <1>2, <1>3, <1>4, <1>5, <1>6, <1>7, <1>8, <1>9, <1>10, <1>11, <1>12, <1>13, <1>14,
     <1>15, <1>16, <1>17, <1>18, <1>19, <1>20, <1>21, <1>22, <1>23, <1>24, <1>25, <1>26,
     <1>27, <1>28, <1>29
     DEF Next, UserCode, Task, Returns, RunLoop, Terminate

----------------------------------------------------------------------------
(* Death watch.  What a step does to the mailboxes is stated once: which   *)
(* items are queued, and whether an actor's signal is behind its messages. *)

Ordered(a, b) ==
    \A i, j \in DOMAIN mailbox[a] :
      i < j /\ mailbox[a][i] = Terminated(b) => mailbox[a][j] # Message(b)

(* A message is never a signal.                                            *)
LEMMA ItemsDiffer ==
    /\ \A a, b : Terminated(a) # Message(b)
    /\ \A a, b : Terminated(a) = Terminated(b) => a = b
    /\ \A a, b : Message(a) = Message(b) => a = b
BY DEF Terminated, Message

(* What is queued depends on the mailboxes only.                           *)
LEMMA MailSame ==
    ASSUME UNCHANGED mailbox
    PROVE  \A x, i : (Queued(x, i)' <=> Queued(x, i)) /\ (Ordered(x, i)' <=> Ordered(x, i))
BY DEF Queued, Ordered

(* A send adds its item behind all others, or nothing.                     *)
LEMMA MailEnqueue ==
    ASSUME NEW b \in Actors, NEW incoming \in Incoming, mailbox \in [Actors -> Seq(Incoming)],
           Enqueue(b, incoming)
    PROVE  /\ \A x \in Actors : \A i : Queued(x, i)' =>
                Queued(x, i) \/ (x = b /\ i = incoming)
           /\ \A x \in Actors : \A i : Queued(x, i) => Queued(x, i)'
           /\ connected[b] => Queued(b, incoming)'
           /\ \A x \in Actors : \A y : Ordered(x, y) /\ ~(x = b /\ incoming = Message(y)) => Ordered(x, y)'
           /\ \A x \in Actors : \A y : Ordered(x, y) /\ ~Queued(x, Terminated(y)) => Ordered(x, y)'
<1>1. CASE ~connected[b]
  <2>1. mailbox' = mailbox
    BY <1>1 DEF Enqueue
  <2>. QED
    BY <1>1, <2>1 DEF Queued, Ordered
<1>2. CASE connected[b]
  <2> DEFINE q == mailbox[b]
             n == Len(q)
  <2>1. /\ mailbox'[b] = Append(q, incoming)
        /\ \A x \in Actors \ {b} : mailbox'[x] = mailbox[x]
    BY <1>2 DEF Enqueue
  <2>2. /\ q \in Seq(Incoming) /\ n \in Nat
        /\ DOMAIN q = 1 .. n
        /\ DOMAIN mailbox'[b] = 1 .. n + 1
        /\ mailbox'[b][n + 1] = incoming
        /\ \A i \in 1 .. n : mailbox'[b][i] = q[i]
    BY <2>1, SMT
  <2> HIDE DEF n
  <2>3. \A i : Queued(b, i)' <=> Queued(b, i) \/ i = incoming
    <3>1. SUFFICES ASSUME NEW i
                   PROVE  (\E k \in 1 .. n + 1 : mailbox'[b][k] = i) <=>
                            (\E k \in 1 .. n : q[k] = i) \/ i = incoming
      BY <2>2 DEF Queued
    <3>2. \A k \in 1 .. n + 1 : k \in 1 .. n \/ k = n + 1
      BY <2>2, SMT
    <3>3. n + 1 \in 1 .. n + 1 /\ \A k \in 1 .. n : k \in 1 .. n + 1
      BY <2>2, SMT
    <3>. QED
      BY <2>2, <3>2, <3>3
  <2>4. \A y : Ordered(b, y) /\ (incoming # Message(y) \/ ~Queued(b, Terminated(y))) => Ordered(b, y)'
    <3>1. SUFFICES ASSUME NEW y, Ordered(b, y),
                          incoming # Message(y) \/ ~Queued(b, Terminated(y)),
                          NEW i \in 1 .. n + 1, NEW j \in 1 .. n + 1,
                          i < j, mailbox'[b][i] = Terminated(y)
                   PROVE  mailbox'[b][j] # Message(y)
      BY <2>2 DEF Ordered, Terminated, Message
    <3>2. i \in 1 .. n /\ (j \in 1 .. n \/ j = n + 1)
      BY <2>2, <3>1, SMT
    <3>3. q[i] = Terminated(y)
      BY <2>2, <3>1, <3>2
    <3>4. Queued(b, Terminated(y))
      BY <2>2, <3>2, <3>3 DEF Queued
    <3>5. CASE j \in 1 .. n
      BY <2>2, <3>1, <3>2, <3>3, <3>5 DEF Ordered
    <3>6. CASE j = n + 1
      BY <2>2, <3>1, <3>4, <3>6
    <3>. QED
      BY <3>2, <3>5, <3>6
  <2>5. \A x \in Actors \ {b} : \A i : (Queued(x, i)' <=> Queued(x, i)) /\ (Ordered(x, i)' <=> Ordered(x, i))
    BY <2>1 DEF Queued, Ordered, Terminated, Message
  <2>. QED
    BY <1>2, <2>3, <2>4, <2>5
<1>. QED
  BY <1>1, <1>2

(* A receive removes the first item only.                                  *)
LEMMA MailDequeue ==
    ASSUME mailbox \in [Actors -> Seq(Incoming)], NEW a \in Actors, mailbox[a] # <<>>,
           mailbox' = [mailbox EXCEPT ![a] = Tail(@)]
    PROVE  /\ \A x \in Actors : \A i : Queued(x, i)' => Queued(x, i)
           /\ \A x \in Actors : \A i : Queued(x, i) => Queued(x, i)' \/ (x = a /\ i = Head(mailbox[a]))
           /\ Queued(a, Head(mailbox[a]))
           /\ \A x \in Actors : \A y : Ordered(x, y) => Ordered(x, y)'
           /\ \A y : Ordered(a, y) /\ Head(mailbox[a]) = Terminated(y) => ~Queued(a, Message(y))'
<1> DEFINE q == mailbox[a]
           n == Len(q)
<1>1. /\ mailbox'[a] = Tail(q)
      /\ \A x \in Actors \ {a} : mailbox'[x] = mailbox[x]
  OBVIOUS
<1>2. /\ q \in Seq(Incoming) /\ n \in Nat \ {0}
      /\ DOMAIN q = 1 .. n
      /\ DOMAIN mailbox'[a] = 1 .. n - 1
      /\ Head(q) = q[1]
      /\ \A i \in 1 .. n - 1 : mailbox'[a][i] = q[i + 1]
  BY <1>1, SMT
<1> HIDE DEF n
<1>3. /\ \A k \in 1 .. n : k = 1 \/ k - 1 \in 1 .. n - 1
      /\ \A k \in 1 .. n - 1 : k + 1 \in 1 .. n /\ 1 < k + 1
      /\ 1 \in 1 .. n
  BY <1>2, SMT
<1>4. \A i : Queued(a, i)' => Queued(a, i)
  BY <1>2, <1>3, SMT DEF Queued
<1>5. \A i : Queued(a, i) => Queued(a, i)' \/ i = Head(q)
  <2>1. SUFFICES ASSUME NEW i, NEW k \in 1 .. n, q[k] = i, i # Head(q)
                 PROVE  \E m \in 1 .. n - 1 : mailbox'[a][m] = i
    BY <1>2 DEF Queued
  <2>2. k - 1 \in 1 .. n - 1 /\ (k - 1) + 1 = k
    BY <1>2, <1>3, <2>1, SMT
  <2>. QED
    BY <1>2, <2>1, <2>2
<1>6. \A y : Ordered(a, y) => Ordered(a, y)'
  <2>1. SUFFICES ASSUME NEW y, Ordered(a, y), NEW i \in 1 .. n - 1, NEW j \in 1 .. n - 1,
                        i < j, mailbox'[a][i] = Terminated(y)
                 PROVE  mailbox'[a][j] # Message(y)
    BY <1>2, SMT DEF Ordered, Terminated, Message
  <2>2. i + 1 \in 1 .. n /\ j + 1 \in 1 .. n /\ i + 1 < j + 1
    BY <1>2, <1>3, <2>1, SMT
  <2>. QED
    BY <1>2, <2>1, <2>2, ZenonT(20) DEF Ordered
<1>7. \A y : Ordered(a, y) /\ Head(q) = Terminated(y) => ~Queued(a, Message(y))'
  <2>1. SUFFICES ASSUME NEW y, Ordered(a, y), Head(q) = Terminated(y),
                        NEW k \in 1 .. n - 1, mailbox'[a][k] = Message(y)
                 PROVE  FALSE
    BY <1>2 DEF Queued, Message
  <2>2. q[k + 1] = Message(y) /\ q[1] = Terminated(y)
    BY <1>2, <2>1
  <2>. QED
    BY <1>2, <1>3, <2>1, <2>2, SMTT(30) DEF Ordered
<1>8. Queued(a, Head(q))
  BY <1>2, <1>3 DEF Queued
<1>9. \A x \in Actors \ {a} : \A i : (Queued(x, i)' <=> Queued(x, i)) /\ (Ordered(x, i)' <=> Ordered(x, i))
  BY <1>1, SMT DEF Queued, Ordered, Terminated, Message
<1>. QED
  BY <1>4, <1>5, <1>6, <1>7, <1>8, <1>9

(* The order conjunct of SignalLast, for one pair of actors ...            *)
LEMMA SignalLastOrdered ==
    SignalLast <=> \A a, b \in Actors : Ordered(a, b) /\ (b \in seen[a] => ~Queued(a, Message(b)))
BY DEF SignalLast, Ordered

(* ... and the same after a step.                                          *)
LEMMA SignalLastOrderedNext ==
    SignalLast' <=>
      \A a, b \in Actors : Ordered(a, b)' /\ (b \in seen'[a] => ~Queued(a, Message(b))')
BY DEF SignalLast, Ordered, Queued, Message

(* The same for the proof of a termination.                                *)
LEMMA SignalGone ==
    SignalProvesTermination <=>
      \A a, b \in Actors : Queued(a, Terminated(b)) \/ b \in seen[a] => pc[b] \in Gone
BY DEF SignalProvesTermination, Gone

LEMMA SignalGoneNext ==
    SignalProvesTermination' <=>
      \A a, b \in Actors : Queued(a, Terminated(b))' \/ b \in seen'[a] => pc'[b] \in Gone
BY DEF SignalProvesTermination, Gone, Terminated, Queued

Closed == {"deregister", "stopping"} \cup Past

(* One actor moves on without touching mailboxes or registries.            *)
LEMMA WatchGoto ==
    ASSUME TypeOK, WatchInv, UNCHANGED <<mailVars, watchVars, seen, system>>,
           NEW a \in Actors, NEW l \in PC, Goto(a, l),
           pc[a] \in Gone <=> l \in Gone,
           pending[a] # {} => l = "signalling",
           pc[a] \in Closed <=> l \in Closed,
           watched[a] # {} => /\ l \notin {"stopping"} \cup Past
                              /\ pc[a] \notin {"drained", "deregister"}
    PROVE  WatchInv'
<1>1. /\ pc'[a] = l /\ \A x \in Actors \ {a} : pc'[x] = pc[x]
      /\ mailbox' = mailbox /\ connected' = connected /\ watched' = watched /\ watchers' = watchers
      /\ open' = open /\ pending' = pending /\ seen' = seen /\ system' = system
  BY GotoType DEF TypeOK, mailVars, watchVars
<1>2. \A x, i : (Queued(x, i)' <=> Queued(x, i)) /\ (Ordered(x, i)' <=> Ordered(x, i))
  BY <1>1, MailSame
<1>3. TerminateInv'
  BY <1>1 DEF WatchInv, TerminateInv, Closed
<1>4. SystemInv'
  BY <1>1, RootAssumption DEF WatchInv, SystemInv
<1>5. SignalProvesTermination'
  <2>1. \A x \in Actors : pc[x] \in Gone => pc'[x] \in Gone
    BY <1>1
  <2>. QED
    BY <1>1, <1>2, <2>1, SignalGone, SignalGoneNext DEF WatchInv
<1>6. RegistrationsMatch'
  <2>1. \A x \in Actors : watched[x] # {} /\ pc[x] \notin Past => pc'[x] \notin Past
    BY <1>1
  <2>. QED
    BY <1>1, <2>1 DEF WatchInv, RegistrationsMatch
<1>7. NoLostSignal'
  <2>1. \A x \in Actors : watched[x] # {} /\ pc'[x] \notin {"drained", "deregister"} =>
                            pc[x] \notin {"drained", "deregister"}
    BY <1>1
  <2>. QED
    BY <1>1, <1>2, <2>1 DEF WatchInv, NoLostSignal, Terminated
<1>8. SignalLast'
  BY <1>1, <1>2, SignalLastOrdered, SignalLastOrderedNext DEF WatchInv, Message
<1>. QED
  BY <1>3, <1>4, <1>5, <1>6, <1>7, <1>8 DEF WatchInv

(* A message is sent by somebody who has not closed its registration.      *)
LEMMA WatchSend ==
    ASSUME TypeOK, WatchInv, UNCHANGED <<pc, connected, watchVars, seen, system>>,
           NEW b \in Actors, NEW from \in Watcher, Enqueue(b, Message(from)),
           from \in Actors => pc[from] \notin Gone
    PROVE  WatchInv'
<1>1. /\ connected' = connected /\ watched' = watched /\ watchers' = watchers
      /\ open' = open /\ pending' = pending /\ seen' = seen /\ system' = system /\ pc' = pc
  BY SMTT(30) DEF watchVars
<1>2. /\ \A x \in Actors : \A i : Queued(x, i)' => Queued(x, i) \/ (x = b /\ i = Message(from))
      /\ \A x \in Actors : \A i : Queued(x, i) => Queued(x, i)'
      /\ \A x \in Actors : \A y : Ordered(x, y) /\ ~(x = b /\ Message(from) = Message(y)) => Ordered(x, y)'
      /\ \A x \in Actors : \A y : Ordered(x, y) /\ ~Queued(x, Terminated(y)) => Ordered(x, y)'
  BY MailEnqueue, IncomingType DEF TypeOK
<1>3. TerminateInv' /\ SystemInv' /\ RegistrationsMatch'
  BY <1>1 DEF WatchInv, TerminateInv, SystemInv, RegistrationsMatch
<1>4. \A x, y \in Actors : Queued(x, Terminated(y))' <=> Queued(x, Terminated(y))
  <2>1. \A y \in Actors : Terminated(y) # Message(from)
    BY ItemsDiffer
  <2>. QED
    BY <1>2, <2>1
<1>5. SignalProvesTermination' /\ NoLostSignal'
  BY <1>1, <1>4 DEF WatchInv, SignalProvesTermination, NoLostSignal
<1>6. SignalLast'
  <2>1. SUFFICES ASSUME NEW x \in Actors, NEW y \in Actors
                 PROVE  Ordered(x, y)' /\ (y \in seen[x] => ~Queued(x, Message(y))')
    BY <1>1, SignalLastOrderedNext
  <2>2. Ordered(x, y) /\ (y \in seen[x] => ~Queued(x, Message(y)))
    BY SignalLastOrdered DEF WatchInv
  <2>3. CASE y = from
    <3>1. ~Queued(x, Terminated(y)) /\ y \notin seen[x]
      BY <2>3 DEF WatchInv, SignalProvesTermination, Gone
    <3>. QED
      BY <1>2, <2>2, <3>1
  <2>4. CASE y # from
    BY <1>2, <2>2, <2>4, ItemsDiffer DEF Message
  <2>. QED
    BY <2>3, <2>4
<1>. QED
  BY <1>3, <1>5, <1>6, SMTT(30) DEF WatchInv

(* Unwatching clears both records.                                         *)
LEMMA WatchForget ==
    ASSUME TypeOK, WatchInv, NEW a \in Actors, NEW b \in Actors, Forget(a, b),
           UNCHANGED <<pc, mailVars, open, pending, seen, system>>
    PROVE  WatchInv'
<1>1. /\ pc' = pc /\ mailbox' = mailbox /\ connected' = connected /\ open' = open
      /\ pending' = pending /\ seen' = seen /\ system' = system
      /\ watched'[a] = watched[a] \ {b} /\ \A x \in Actors \ {a} : watched'[x] = watched[x]
      /\ watchers'[b] = watchers[b] \ {a} /\ \A x \in Actors \ {b} : watchers'[x] = watchers[x]
  BY SMTT(30) DEF Forget, TypeOK, mailVars
<1>2. \A x, i : (Queued(x, i)' <=> Queued(x, i)) /\ (Ordered(x, i)' <=> Ordered(x, i))
  BY <1>1, MailSame
<1>3. TerminateInv'
  <2>1. \A x \in Actors : /\ watchers'[x] \subseteq watchers[x]
                          /\ watched'[x] \subseteq watched[x]
    BY <1>1
  <2>2. \A x \in Actors : /\ watchers[x] = {} => watchers'[x] = {}
                          /\ watched[x] = {} => watched'[x] = {}
    BY <2>1
  <2>. QED
    <3>1. \A x \in Actors : ~open'[x] => watchers'[x] = {}
      BY <1>1, <2>2 DEF WatchInv, TerminateInv
    <3>2. \A x \in Actors : pc'[x] \in {"stopping"} \cup Past => watched'[x] = {}
      BY <1>1, <2>2 DEF WatchInv, TerminateInv
    <3>3. \A x \in Actors : /\ open'[x] <=> pc'[x] \notin Gone
                            /\ pending'[x] # {} => pc'[x] = "signalling"
                            /\ connected'[x] <=> pc'[x] \notin {"deregister", "stopping"} \cup Past
      BY <1>1 DEF WatchInv, TerminateInv
    <3>. QED
      BY <3>1, <3>2, <3>3 DEF TerminateInv
<1>4. SystemInv'
  BY <1>1 DEF WatchInv, SystemInv
<1>5. SignalProvesTermination'
  BY <1>1, <1>2 DEF WatchInv, SignalProvesTermination, Terminated
<1>6. RegistrationsMatch'
  BY <1>1 DEF WatchInv, RegistrationsMatch
<1>7. NoLostSignal'
  BY <1>1, <1>2 DEF WatchInv, NoLostSignal, Terminated
<1>8. SignalLast'
  BY <1>1, <1>2, SignalLastOrdered, SignalLastOrderedNext, SMTT(30) DEF WatchInv, Message
<1>. QED
  BY <1>3, <1>4, <1>5, <1>6, <1>7, <1>8 DEF WatchInv

(* The actor system registers with the root, or finds it terminated.       *)
LEMMA WatchRootStep ==
    ASSUME TypeOK, WatchInv, WatchRoot
    PROVE  WatchInv'
<1>1. /\ pc' = pc /\ mailbox' = mailbox /\ connected' = connected /\ open' = open
      /\ pending' = pending /\ seen' = seen /\ watched' = watched
      /\ \A x \in Actors \ {Root} : watchers'[x] = watchers[x]
      /\ watchers'[Root] \subseteq watchers[Root] \cup {System}
      /\ ~open[Root] => watchers' = watchers
      /\ system' = "terminated" => ~open[Root]
  BY RootAssumption DEF WatchRoot, TypeOK, mailVars, ghostVars
<1>2. \A x, i : (Queued(x, i)' <=> Queued(x, i)) /\ (Ordered(x, i)' <=> Ordered(x, i))
  BY <1>1, MailSame
<1>3. TerminateInv'
  BY <1>1 DEF WatchInv, TerminateInv
<1>4. SystemInv'
  BY <1>1, RootAssumption DEF WatchInv, SystemInv, TerminateInv
<1>5. SignalProvesTermination'
  BY <1>1, <1>2, SignalGone, SignalGoneNext DEF WatchInv
<1>6. RegistrationsMatch'
  <2>1. \A x, y \in Actors : x \in watchers'[y] => x \in watchers[y]
    BY <1>1, RootAssumption
  <2>. QED
    BY <1>1, <2>1 DEF WatchInv, RegistrationsMatch
<1>7. NoLostSignal'
  <2>1. \A x, y \in Actors : x \in watchers[y] => x \in watchers'[y]
    <3>1. watchers' = watchers \/ watchers' = [watchers EXCEPT ![Root] = @ \cup {System}]
      BY DEF WatchRoot
    <3>2. watchers \in [Actors -> SUBSET Watcher]
      BY DEF TypeOK
    <3>. QED
      BY <3>1, <3>2, RootAssumption
  <2>. QED
    BY <1>1, <1>2, <2>1 DEF WatchInv, NoLostSignal, Terminated
<1>8. SignalLast'
  BY <1>1, <1>2, SignalLastOrdered, SignalLastOrderedNext DEF WatchInv, Message
<1>. QED
  BY <1>3, <1>4, <1>5, <1>6, <1>7, <1>8, SMTT(30) DEF WatchInv

(* Registration is open: the watcher is registered.                        *)
LEMMA WatchOpen ==
    ASSUME TypeOK, WatchInv, NEW a \in Actors, NEW b \in Actors, Watch(a, b), open[b]
    PROVE  WatchInv'
<1>1. /\ pc' = pc /\ mailbox' = mailbox /\ connected' = connected /\ open' = open
      /\ pending' = pending /\ seen' = seen /\ system' = system /\ pc[a] \in Callback
      /\ watched'[a] = watched[a] \cup {b} /\ \A x \in Actors \ {a} : watched'[x] = watched[x]
      /\ watchers'[b] = watchers[b] \cup {a} /\ \A x \in Actors \ {b} : watchers'[x] = watchers[x]
  BY DEF Watch, Register, TypeOK, ghostVars
<1>2. \A x, i : (Queued(x, i)' <=> Queued(x, i)) /\ (Ordered(x, i)' <=> Ordered(x, i))
  BY <1>1, MailSame
<1>3. pc[a] \notin {"stopping"} \cup Past /\ a # System
  BY <1>1, RootAssumption DEF Callback, Past
<1>4. TerminateInv'
  BY <1>1, <1>3 DEF WatchInv, TerminateInv
<1>5. SystemInv'
  BY <1>1, <1>3 DEF WatchInv, SystemInv
<1>6. SignalProvesTermination'
  BY <1>1, <1>2 DEF WatchInv, SignalProvesTermination, Terminated
<1>7. RegistrationsMatch'
  BY <1>1, <1>3 DEF WatchInv, RegistrationsMatch
<1>8. NoLostSignal'
  BY <1>1, <1>2, ZenonT(20) DEF WatchInv, NoLostSignal, Terminated
<1>9. SignalLast'
  BY <1>1, <1>2, SignalLastOrdered, SignalLastOrderedNext, ZenonT(20) DEF WatchInv, Message
<1>. QED
  BY <1>4, <1>5, <1>6, <1>7, <1>8, <1>9 DEF WatchInv

(* A signal is sent by an actor which has closed its registration.  It is  *)
(* queued for whoever still has a mailbox; pending and watched may change  *)
(* with it as the caller says.                                             *)
LEMMA MailSignal ==
    ASSUME TypeOK, WatchInv, UNCHANGED <<pc, seen>>,
           NEW a \in Actors, NEW b \in Actors, Enqueue(a, Terminated(b)), pc[b] \in Gone
    PROVE  /\ SignalProvesTermination' /\ SignalLast'
           /\ \A x, y \in Actors : Queued(x, Terminated(y)) => Queued(x, Terminated(y))'
           /\ connected[a] => Queued(a, Terminated(b))'
<1>1. /\ \A x \in Actors : \A i : Queued(x, i)' => Queued(x, i) \/ (x = a /\ i = Terminated(b))
      /\ \A x \in Actors : \A i : Queued(x, i) => Queued(x, i)'
      /\ connected[a] => Queued(a, Terminated(b))'
      /\ \A x \in Actors : \A y : Ordered(x, y) /\ ~(x = a /\ Terminated(b) = Message(y)) => Ordered(x, y)'
  BY MailEnqueue, IncomingType DEF TypeOK
<1>2. \A x, y \in Actors : Queued(x, Terminated(y))' =>
        Queued(x, Terminated(y)) \/ (x = a /\ y = b)
  BY <1>1, ItemsDiffer DEF Terminated
<1>3. \A x, y \in Actors : Queued(x, Message(y))' => Queued(x, Message(y))
  <2>1. \A y, z : Message(y) # Terminated(z)
    BY DEF Message, Terminated
  <2>. QED
    BY <1>1, <2>1 DEF Message
<1>4. SignalProvesTermination'
  BY <1>2 DEF WatchInv, SignalProvesTermination, Gone
<1>5. \A x, y \in Actors : Ordered(x, y) => Ordered(x, y)'
  BY <1>1, ItemsDiffer
<1>6. SignalLast'
  BY <1>3, <1>5, SignalLastOrdered, SignalLastOrderedNext DEF WatchInv
<1>. QED
  BY <1>1, <1>4, <1>6 DEF Terminated

(* Registration is closed: the watcher signals itself.                     *)
LEMMA WatchClosed ==
    ASSUME TypeOK, WatchInv, NEW a \in Actors, NEW b \in Actors, Watch(a, b), ~open[b]
    PROVE  WatchInv'
<1>1. /\ pc' = pc /\ connected' = connected /\ open' = open /\ watchers' = watchers
      /\ pending' = pending /\ seen' = seen /\ system' = system /\ pc[a] \in Callback
      /\ watched'[a] = watched[a] \cup {b} /\ \A x \in Actors \ {a} : watched'[x] = watched[x]
      /\ Enqueue(a, Terminated(b))
  BY DEF Watch, Register, TypeOK, ghostVars
<1>2. pc[b] \in Gone /\ connected[a]
  BY <1>1 DEF WatchInv, TerminateInv, Callback, Past
<1>3. /\ SignalProvesTermination' /\ SignalLast'
      /\ \A x, y \in Actors : Queued(x, Terminated(y)) => Queued(x, Terminated(y))'
      /\ Queued(a, Terminated(b))'
  BY <1>1, <1>2, MailSignal
<1>4. TerminateInv'
  <2>1. pc[a] \notin {"stopping"} \cup Past
    BY <1>1 DEF Callback, Past
  <2>. QED
    BY <1>1, <2>1 DEF WatchInv, TerminateInv
<1>5. SystemInv'
  BY <1>1 DEF WatchInv, SystemInv
<1>6. RegistrationsMatch'
  BY <1>1 DEF WatchInv, RegistrationsMatch
<1>7. NoLostSignal'
  BY <1>1, <1>3 DEF WatchInv, NoLostSignal, Terminated
<1>. QED
  BY <1>3, <1>4, <1>5, <1>6, <1>7 DEF WatchInv

(* The receiver takes an item; the signal of a watched actor consumes the  *)
(* watch, which the registry has forgotten already.                        *)
LEMMA WatchRecv ==
    ASSUME TypeOK, RecvInv, WatchInv, NEW a \in Actors, Recv(a)
    PROVE  WatchInv'
<1> DEFINE item == Head(mailbox[a])
           delivered == {y \in Actors : item = Terminated(y) /\ y \in watched[a]}
<1>1. mailbox[a] \in Seq(Incoming) /\ mailbox[a] # <<>> /\ item \in Incoming
  <2>1. mailbox[a] \in Seq(Incoming)
    BY DEF TypeOK
  <2>2. mailbox[a] # <<>>
    BY DEF Recv, RecvInv
  <2>3. PICK box \in Seq(Incoming) : box = mailbox[a]
    BY <2>1
  <2>4. Head(box) \in Incoming
    BY <2>2, <2>3, SMT
  <2>. QED
    BY <2>1, <2>2, <2>3, <2>4
<1>2. item.kind = "terminated" => item = Terminated(item.actor)
  BY <1>1 DEF Incoming, Terminated
<1>3. item.kind # "terminated" => \A y : item # Terminated(y)
  BY SMTT(30) DEF Terminated
<1>4. /\ connected' = connected /\ watchers' = watchers /\ open' = open /\ pending' = pending
      /\ system' = system
      /\ \A x \in Actors \ {a} : pc'[x] = pc[x] /\ watched'[x] = watched[x] /\ seen'[x] = seen[x]
      /\ pc[a] = "recv" /\ pc'[a] \in {"select", "receive"}
  <2>1. /\ connected' = connected /\ watchers' = watchers /\ open' = open /\ pending' = pending
        /\ system' = system /\ pc[a] = "recv"
    BY DEF Recv
  <2>2. PICK l \in {"select", "receive"} : Goto(a, l)
    BY DEF Recv
  <2>3. pc \in [Actors -> PC] /\ l \in PC
    BY Labels DEF TypeOK
  <2>4. pc'[a] = l /\ \A x \in Actors \ {a} : pc'[x] = pc[x]
    BY <2>2, <2>3, GotoType
  <2>5. \A x \in Actors \ {a} : watched'[x] = watched[x]
    BY DEF Recv, TypeOK
  <2>6. \A x \in Actors \ {a} : seen'[x] = seen[x]
    BY DEF Recv, TypeOK, ghostVars
  <2>. QED
    BY <2>1, <2>4, <2>5, <2>6
<1>5. watched'[a] = watched[a] \ delivered /\ seen'[a] = seen[a] \cup delivered
  <2>1. CASE item.kind = "terminated" /\ item.actor \in watched[a]
    <3>1. delivered = {item.actor}
      <4>1. item = Terminated(item.actor) /\ watched[a] \subseteq Actors
        BY <1>2, <2>1 DEF TypeOK
      <4>2. PICK b \in Actors : b = item.actor /\ item = Terminated(b) /\ b \in watched[a]
        BY <2>1, <4>1
      <4>3. \A y \in delivered : y = b
        BY <4>2, ItemsDiffer
      <4>4. b \in delivered
        BY <4>2
      <4>. QED
        BY <4>2, <4>3, <4>4
    <3>2. watched'[a] = watched[a] \ {item.actor} /\ seen'[a] = seen[a] \cup {item.actor}
      BY <2>1 DEF Recv, TypeOK
    <3>. QED
      BY <3>1, <3>2
  <2>2. CASE ~(item.kind = "terminated" /\ item.actor \in watched[a])
    <3>1. delivered = {}
      BY <1>2, <1>3, <2>2, ItemsDiffer
    <3>2. watched' = watched /\ seen' = seen
      BY <2>2 DEF Recv, ghostVars
    <3>. QED
      BY <3>1, <3>2
  <2>. QED
    BY <2>1, <2>2
<1>6. /\ \A x \in Actors : \A i : Queued(x, i)' => Queued(x, i)
      /\ \A x \in Actors : \A i : Queued(x, i) => Queued(x, i)' \/ (x = a /\ i = item)
      /\ Queued(a, item)
      /\ \A x \in Actors : \A y : Ordered(x, y) => Ordered(x, y)'
      /\ \A y : Ordered(a, y) /\ item = Terminated(y) => ~Queued(a, Message(y))'
  BY <1>1, MailDequeue DEF Recv, TypeOK
<1>7. \A y \in delivered : y \in Actors /\ Queued(a, Terminated(y)) /\ pc[y] \in Gone /\ watchers[y] = {}
  BY <1>6 DEF WatchInv, SignalProvesTermination, TerminateInv, Gone
<1> HIDE DEF item, delivered
<1>8. TerminateInv'
  <2>1. \A x \in Actors : watched[x] = {} => watched'[x] = {}
    BY <1>4, <1>5
  <2>2. pc[a] \notin Gone \cup {"deregister", "stopping", "signalling"} \cup Past
    BY <1>4 DEF Gone, Past
  <2>3. pc'[a] \notin Gone \cup {"deregister", "stopping", "signalling"} \cup Past
    BY <1>4 DEF Gone, Past
  <2>. QED
    BY <1>4, <2>1, <2>2, <2>3 DEF WatchInv, TerminateInv
<1>9. \A x \in Actors : pc[x] \in Gone => pc'[x] \in Gone
  BY <1>4 DEF Gone
<1>10. SystemInv'
  BY <1>4, <1>9, RootAssumption DEF WatchInv, SystemInv
<1>11. SignalProvesTermination'
  <2>1. \A x, y \in Actors : Queued(x, Terminated(y))' => pc[y] \in Gone
    BY <1>6 DEF WatchInv, SignalProvesTermination, Gone, Terminated
  <2>2. \A x, y \in Actors : y \in seen'[x] => pc[y] \in Gone
    BY <1>4, <1>5, <1>7 DEF WatchInv, SignalProvesTermination, Gone
  <2>. QED
    BY <1>9, <2>1, <2>2 DEF SignalProvesTermination, Gone
<1>12. RegistrationsMatch'
  <2>1. \A x, y \in Actors : x \in watchers[y] => y \in watched'[x]
    BY <1>4, <1>5, <1>7 DEF WatchInv, RegistrationsMatch
  <2>2. \A x \in Actors : pc[x] \notin Past => pc'[x] \notin Past
    BY <1>4 DEF Past
  <2>. QED
    BY <1>4, <2>1, <2>2 DEF WatchInv, RegistrationsMatch
<1>13. NoLostSignal'
  <2>1. SUFFICES ASSUME NEW x \in Actors, NEW y \in Actors,
                        y \in watched'[x], pc'[x] \notin {"drained", "deregister"}
                 PROVE  x \in watchers[y] \/ x \in pending[y] \/ Queued(x, Terminated(y))'
    BY <1>4 DEF NoLostSignal, Terminated
  <2>2. y \in watched[x] /\ pc[x] \notin {"drained", "deregister"}
    BY <1>4, <1>5, <2>1
  <2>3. x \in watchers[y] \/ x \in pending[y] \/ Queued(x, Terminated(y))
    BY <2>2 DEF WatchInv, NoLostSignal
  <2>4. ~(x = a /\ Terminated(y) = item)
    BY <1>5, <2>1, <2>2 DEF delivered
  <2>. QED
    BY <1>6, <2>3, <2>4 DEF Terminated
<1>14. SignalLast'
  <2>1. \A y \in delivered : ~Queued(a, Message(y))'
    BY <1>6, SignalLastOrdered DEF WatchInv, delivered
  <2>2. ASSUME NEW x \in Actors, NEW y \in Actors
        PROVE  Ordered(x, y)' /\ (y \in seen'[x] => ~Queued(x, Message(y))')
    <3>1. Ordered(x, y) /\ (y \in seen[x] => ~Queued(x, Message(y)))
      BY SignalLastOrdered DEF WatchInv
    <3>2. Ordered(x, y)'
      BY <1>6, <3>1
    <3>3. y \in seen'[x] => y \in seen[x] \/ (x = a /\ y \in delivered)
      BY <1>4, <1>5
    <3>4. Queued(x, Message(y))' => Queued(x, Message(y))
      BY <1>6 DEF Message
    <3>. QED
      BY <2>1, <3>1, <3>2, <3>3, <3>4
  <2>. QED
    BY <2>2, SignalLastOrderedNext
<1>. QED
  BY <1>8, <1>10, <1>11, <1>12, <1>13, <1>14 DEF WatchInv

(* The drained signals are those of an actor which deregisters next.       *)
LEMMA WatchDrain ==
    ASSUME TypeOK, WatchInv, NEW a \in Actors, Drain(a)
    PROVE  WatchInv'
<1>1. /\ connected' = connected /\ watched' = watched /\ watchers' = watchers /\ open' = open
      /\ pending' = pending /\ seen' = seen /\ system' = system
      /\ mailbox'[a] = <<>> /\ \A x \in Actors \ {a} : mailbox'[x] = mailbox[x]
      /\ pc[a] = "terminate" /\ pc'[a] = "drained" /\ \A x \in Actors \ {a} : pc'[x] = pc[x]
  BY GotoType, Labels DEF Drain, TypeOK, watchVars, ghostVars
<1>2. /\ \A i : ~Queued(a, i)' /\ Ordered(a, i)'
      /\ \A x \in Actors \ {a} : \A i : (Queued(x, i)' <=> Queued(x, i)) /\ (Ordered(x, i)' <=> Ordered(x, i))
  <2>1. DOMAIN mailbox'[a] = {}
    BY <1>1, SMT
  <2>2. \A i : ~Queued(a, i)' /\ Ordered(a, i)'
    BY <2>1 DEF Queued, Ordered
  <2>3. ASSUME NEW x \in Actors \ {a}, NEW i
        PROVE  (Queued(x, i)' <=> Queued(x, i)) /\ (Ordered(x, i)' <=> Ordered(x, i))
    <3>1. mailbox'[x] = mailbox[x]
      BY <1>1
    <3>. QED
      BY <3>1 DEF Queued, Ordered, Terminated, Message
  <2>. QED
    BY <2>2, <2>3
<1>3. TerminateInv' /\ SystemInv'
  BY <1>1, RootAssumption, ZenonT(20) DEF WatchInv, TerminateInv, SystemInv, Gone, Past
<1>4. SignalProvesTermination'
  BY <1>1, <1>2 DEF WatchInv, SignalProvesTermination, Terminated
<1>5. RegistrationsMatch'
  BY <1>1 DEF WatchInv, RegistrationsMatch, Past
<1>6. NoLostSignal'
  BY <1>1, <1>2 DEF WatchInv, NoLostSignal, Terminated
<1>7. SignalLast'
  BY <1>1, <1>2, SignalLastOrdered, SignalLastOrderedNext, ZenonT(20) DEF WatchInv, Message
<1>. QED
  BY <1>3, <1>4, <1>5, <1>6, <1>7 DEF WatchInv

(* The receiver is dropped by an actor which deregisters next.             *)
LEMMA WatchDropReceiver ==
    ASSUME TypeOK, WatchInv, NEW a \in Actors, DropReceiver(a)
    PROVE  WatchInv'
<1>1. /\ mailbox' = mailbox /\ watched' = watched /\ watchers' = watchers /\ open' = open
      /\ pending' = pending /\ seen' = seen /\ system' = system
      /\ connected'[a] = FALSE /\ \A x \in Actors \ {a} : connected'[x] = connected[x]
      /\ pc[a] = "drained" /\ pc'[a] = "deregister" /\ \A x \in Actors \ {a} : pc'[x] = pc[x]
  BY GotoType, Labels DEF DropReceiver, TypeOK, watchVars, ghostVars
<1>2. \A x, i : (Queued(x, i)' <=> Queued(x, i)) /\ (Ordered(x, i)' <=> Ordered(x, i))
  BY <1>1, MailSame
<1>3. TerminateInv' /\ SystemInv'
  BY <1>1, RootAssumption DEF WatchInv, TerminateInv, SystemInv, Gone, Past
<1>4. SignalProvesTermination'
  BY <1>1, <1>2 DEF WatchInv, SignalProvesTermination, Terminated
<1>5. RegistrationsMatch'
  BY <1>1 DEF WatchInv, RegistrationsMatch, Past
<1>6. NoLostSignal'
  BY <1>1, <1>2 DEF WatchInv, NoLostSignal, Terminated
<1>7. SignalLast'
  BY <1>1, <1>2, SignalLastOrdered, SignalLastOrderedNext DEF WatchInv, Message
<1>. QED
  BY <1>3, <1>4, <1>5, <1>6, <1>7 DEF WatchInv

(* Registration closes, and whoever was registered is to be signalled.     *)
LEMMA WatchTake ==
    ASSUME TypeOK, WatchInv, NEW a \in Actors, TakeWatchers(a)
    PROVE  WatchInv'
<1>1. /\ mailbox' = mailbox /\ connected' = connected /\ watched' = watched /\ seen' = seen
      /\ system' = system
      /\ open'[a] = FALSE /\ watchers'[a] = {} /\ pending'[a] = watchers[a]
      /\ \A x \in Actors \ {a} : /\ open'[x] = open[x] /\ watchers'[x] = watchers[x]
                                 /\ pending'[x] = pending[x]
      /\ pc[a] = "dropping" /\ pc'[a] = "signalling" /\ \A x \in Actors \ {a} : pc'[x] = pc[x]
  BY GotoType, Labels, ZenonT(20) DEF TakeWatchers, TypeOK, mailVars, ghostVars
<1>2. \A x, i : (Queued(x, i)' <=> Queued(x, i)) /\ (Ordered(x, i)' <=> Ordered(x, i))
  BY <1>1, MailSame
<1>3. TerminateInv'
  BY <1>1, SMT DEF WatchInv, TerminateInv, Gone, Past
<1>4. SystemInv'
  BY <1>1, RootAssumption DEF WatchInv, SystemInv, Gone
<1>5. SignalProvesTermination'
  BY <1>1, <1>2 DEF WatchInv, SignalProvesTermination, Terminated
<1>6. RegistrationsMatch'
  BY <1>1 DEF WatchInv, RegistrationsMatch, Past
<1>7. NoLostSignal'
  <2>1. watched[a] = {}
    BY <1>1 DEF WatchInv, TerminateInv, Past
  <2>2. pending[a] = {}
    BY <1>1 DEF WatchInv, TerminateInv
  <2>. QED
    BY <1>1, <1>2, <2>1, <2>2, ZenonT(20) DEF WatchInv, NoLostSignal, Terminated
<1>8. SignalLast'
  BY <1>1, <1>2, SignalLastOrdered, SignalLastOrderedNext DEF WatchInv, Message
<1>. QED
  BY <1>3, <1>4, <1>5, <1>6, <1>7, <1>8 DEF WatchInv

(* A watcher which still waits for the signal has a mailbox to get it.     *)
LEMMA WatchSignal ==
    ASSUME TypeOK, WatchInv, NEW a \in Actors, NEW w \in Watcher, SendTerminated(a, w)
    PROVE  WatchInv'
<1>1. /\ connected' = connected /\ watched' = watched /\ seen' = seen /\ watchers' = watchers
      /\ open' = open /\ pc' = pc /\ pc[a] = "signalling"
      /\ w \in pending[a] /\ pending'[a] = pending[a] \ {w}
      /\ \A x \in Actors \ {a} : pending'[x] = pending[x]
  BY SMTT(30) DEF SendTerminated, TypeOK, ghostVars
<1>2. TerminateInv'
  BY <1>1 DEF WatchInv, TerminateInv
<1>3. RegistrationsMatch'
  BY <1>1 DEF WatchInv, RegistrationsMatch
<1>4. CASE w = System
  <2>1. mailbox' = mailbox /\ system' = "terminated"
    BY <1>4 DEF SendTerminated
  <2>2. \A x, i : (Queued(x, i)' <=> Queued(x, i)) /\ (Ordered(x, i)' <=> Ordered(x, i))
    BY <2>1, MailSame
  <2>3. SystemInv'
    BY <1>1, <1>4, <2>1 DEF WatchInv, SystemInv, Gone
  <2>4. SignalProvesTermination'
    BY <1>1, <2>2 DEF WatchInv, SignalProvesTermination, Terminated
  <2>5. NoLostSignal'
    BY <1>1, <1>4, <2>2, RootAssumption DEF WatchInv, NoLostSignal, Terminated
  <2>6. SignalLast'
    BY <1>1, <2>2, SignalLastOrdered, SignalLastOrderedNext DEF WatchInv, Message
  <2>. QED
    BY <1>2, <1>3, <2>3, <2>4, <2>5, <2>6 DEF WatchInv
<1>5. CASE w # System
  <2>1. w \in Actors /\ Enqueue(w, Terminated(a)) /\ system' = system
    BY <1>5 DEF SendTerminated, Watcher
  <2>2. /\ SignalProvesTermination' /\ SignalLast'
        /\ \A x, y \in Actors : Queued(x, Terminated(y)) => Queued(x, Terminated(y))'
        /\ connected[w] => Queued(w, Terminated(a))'
    BY <1>1, <2>1, MailSignal DEF Gone
  <2>3. SystemInv'
    BY <1>1, <2>1 DEF WatchInv, SystemInv
  <2>4. NoLostSignal'
    <3>1. SUFFICES ASSUME NEW x \in Actors, NEW y \in Actors,
                          y \in watched[x], pc[x] \notin {"drained", "deregister"}
                   PROVE  x \in watchers[y] \/ x \in pending'[y] \/ Queued(x, Terminated(y))'
      BY <1>1 DEF NoLostSignal, Terminated
    <3>2. x \in watchers[y] \/ x \in pending[y] \/ Queued(x, Terminated(y))
      BY <3>1 DEF WatchInv, NoLostSignal
    <3>3. connected[x]
      BY <3>1 DEF WatchInv, TerminateInv
    <3>. QED
      BY <1>1, <2>2, <3>2, <3>3
  <2>. QED
    BY <1>2, <1>3, <2>2, <2>3, <2>4 DEF WatchInv
<1>. QED
  BY <1>4, <1>5, SMTT(30)

(* A step that touches nothing death watch depends on.                     *)
LEMMA WatchSame ==
    ASSUME WatchInv, UNCHANGED <<pc, mailVars, watchVars, seen, system>>
    PROVE  WatchInv'
<1> USE DEF mailVars, watchVars
<1>1. TerminateInv'
  BY DEF WatchInv, TerminateInv
<1>2. SystemInv'
  BY DEF WatchInv, SystemInv
<1>3. SignalProvesTermination'
  BY DEF WatchInv, SignalProvesTermination, Queued
<1>4. RegistrationsMatch'
  BY DEF WatchInv, RegistrationsMatch
<1>5. NoLostSignal'
  BY DEF WatchInv, NoLostSignal, Queued
<1>6. SignalLast'
  BY DEF WatchInv, SignalLast, Queued
<1>. QED
  BY <1>1, <1>2, <1>3, <1>4, <1>5, <1>6 DEF WatchInv

(* Every step keeps the death watch part of the invariant.                 *)
LEMMA WatchStep ==
    ASSUME TypeOK, RecvInv, WatchInv, [Next]_vars
    PROVE  WatchInv'
<1>1. CASE WatchRoot
  BY <1>1, WatchRootStep
<1>2. CASE StopSystem
  <2>1. UNCHANGED <<pc, mailVars, watchVars, seen, system>>
    BY <1>2 DEF StopSystem, ghostVars
  <2>. QED
    BY <2>1, WatchSame
<1>3. CASE TellRoot
  BY <1>3, WatchSend, IncomingType, RootAssumption DEF TellRoot, ghostVars
<1>4. ASSUME NEW a \in Actors, NEW b \in Actors, Tell(a, b) PROVE WatchInv'
  <2>1. pc[a] \notin Gone
    BY <1>4 DEF Tell, Callback, Gone
  <2>. QED
    BY <1>4, <2>1, WatchSend, IncomingType DEF Tell, ghostVars
<1>5. ASSUME NEW a \in Actors, NEW b \in Actors, Spawn(a, b) PROVE WatchInv'
  <2>1. UNCHANGED <<mailVars, watchVars, seen, system>>
    BY <1>5 DEF Spawn, ghostVars
  <2>. QED
    BY <1>5, <2>1, WatchGoto, Labels
       DEF Spawn, WatchInv, TerminateInv, Gone, Closed, Past
<1>6. ASSUME NEW a \in Actors, NEW b \in Actors, Watch(a, b) PROVE WatchInv'
  BY <1>6, WatchOpen, WatchClosed
<1>7. ASSUME NEW a \in Actors, NEW b \in Actors, Unwatch(a, b) PROVE WatchInv'
  BY <1>7, WatchForget DEF Unwatch, ghostVars
<1>8. ASSUME NEW a \in Actors, CallInit(a) PROVE WatchInv'
  <2>1. UNCHANGED <<mailVars, watchVars, seen, system>>
    BY <1>8 DEF CallInit, ghostVars
  <2>. QED
    BY <1>8, <2>1, WatchGoto, Labels
       DEF CallInit, WatchInv, TerminateInv, Gone, Closed, Past, Callback
<1>9. ASSUME NEW a \in Actors, InitOk(a) PROVE WatchInv'
  <2>1. UNCHANGED <<mailVars, watchVars, seen, system>>
    BY <1>9 DEF InitOk, Return, ghostVars
  <2>. QED
    BY <1>9, <2>1, WatchGoto, Labels
       DEF InitOk, Return, WatchInv, TerminateInv, Gone, Closed, Past, Callback
<1>10. ASSUME NEW a \in Actors, InitFails(a) PROVE WatchInv'
  <2>1. UNCHANGED <<mailVars, watchVars, seen, system>>
    BY <1>10 DEF InitFails, Fail, ghostVars
  <2>. QED
    BY <1>10, <2>1, WatchGoto, Labels
       DEF InitFails, Fail, WatchInv, TerminateInv, Gone, Closed, Past, Callback
<1>11. ASSUME NEW a \in Actors, ReceiveContinue(a) PROVE WatchInv'
  <2>1. UNCHANGED <<mailVars, watchVars, seen, system>>
    BY <1>11 DEF ReceiveContinue, Return, ghostVars
  <2>. QED
    BY <1>11, <2>1, WatchGoto, Labels
       DEF ReceiveContinue, Return, WatchInv, TerminateInv, Gone, Closed, Past, Callback
<1>12. ASSUME NEW a \in Actors, ReceiveStop(a) PROVE WatchInv'
  <2>1. UNCHANGED <<mailVars, watchVars, seen, system>>
    BY <1>12 DEF ReceiveStop, Return, ghostVars
  <2>. QED
    BY <1>12, <2>1, WatchGoto, Labels
       DEF ReceiveStop, Return, WatchInv, TerminateInv, Gone, Closed, Past, Callback
<1>13. ASSUME NEW a \in Actors, ReceiveFails(a) PROVE WatchInv'
  <2>1. UNCHANGED <<mailVars, watchVars, seen, system>>
    BY <1>13 DEF ReceiveFails, Fail, ghostVars
  <2>. QED
    BY <1>13, <2>1, WatchGoto, Labels
       DEF ReceiveFails, Fail, WatchInv, TerminateInv, Gone, Closed, Past, Callback
<1>14. ASSUME NEW a \in Actors, StoppedByParent(a) PROVE WatchInv'
  <2>1. UNCHANGED <<mailVars, watchVars, seen, system>>
    BY <1>14 DEF StoppedByParent, ghostVars
  <2>. QED
    BY <1>14, <2>1, WatchGoto, Labels
       DEF StoppedByParent, WatchInv, TerminateInv, Gone, Closed, Past, Callback
<1>15. ASSUME NEW a \in Actors, PollMailbox(a) PROVE WatchInv'
  <2>1. UNCHANGED <<mailVars, watchVars, seen, system>>
    BY <1>15 DEF PollMailbox, ghostVars
  <2>. QED
    BY <1>15, <2>1, WatchGoto, Labels
       DEF PollMailbox, WatchInv, TerminateInv, Gone, Closed, Past, Callback
<1>16. ASSUME NEW a \in Actors, Recv(a) PROVE WatchInv'
  BY <1>16, WatchRecv
<1>17. ASSUME NEW a \in Actors, NEW longUp \in BOOLEAN, GiveUp(a, longUp) PROVE WatchInv'
  <2>1. UNCHANGED <<mailVars, watchVars, seen, system>>
    BY <1>17 DEF GiveUp, ghostVars
  <2>. QED
    BY <1>17, <2>1, WatchGoto, Labels
       DEF GiveUp, WatchInv, TerminateInv, Gone, Closed, Past, Callback
<1>18. ASSUME NEW a \in Actors, NEW longUp \in BOOLEAN, Restart(a, longUp) PROVE WatchInv'
  <2>1. UNCHANGED <<mailVars, watchVars, seen, system>>
    BY <1>18 DEF Restart, ghostVars
  <2>2. PICK l \in {"terminate", "restarting"} : Goto(a, l)
    BY <1>18 DEF Restart
  <2>. QED
    BY <1>18, <2>1, <2>2, WatchGoto, Labels
       DEF Restart, WatchInv, TerminateInv, Gone, Closed, Past, Callback
<1>19. ASSUME NEW a \in Actors, RestartChildrenEnded(a) PROVE WatchInv'
  <2>1. UNCHANGED <<mailVars, watchVars, seen, system>>
    BY <1>19 DEF RestartChildrenEnded, ghostVars
  <2>. QED
    BY <1>19, <2>1, WatchGoto, Labels
       DEF RestartChildrenEnded, WatchInv, TerminateInv, Gone, Closed, Past, Callback
<1>20. ASSUME NEW a \in Actors, Backoff(a) PROVE WatchInv'
  <2>1. UNCHANGED <<mailVars, watchVars, seen, system>>
    BY <1>20 DEF Backoff, ghostVars
  <2>2. PICK l \in {"terminate", "start"} : Goto(a, l)
    BY <1>20 DEF Backoff
  <2>. QED
    BY <1>20, <2>1, <2>2, WatchGoto, Labels
       DEF Backoff, WatchInv, TerminateInv, Gone, Closed, Past, Callback
<1>21. ASSUME NEW a \in Actors, Drain(a) PROVE WatchInv'
  BY <1>21, WatchDrain
<1>22. ASSUME NEW a \in Actors, DropReceiver(a) PROVE WatchInv'
  BY <1>22, WatchDropReceiver
<1>23. ASSUME NEW a \in Actors, NEW b \in Actors, Deregister(a, b) PROVE WatchInv'
  BY <1>23, WatchForget DEF Deregister, ghostVars
<1>24. ASSUME NEW a \in Actors, StopChildren(a) PROVE WatchInv'
  <2>1. UNCHANGED <<mailVars, watchVars, seen, system>>
    BY <1>24 DEF StopChildren, ghostVars
  <2>. QED
    BY <1>24, <2>1, WatchGoto, Labels
       DEF StopChildren, WatchInv, TerminateInv, Gone, Closed, Past, Callback
<1>25. ASSUME NEW a \in Actors, AllChildrenEnded(a) PROVE WatchInv'
  <2>1. UNCHANGED <<mailVars, watchVars, seen, system>>
    BY <1>25 DEF AllChildrenEnded, ghostVars
  <2>. QED
    BY <1>25, <2>1, WatchGoto, Labels
       DEF AllChildrenEnded, WatchInv, TerminateInv, Gone, Closed, Past, Callback
<1>26. ASSUME NEW a \in Actors, TakeWatchers(a) PROVE WatchInv'
  BY <1>26, WatchTake
<1>27. ASSUME NEW a \in Actors, NEW w \in Watcher, SendTerminated(a, w) PROVE WatchInv'
  BY <1>27, WatchSignal
<1>28. ASSUME NEW a \in Actors, End(a) PROVE WatchInv'
  <2>1. UNCHANGED <<mailVars, watchVars, seen, system>>
    BY <1>28 DEF End, ghostVars
  <2>. QED
    BY <1>28, <2>1, WatchGoto, Labels
       DEF End, WatchInv, TerminateInv, Gone, Closed, Past, Callback
<1>29. CASE UNCHANGED vars
  <2>1. UNCHANGED <<pc, mailVars, watchVars, seen, system>>
    BY <1>29 DEF vars, ghostVars
  <2>. QED
    BY <2>1, WatchSame
<1>. QED
  BY <1>1, <1>2, <1>3, <1>4, <1>5, <1>6, <1>7, <1>8, <1>9, <1>10, <1>11, <1>12, <1>13, <1>14,
     <1>15, <1>16, <1>17, <1>18, <1>19, <1>20, <1>21, <1>22, <1>23, <1>24, <1>25, <1>26,
     <1>27, <1>28, <1>29
     DEF Next, UserCode, Task, Returns, RunLoop, Terminate

----------------------------------------------------------------------------
(* The invariant holds of a freshly spawned root.                          *)
LEMMA InitIInv == Init => IInv
<1> SUFFICES ASSUME Init PROVE IInv
  OBVIOUS
<1>a. \A x \in Actors : /\ pc[x] = (IF x = Root THEN "start" ELSE "unborn") /\ parent[x] = System
                         /\ parentGen[x] = 0 /\ lateCalls[x] = 0
  BY DEF Init
<1>b. \A x \in Actors : /\ mailbox[x] = <<>> /\ connected[x] /\ open[x] /\ watched[x] = {}
                         /\ watchers[x] = {} /\ pending[x] = {} /\ seen[x] = {}
  BY DEF Init
<1>c. /\ \A x \in Watcher : gen[x] = 0
      /\ Root \in Actors /\ system = "spawned"
  BY RootAssumption DEF Init
<1>d. System \in Watcher /\ System \notin Actors
  BY IncomingType, RootAssumption DEF Watcher
<1>1. TypeOK
  <2> USE IncomingType, RootAssumption DEF Init
  <2>1. pc \in [Actors -> PC]
    BY Labels DEF PC
  <2>2. /\ parent \in [Actors -> Watcher] /\ parentGen \in [Actors -> Nat]
        /\ gen \in [Watcher -> Nat] /\ restarts \in [Actors -> 0 .. MaxRestarts]
    <3>1. 0 \in 0 .. MaxRestarts
      BY RestartAssumption, SMT
    <3>2. restarts \in [Actors -> 0 .. MaxRestarts]
      BY <3>1
    <3>3. parent \in [Actors -> Watcher]
      BY <1>d
    <3>4. parentGen \in [Actors -> Nat] /\ gen \in [Watcher -> Nat]
      OBVIOUS
    <3>. QED
      BY <3>2, <3>3, <3>4
  <2>3. mailbox \in [Actors -> Seq(Incoming)]
    <3>1. <<>> \in Seq(Incoming)
      BY SMT
    <3>. QED
      BY <3>1
  <2>4. /\ connected \in [Actors -> BOOLEAN] /\ watched \in [Actors -> SUBSET Actors]
        /\ watchers \in [Actors -> SUBSET Watcher] /\ open \in [Actors -> BOOLEAN]
        /\ pending \in [Actors -> SUBSET Watcher] /\ seen \in [Actors -> SUBSET Actors]
        /\ system \in {"spawned", "watching", "terminated"} /\ lateCalls \in [Actors -> Nat]
    OBVIOUS
  <2>5. used \in [tells : 0 .. MaxTells, watches : 0 .. MaxWatches, failures : 0 .. MaxFailures]
    BY BoundsAssumption, SMT
  <2>. QED
    BY <2>1, <2>2, <2>3, <2>4, <2>5 DEF TypeOK
<1>2. RecvInv
  BY <1>a DEF RecvInv
<1>3. TreeInv
  <2>1. \A c \in Actors : (Spawned(c) <=> c = Root) /\ parent[c] = System /\ System # c
    BY <1>a, <1>d DEF Spawned
  <2>2. ParentInv
    <3> SUFFICES ASSUME NEW c \in Actors, Spawned(c)
                 PROVE  /\ parent[c] = System /\ parent[c] \notin Actors /\ c = Root
                        /\ parentGen[c] <= gen[parent[c]]
      BY DEF ParentInv
    <3>1. parent[c] = System /\ c = Root /\ parentGen[c] = 0 /\ gen[System] = 0
      BY <1>a, <1>c, <1>d, <2>1
    <3>. QED
      BY <1>d, <3>1, SMT
  <2>3. BarrierInv /\ ForestInv /\ ChildrenFirst /\ OneGeneration
    BY <2>1 DEF BarrierInv, ForestInv, ChildrenFirst, OneGeneration
  <2>. QED
    BY <2>2, <2>3 DEF TreeInv
<1>4. WatchInv
  <2>1. \A x \in Actors : DOMAIN mailbox[x] = {}
    BY <1>b, SMT
  <2>2. \A x \in Actors : \A i : ~Queued(x, i)
    BY <2>1 DEF Queued
  <2>3. TerminateInv
    <3>1. \A x \in Actors : pc[x] \notin Gone \cup Past \cup {"deregister", "stopping"}
      BY <1>a DEF Gone, Past
    <3>. QED
      BY <1>b, <3>1 DEF TerminateInv
  <2>4. SystemInv
    BY <1>b, <1>c DEF SystemInv
  <2>5. RegistrationsMatch /\ NoLostSignal
    BY <1>b DEF RegistrationsMatch, NoLostSignal
  <2>6. SignalProvesTermination
    BY <1>b, <2>2 DEF SignalProvesTermination
  <2>7. SignalLast
    BY <1>b, <2>1 DEF SignalLast
  <2>. QED
    BY <2>3, <2>4, <2>5, <2>6, <2>7 DEF WatchInv
<1>5. LateInv
  BY <1>a DEF LateInv
<1>. QED
  BY <1>1, <1>2, <1>3, <1>4, <1>5, SMTT(30) DEF IInv

(* The invariant behind all safety properties of Lifecycle: where an actor *)
(* is in its run loop and in terminate decides what the registries, the    *)
(* mailboxes and the stop channels of the others hold.                     *)
THEOREM LifecycleInvariant == Spec => []IInv
<1>1. Init => IInv
  BY InitIInv
<1>2. IInv /\ [Next]_vars => IInv'
  BY TypeStep, RecvStep, TreeStep, WatchStep, LateStep DEF IInv
<1>. QED
  BY <1>1, <1>2, PTL DEF Spec

(* Types of the state of actor_context.rs, and the restart counter never   *)
(* exceeds RestartPolicy::max_restarts.                                    *)
THEOREM LifecycleType == Spec => []TypeOK
<1>1. IInv => TypeOK
  BY DEF IInv
<1>. QED
  BY <1>1, LifecycleInvariant, PTL

(* Bottom-up termination: terminate drops an actor and signals its         *)
(* watchers only after all its children have ended.                        *)
THEOREM BottomUp == Spec => []ChildrenFirst
<1>1. IInv => ChildrenFirst
  BY DEF IInv, TreeInv
<1>. QED
  BY <1>1, LifecycleInvariant, PTL

(* A restart never overlaps with children of the failed state.             *)
THEOREM RestartIsClean == Spec => []OneGeneration
<1>1. IInv => OneGeneration
  BY DEF IInv, TreeInv
<1>. QED
  BY <1>1, LifecycleInvariant, PTL

(* A watch is never silently lost, however it races with the termination   *)
(* of the watched actor.                                                   *)
THEOREM WatchIsKept == Spec => []NoLostSignal
<1>1. IInv => NoLostSignal
  BY DEF IInv, WatchInv
<1>. QED
  BY <1>1, LifecycleInvariant, PTL

(* A terminated signal proves that the actor's destructors have run.       *)
THEOREM SignalIsProof == Spec => []SignalProvesTermination
<1>1. IInv => SignalProvesTermination
  BY DEF IInv, WatchInv
<1>. QED
  BY <1>1, LifecycleInvariant, PTL

(* The terminated signal is the last item an actor delivers to anybody.    *)
THEOREM SignalIsLast == Spec => []SignalLast
<1>1. IInv => SignalLast
  BY DEF IInv, WatchInv
<1>. QED
  BY <1>1, LifecycleInvariant, PTL

(* A registry never holds a dead watcher or one which does not watch.      *)
THEOREM RegistriesAreClean == Spec => []RegistrationsMatch
<1>1. IInv => RegistrationsMatch
  BY DEF IInv, WatchInv
<1>. QED
  BY <1>1, LifecycleInvariant, PTL

(* A stopped actor begins at most one more callback.                       *)
THEOREM StopIsPrompt == Spec => []AtMostOneLateCall
<1>1. IInv => AtMostOneLateCall
  BY SMT DEF IInv, LateInv, AtMostOneLateCall
<1>. QED
  BY <1>1, LifecycleInvariant, PTL

(* ActorSystem::terminated resolves only when the whole tree is gone: of   *)
(* the actors still there one would have a parent which is not, and that   *)
(* parent would not have waited for it.                                    *)
THEOREM TerminatedIsFinal == Spec => []TerminatedMeansGone
<1>1. IInv => TerminatedMeansGone
  <2>1. SUFFICES ASSUME IInv, system = "terminated"
                 PROVE  \A a \in Actors : Spawned(a) =>
                          pc[a] = "ended" \/ (a = Root /\ pc[a] = "signalling")
    BY DEF TerminatedMeansGone
  <2> DEFINE S == {a \in Actors : Spawned(a) /\ a # Root /\ pc[a] # "ended"}
  <2>2. pc[Root] \in Gone
    BY <2>1 DEF IInv, WatchInv, SystemInv
  <2>3. S = {}
    <3>1. SUFFICES ASSUME S # {} PROVE FALSE
      OBVIOUS
    <3>2. PICK c \in S : parent[c] \notin S
      BY <2>1, <3>1 DEF IInv, TreeInv, ForestInv
    <3>3. parent[c] \in Actors /\ Spawned(parent[c])
      BY <2>1, <3>2, RootAssumption DEF IInv, TypeOK, TreeInv, ParentInv, Watcher
    <3>4. pc[parent[c]] \in Past
      BY <2>2, <3>2, <3>3 DEF Past, Gone
    <3>. QED
      BY <2>1, <3>2, <3>3, <3>4 DEF IInv, TreeInv, ChildrenFirst
  <2>. QED
    BY <2>2, <2>3 DEF Gone
<1>. QED
  BY <1>1, LifecycleInvariant, PTL
=============================================================================
