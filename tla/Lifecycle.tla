----------------------------- MODULE Lifecycle -----------------------------
(***************************************************************************)
(* The life of the actors of one actor system: the run loop, supervision,  *)
(* the actor tree, termination and death watch.                            *)
(*   src/tellus/src/actor_context.rs  run loop, watch, restart, terminate  *)
(*   src/tellus/src/mailbox.rs        watcher registry, mailbox split      *)
(*   src/tellus/src/actor_system.rs   root actor, stop, terminated         *)
(*                                                                         *)
(* Every actor is a task of its own; a step of the model is one access to  *)
(* state another task can see.  User code (init, receive, destructors) is  *)
(* any sequence of context calls, interleaved with everybody else.  The    *)
(* quota is left to Mailbox: here every mailbox is unbounded.              *)
(*                                                                         *)
(* A stop channel is a generation number: the channel of generation g of   *)
(* an actor has been sent on once the actor's generation is above g, and   *)
(* it is closed once every child holding a receiver of it has ended.       *)
(***************************************************************************)
EXTENDS Naturals, Sequences, FiniteSets

CONSTANTS
    Actors,       \* actor ids; never reused
    Root,         \* the root actor
    System,       \* the actor system: parent and watcher of the root
    Restarting,   \* actors supervised by SupervisionStrategy::Restart
    MaxRestarts,  \* RestartPolicy::max_restarts
    MaxTells,     \* bound: messages told
    MaxWatches,   \* bound: calls of watch
    MaxFailures   \* bound: failures of init and receive

ASSUME RootAssumption == Root \in Actors /\ System \notin Actors
ASSUME RestartAssumption == Restarting \subseteq Actors /\ MaxRestarts \in Nat \ {0}
ASSUME BoundsAssumption == MaxTells \in Nat /\ MaxWatches \in Nat /\ MaxFailures \in Nat

VARIABLES
    pc,          \* pc[a]: where the task of a is
    parent,      \* parent[a]: whose stop channel a listens on ...
    parentGen,   \* parentGen[a]: ... and which generation of it
    gen,         \* gen[p]: current generation of p's stop channel
    restarts,    \* restarts[a]: restarts in the current streak of failures
    mailbox,     \* mailbox[a]: the channel of a
    connected,   \* connected[a]: the receiver of a has not been dropped
    watched,     \* watched[a]: actors a watches, kept in its context
    watchers,    \* watchers[a]: those registered to be told that a terminated
    open,        \* open[a]: registration with a is open
    pending,     \* pending[a]: watchers taken by a's termination, not signalled yet
    system,      \* the oneshot behind ActorSystem::terminated
    seen,        \* seen[a]: actors whose signal a's receive was given
    lateCalls,   \* lateCalls[a]: callbacks begun although a's parent had stopped it
    used         \* the bounded calls used so far

treeVars == <<parent, parentGen, gen>>
mailVars == <<mailbox, connected>>
watchVars == <<watched, watchers, open, pending>>
ghostVars == <<seen, lateCalls>>
vars == <<pc, treeVars, restarts, mailVars, watchVars, system, ghostVars, used>>

Watcher == Actors \cup {System}
Incoming == [kind : {"message", "terminated"}, actor : Watcher]
Message(a) == [kind |-> "message", actor |-> a]
Terminated(a) == [kind |-> "terminated", actor |-> a]

Callback == {"init", "receive"}
PC == {"unborn", "start", "select", "recv", "initFailed", "failed", "restarting", "backoff",
       "terminate", "drained", "deregister", "stopping", "dropping", "signalling", "ended"}
        \cup Callback

Goto(a, l) == pc' = [pc EXCEPT ![a] = l]
Spawned(a) == pc[a] # "unborn"
StopRequested(a) == parentGen[a] < gen[parent[a]]

(* The current channel of p is replaced by a fresh one after sending on it.*)
NextGeneration(p) == gen' = [gen EXCEPT ![p] = @ + 1]

(* Faulty variants of ChildrenEnded: the barrier is not awaited; a child   *)
(* takes its receiver only once its task runs; the actor's own receiver    *)
(* keeps the channel open.                                                 *)
NoBarrier(p) == TRUE
StartedChildrenEnded(p) ==
    \A c \in Actors : parent[c] = p => pc[c] \in {"unborn", "start", "ended"}
NeverClosed(p) == FALSE

(* Sender::closed: no task holds a receiver of a generation sent on.       *)
ChildrenEnded(p) ==
    \A c \in Actors : Spawned(c) /\ parent[c] = p /\ parentGen[c] < gen[p] => pc[c] = "ended"

(* Faulty variant of Enqueue: signals overtake messages.                   *)
EnqueueSignalsFirst(b, incoming) ==
    mailbox' = [mailbox EXCEPT
                  ![b] = IF incoming.kind = "terminated" THEN <<incoming>> \o @
                                                         ELSE Append(@, incoming)]

(* A send to b's mailbox: dropped if its receiver is gone.                 *)
Enqueue(b, incoming) ==
    mailbox' = [mailbox EXCEPT ![b] = IF connected[b] THEN Append(@, incoming) ELSE @]

----------------------------------------------------------------------------
Init ==
    /\ pc = [a \in Actors |-> IF a = Root THEN "start" ELSE "unborn"]
    /\ parent = [a \in Actors |-> System]
    /\ parentGen = [a \in Actors |-> 0]
    /\ gen = [p \in Watcher |-> 0]
    /\ restarts = [a \in Actors |-> 0]
    /\ mailbox = [a \in Actors |-> <<>>]
    /\ connected = [a \in Actors |-> TRUE]
    /\ watched = [a \in Actors |-> {}]
    /\ watchers = [a \in Actors |-> {}]
    /\ open = [a \in Actors |-> TRUE]
    /\ pending = [a \in Actors |-> {}]
    /\ system = "spawned"
    /\ seen = [a \in Actors |-> {}]
    /\ lateCalls = [a \in Actors |-> 0]
    /\ used = [tells |-> 0, watches |-> 0, failures |-> 0]

----------------------------------------------------------------------------
(* The actor system, on the thread which created it.                       *)

(* watch_root: the root may have terminated before its watcher registers.  *)
WatchRoot ==
    /\ system = "spawned"
    /\ IF open[Root]
         THEN /\ watchers' = [watchers EXCEPT ![Root] = @ \cup {System}]
              /\ system' = "watching"
         ELSE /\ system' = "terminated"
              /\ UNCHANGED watchers
    /\ UNCHANGED <<pc, treeVars, restarts, mailVars, watched, open, pending, ghostVars, used>>

(* ActorSystem::stop; stopping twice changes nothing more.                 *)
StopSystem ==
    /\ system # "spawned"
    /\ gen[System] = 0
    /\ NextGeneration(System)
    /\ UNCHANGED <<pc, parent, parentGen, restarts, mailVars, watchVars, system, ghostVars, used>>

(* A tell to the root from outside the tree.                               *)
TellRoot ==
    /\ used.tells < MaxTells
    /\ Enqueue(Root, Message(System))
    /\ used' = [used EXCEPT !.tells = @ + 1]
    /\ UNCHANGED <<pc, treeVars, restarts, connected, watchVars, system, ghostVars>>

----------------------------------------------------------------------------
(* What user code does through its context.  A destructor can only tell:   *)
(* those of the state, of the drained messages and of the actor value run  *)
(* in the termination states.                                              *)

Tell(a, b) ==
    /\ pc[a] \in Callback \cup {"terminate", "deregister", "dropping"}
    /\ Spawned(b)
    /\ used.tells < MaxTells
    /\ Enqueue(b, Message(a))
    /\ used' = [used EXCEPT !.tells = @ + 1]
    /\ UNCHANGED <<pc, treeVars, restarts, connected, watchVars, system, ghostVars>>

Spawn(a, c) ==
    /\ pc[a] \in Callback
    /\ pc[c] = "unborn"
    /\ Goto(c, "start")
    /\ parent' = [parent EXCEPT ![c] = a]
    /\ parentGen' = [parentGen EXCEPT ![c] = gen[a]]
    /\ UNCHANGED <<gen, restarts, mailVars, watchVars, system, ghostVars, used>>

(* Faulty variant of Register: a failed registration goes unnoticed.       *)
RegisterSilently(a, b) ==
    /\ watchers' = IF open[b] THEN [watchers EXCEPT ![b] = @ \cup {a}] ELSE watchers
    /\ UNCHANGED mailbox

(* WatcherRegistry::add; if registration is closed, the actor signals      *)
(* itself.                                                                 *)
Register(a, b) ==
    IF open[b]
      THEN watchers' = [watchers EXCEPT ![b] = @ \cup {a}] /\ UNCHANGED mailbox
      ELSE Enqueue(a, Terminated(b)) /\ UNCHANGED watchers

(* The watch is recorded whether or not registration is still open.        *)
Watch(a, b) ==
    /\ pc[a] \in Callback
    /\ Spawned(b)
    /\ used.watches < MaxWatches
    /\ used' = [used EXCEPT !.watches = @ + 1]
    /\ watched' = [watched EXCEPT ![a] = @ \cup {b}]
    /\ Register(a, b)
    /\ UNCHANGED <<pc, treeVars, restarts, connected, open, pending, system, ghostVars>>

(* Faulty variant of Forget: the registry keeps the dead watcher.          *)
ForgetLocally(a, b) ==
    /\ b \in watched[a]
    /\ watched' = [watched EXCEPT ![a] = @ \ {b}]
    /\ UNCHANGED watchers

(* The actor's own record and the registry are both cleared.               *)
Forget(a, b) ==
    /\ b \in watched[a]
    /\ watched' = [watched EXCEPT ![a] = @ \ {b}]
    /\ watchers' = [watchers EXCEPT ![b] = @ \ {a}]

Unwatch(a, b) ==
    /\ pc[a] \in Callback
    /\ Forget(a, b)
    /\ UNCHANGED <<pc, treeVars, restarts, mailVars, open, pending, system, ghostVars, used>>

----------------------------------------------------------------------------
(* The run loop.                                                           *)

LateCall(a) == lateCalls' = [lateCalls EXCEPT ![a] = IF StopRequested(a) THEN @ + 1 ELSE @]

CallInit(a) ==
    /\ pc[a] = "start"
    /\ Goto(a, "init")
    /\ LateCall(a)
    /\ UNCHANGED <<treeVars, restarts, mailVars, watchVars, system, seen, used>>

(* init or receive returns: l is where the run loop goes on.               *)
Return(a, from, l) ==
    /\ pc[a] = from
    /\ Goto(a, l)
    /\ UNCHANGED <<treeVars, restarts, mailVars, watchVars, system, ghostVars, used>>

Fail(a, from, l) ==
    /\ pc[a] = from
    /\ used.failures < MaxFailures
    /\ used' = [used EXCEPT !.failures = @ + 1]
    /\ Goto(a, l)
    /\ UNCHANGED <<treeVars, restarts, mailVars, watchVars, system, ghostVars>>

InitOk(a) == Return(a, "init", "select")
InitFails(a) == Fail(a, "init", "initFailed")
ReceiveContinue(a) == Return(a, "receive", "select")
ReceiveStop(a) == Return(a, "receive", "terminate")
ReceiveFails(a) == Fail(a, "receive", "failed")

(* The biased select polls the stop channel first ...                      *)
StoppedByParent(a) ==
    /\ pc[a] = "select"
    /\ StopRequested(a)
    /\ Goto(a, "terminate")
    /\ UNCHANGED <<treeVars, restarts, mailVars, watchVars, system, ghostVars, used>>

(* Faulty variant of MailboxTurn: an unbiased select.                      *)
AnyTurn(a) == TRUE

(* ... and, not finding it changed, the mailbox.                           *)
MailboxTurn(a) == ~StopRequested(a)

PollMailbox(a) ==
    /\ pc[a] = "select"
    /\ MailboxTurn(a)
    /\ mailbox[a] # <<>>
    /\ Goto(a, "recv")
    /\ UNCHANGED <<treeVars, restarts, mailVars, watchVars, system, ghostVars, used>>

(* A signal of an actor not watched is dropped; one of a watched actor     *)
(* consumes the watch.                                                     *)
Recv(a) ==
    LET incoming == Head(mailbox[a])
        signal == incoming.kind = "terminated"
    IN  /\ pc[a] = "recv"
        /\ mailbox' = [mailbox EXCEPT ![a] = Tail(@)]
        /\ IF signal /\ incoming.actor \notin watched[a]
             THEN /\ Goto(a, "select")
                  /\ UNCHANGED <<watched, ghostVars>>
             ELSE /\ Goto(a, "receive")
                  /\ watched' = IF signal
                                  THEN [watched EXCEPT ![a] = @ \ {incoming.actor}]
                                  ELSE watched
                  /\ seen' = IF signal THEN [seen EXCEPT ![a] = @ \cup {incoming.actor}] ELSE seen
                  /\ LateCall(a)
        /\ UNCHANGED <<treeVars, restarts, connected, watchers, open, pending, system, used>>

----------------------------------------------------------------------------
(* Supervision: await_restart.                                             *)

(* next_restart: the streak so far.  It ends if the actor was up long      *)
(* enough, which only an actor that got through init can have been.        *)
Streak(a, longUp) == IF longUp THEN 0 ELSE restarts[a]

LimitExceeded(a, longUp) == Streak(a, longUp) >= MaxRestarts

GiveUp(a, longUp) ==
    /\ pc[a] \in {"initFailed", "failed"}
    /\ longUp => pc[a] = "failed"
    /\ \/ a \notin Restarting /\ UNCHANGED restarts
       \/ /\ a \in Restarting
          /\ LimitExceeded(a, longUp)
          /\ restarts' = [restarts EXCEPT ![a] = Streak(a, longUp)]
    /\ Goto(a, "terminate")
    /\ UNCHANGED <<treeVars, mailVars, watchVars, system, ghostVars, used>>

(* The stop channel is probed; then the children of the failed state stop. *)
Restart(a, longUp) ==
    /\ pc[a] \in {"initFailed", "failed"}
    /\ longUp => pc[a] = "failed"
    /\ a \in Restarting
    /\ ~LimitExceeded(a, longUp)
    /\ restarts' = [restarts EXCEPT ![a] = Streak(a, longUp) + 1]
    /\ IF StopRequested(a)
         THEN Goto(a, "terminate") /\ UNCHANGED gen
         ELSE Goto(a, "restarting") /\ NextGeneration(a)
    /\ UNCHANGED <<parent, parentGen, mailVars, watchVars, system, ghostVars, used>>

RestartChildrenEnded(a) ==
    /\ pc[a] = "restarting"
    /\ ChildrenEnded(a)
    /\ Goto(a, "backoff")
    /\ UNCHANGED <<treeVars, restarts, mailVars, watchVars, system, ghostVars, used>>

(* await_backoff: the sleep, or for a zero delay a probe, loses against a  *)
(* stop.                                                                   *)
Backoff(a) ==
    /\ pc[a] = "backoff"
    /\ Goto(a, IF StopRequested(a) THEN "terminate" ELSE "start")
    /\ UNCHANGED <<treeVars, restarts, mailVars, watchVars, system, ghostVars, used>>

----------------------------------------------------------------------------
(* Termination: terminate.                                                 *)

Drain(a) ==
    /\ pc[a] = "terminate"
    /\ mailbox' = [mailbox EXCEPT ![a] = <<>>]
    /\ Goto(a, "drained")
    /\ UNCHANGED <<treeVars, restarts, connected, watchVars, system, ghostVars, used>>

(* Faulty variant of DropReceiver: registration closes with the mailbox.   *)
DropMailbox(a) ==
    /\ pc[a] = "drained"
    /\ connected' = [connected EXCEPT ![a] = FALSE]
    /\ open' = [open EXCEPT ![a] = FALSE]
    /\ Goto(a, "deregister")
    /\ UNCHANGED <<treeVars, restarts, mailbox, watched, watchers, pending, system, ghostVars, used>>

(* What was sent since the drain stays in the channel.                     *)
DropReceiver(a) ==
    /\ pc[a] = "drained"
    /\ connected' = [connected EXCEPT ![a] = FALSE]
    /\ Goto(a, "deregister")
    /\ UNCHANGED <<treeVars, restarts, mailbox, watchVars, system, ghostVars, used>>

(* The actor deregisters from what it watches, one registry at a time.     *)
Deregister(a, b) ==
    /\ pc[a] = "deregister"
    /\ Forget(a, b)
    /\ UNCHANGED <<pc, treeVars, restarts, mailVars, open, pending, system, ghostVars, used>>

StopChildren(a) ==
    /\ pc[a] = "deregister"
    /\ watched[a] = {}
    /\ NextGeneration(a)
    /\ Goto(a, "stopping")
    /\ UNCHANGED <<parent, parentGen, restarts, mailVars, watchVars, system, ghostVars, used>>

AllChildrenEnded(a) ==
    /\ pc[a] = "stopping"
    /\ ChildrenEnded(a)
    /\ Goto(a, "dropping")
    /\ UNCHANGED <<treeVars, restarts, mailVars, watchVars, system, ghostVars, used>>

(* The actor value has been dropped: registration closes for good.         *)
TakeWatchers(a) ==
    /\ pc[a] = "dropping"
    /\ open' = [open EXCEPT ![a] = FALSE]
    /\ pending' = [pending EXCEPT ![a] = watchers[a]]
    /\ watchers' = [watchers EXCEPT ![a] = {}]
    /\ Goto(a, "signalling")
    /\ UNCHANGED <<treeVars, restarts, mailVars, watched, system, ghostVars, used>>

SendTerminated(a, w) ==
    /\ pc[a] = "signalling"
    /\ w \in pending[a]
    /\ pending' = [pending EXCEPT ![a] = @ \ {w}]
    /\ IF w = System
         THEN system' = "terminated" /\ UNCHANGED mailbox
         ELSE Enqueue(w, Terminated(a)) /\ UNCHANGED system
    /\ UNCHANGED <<pc, treeVars, restarts, connected, watched, watchers, open, ghostVars, used>>

(* The task ends and drops its receivers of the parent's stop channel.     *)
End(a) ==
    /\ pc[a] = "signalling"
    /\ pending[a] = {}
    /\ Goto(a, "ended")
    /\ UNCHANGED <<treeVars, restarts, mailVars, watchVars, system, ghostVars, used>>

----------------------------------------------------------------------------
UserCode(a) ==
    \/ \E b \in Actors : Tell(a, b) \/ Spawn(a, b) \/ Watch(a, b) \/ Unwatch(a, b)

Returns(a) ==
    InitOk(a) \/ InitFails(a) \/ ReceiveContinue(a) \/ ReceiveStop(a) \/ ReceiveFails(a)

RunLoop(a) ==
    \/ CallInit(a) \/ StoppedByParent(a) \/ PollMailbox(a) \/ Recv(a)
    \/ \E longUp \in BOOLEAN : GiveUp(a, longUp) \/ Restart(a, longUp)
    \/ RestartChildrenEnded(a) \/ Backoff(a)

Terminate(a) ==
    \/ Drain(a) \/ DropReceiver(a) \/ StopChildren(a) \/ AllChildrenEnded(a)
    \/ \E b \in Actors : Deregister(a, b)
    \/ TakeWatchers(a) \/ End(a)
    \/ \E w \in Watcher : SendTerminated(a, w)

Task(a) == Returns(a) \/ RunLoop(a) \/ Terminate(a)

Next ==
    \/ WatchRoot \/ StopSystem \/ TellRoot
    \/ \E a \in Actors : UserCode(a) \/ Task(a)

(* The runtime keeps polling every task that can go on, callbacks return   *)
(* and the thread that creates the system goes on to watch its root.       *)
(* Nobody has to send a message, to watch, to spawn or to stop the system. *)
Fairness ==
    /\ WF_vars(WatchRoot)
    /\ \A a \in Actors : WF_vars(Task(a))

Spec == Init /\ [][Next]_vars

FairSpec == Spec /\ Fairness

----------------------------------------------------------------------------
TypeOK ==
    /\ pc \in [Actors -> PC]
    /\ parent \in [Actors -> Watcher]
    /\ parentGen \in [Actors -> Nat]
    /\ gen \in [Watcher -> Nat]
    /\ restarts \in [Actors -> 0 .. MaxRestarts]
    /\ mailbox \in [Actors -> Seq(Incoming)]
    /\ connected \in [Actors -> BOOLEAN]
    /\ watched \in [Actors -> SUBSET Actors]
    /\ watchers \in [Actors -> SUBSET Watcher]
    /\ open \in [Actors -> BOOLEAN]
    /\ pending \in [Actors -> SUBSET Watcher]
    /\ system \in {"spawned", "watching", "terminated"}
    /\ seen \in [Actors -> SUBSET Actors]
    /\ lateCalls \in [Actors -> Nat]
    /\ used \in [tells : 0 .. MaxTells, watches : 0 .. MaxWatches, failures : 0 .. MaxFailures]

Queued(a, incoming) == \E i \in DOMAIN mailbox[a] : mailbox[a][i] = incoming

(* Past the completion barrier of terminate.                               *)
Past == {"dropping", "signalling", "ended"}

(* "a watcher racing with termination either registers in time and is      *)
(* signaled, or fails registration and learns immediately" (actors.md): an *)
(* actor that watches another and has not begun to deregister is           *)
(* registered with it, about to be signalled by it, or has its signal      *)
(* queued; through restarts, unwatching and watching again.                *)
NoLostSignal ==
    \A a, b \in Actors :
      b \in watched[a] /\ pc[a] \notin {"drained", "deregister"} =>
        a \in watchers[b] \/ a \in pending[b] \/ Queued(a, Terminated(b))

(* A terminated signal proves that the actor's destructors have run: one   *)
(* queued or already received is from an actor whose value is dropped, and *)
(* so are those of all actors spawned below it.                            *)
SignalProvesTermination ==
    \A a, b \in Actors :
      Queued(a, Terminated(b)) \/ b \in seen[a] => pc[b] \in {"signalling", "ended"}

(* An actor drops its value, signals and ends only after all its children  *)
(* have ended, those of earlier states included.                           *)
ChildrenFirst ==
    \A a, c \in Actors :
      pc[a] \in Past /\ Spawned(c) /\ parent[c] = a => pc[c] = "ended"

(* The signal is behind all messages the terminated actor delivered, those *)
(* of its destructors included: nothing from it is queued behind its       *)
(* signal or left once the signal was received.                            *)
SignalLast ==
    \A a, b \in Actors :
      /\ \A i, j \in DOMAIN mailbox[a] :
           i < j /\ mailbox[a][i] = Terminated(b) => mailbox[a][j] # Message(b)
      /\ b \in seen[a] => ~Queued(a, Message(b))

(* "Dead watchers hence never accumulate" (actors.md): whoever is          *)
(* registered still has the watch on its own record, and an actor past its *)
(* deregistration is registered nowhere.                                   *)
RegistrationsMatch ==
    \A a, b \in Actors :
      a \in watchers[b] => b \in watched[a] /\ pc[a] \notin Past

(* A running actor has children of its current state only: a restart waits *)
(* for those of the failed state before init runs again.                   *)
OneGeneration ==
    \A a, c \in Actors :
      /\ pc[a] \in {"start", "select", "recv", "backoff"} \cup Callback
      /\ Spawned(c) /\ parent[c] = a /\ pc[c] # "ended"
      => parentGen[c] = gen[a]

(* After its parent stopped it, an actor begins at most one more callback, *)
(* the one it was about to begin: every way back to init or receive probes *)
(* the stop channel.                                                       *)
AtMostOneLateCall == \A a \in Actors : lateCalls[a] <= 1

(* ActorSystem::terminated resolves only when the whole tree is gone.      *)
TerminatedMeansGone ==
    system = "terminated" =>
      \A a \in Actors : Spawned(a) => pc[a] = "ended" \/ (a = Root /\ pc[a] = "signalling")

(* Stopping the system terminates every actor of the tree, whatever they   *)
(* are doing, and resolves ActorSystem::terminated.                        *)
StopTerminates ==
    gen[System] > 0 ~>
      system = "terminated" /\ \A a \in Actors : Spawned(a) => pc[a] = "ended"

(* Whoever goes on watching an ended actor gets its signal: the watch is   *)
(* consumed by the delivery, by unwatch or by the watcher's termination.   *)
WatchResolves ==
    \A a, b \in Actors : b \in watched[a] /\ pc[b] = "ended" ~> b \notin watched[a]
=============================================================================
