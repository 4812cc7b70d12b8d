---------------------------- MODULE EventSourced ----------------------------
(***************************************************************************)
(* Event-sourced actors: several incarnations of one persistence id, in    *)
(* one process or in many, sharing an event store and a snapshot store.    *)
(*   src/tellus/src/persistence/spawn.rs            recover, settle        *)
(*   src/tellus/src/persistence/in_memory_store.rs  append, read, save     *)
(*   src/tellus/src/persistence/store.rs            what stores promise    *)
(*                                                                         *)
(* A store call is a request, its execution by the store and an answer.    *)
(* The incarnation may crash, or the call may fail, with the request still *)
(* on its way: it may be executed long after its sender went on.  The      *)
(* state of the actor is the sequence of the events applied to it, so that *)
(* apply appends and a snapshot is the state itself.                       *)
(***************************************************************************)
EXTENDS Naturals, Sequences

CONSTANTS
    Incarnations,  \* actors spawned for the persistence id
    REPLAY_PAGE,   \* events read by one page of replay
    MaxCommands,   \* bound: commands handled
    MaxBatch,      \* bound: events of one Effect
    MaxFailures    \* bound: failures of stores, codecs and user code

ASSUME PageAssumption == REPLAY_PAGE \in Nat \ {0}
ASSUME LimitsAssumption == MaxCommands \in Nat /\ MaxBatch \in Nat /\ MaxFailures \in Nat

VARIABLES
    log,        \* the event stream; the event with sequence number n is log[n + 1]
    snapshot,   \* the stored snapshot, as a set of at most one
    appends,    \* append requests the store has not executed
    saves,      \* snapshot saves the store has not executed
    pc,         \* pc[i]: where incarnation i is
    stopping,   \* stopping[i]: the parent has stopped i
    state,      \* state[i]: the events applied to the state of i
    next,       \* next[i]: the next_seq_no of i
    effect,     \* effect[i]: the effect being settled
    answer,     \* answer[i]: the store's answer to the append of i
    failures,   \* failures used so far
    decided,    \* decided[c]: the state command c was handled on, and its number of events
    continued,  \* the continuations that ran, with the state they were given
    since       \* since[i]: length of the stream when i began to recover

storeVars == <<log, snapshot, appends, saves>>
actorVars == <<stopping, state, next, effect, answer>>
ghostVars == <<decided, continued, since>>
vars == <<storeVars, pc, actorVars, failures, ghostVars>>

PC == {"down", "loading", "replaying", "ready", "appending", "continuing", "saving", "failed"}
Command == 1 .. MaxCommands
Event == [cmd : Command, n : 1 .. MaxBatch]
State == Seq(Event)
Effect == [cmd : Command, n : 0 .. MaxBatch, stop : BOOLEAN]
AppendRequest == [by : Incarnations, next : Nat, cmd : Command, n : 1 .. MaxBatch]
Snapshot == [next : Nat, state : State]

NoEffect == [cmd |-> 0, n |-> 0, stop |-> FALSE]
Events(e) == [k \in 1 .. e.n |-> [cmd |-> e.cmd, n |-> k]]
Goto(i, l) == pc' = [pc EXCEPT ![i] = l]

IsPrefix(s, t) == Len(s) <= Len(t) /\ \A k \in 1 .. Len(s) : s[k] = t[k]

Init ==
    /\ log = <<>>
    /\ snapshot = {}
    /\ appends = {}
    /\ saves = {}
    /\ pc = [i \in Incarnations |-> "down"]
    /\ stopping = [i \in Incarnations |-> FALSE]
    /\ state = [i \in Incarnations |-> <<>>]
    /\ next = [i \in Incarnations |-> 0]
    /\ effect = [i \in Incarnations |-> NoEffect]
    /\ answer = [i \in Incarnations |-> "none"]
    /\ failures = 0
    /\ decided = <<>>
    /\ continued = {}
    /\ since = [i \in Incarnations |-> 0]

----------------------------------------------------------------------------
(* The stores.                                                             *)

(* Faulty variants of Accepts: the expectation is ignored; the stream may  *)
(* have moved on.                                                          *)
AcceptsAny(r) == TRUE
AcceptsStale(r) == Len(log) >= r.next

(* The append is conditional on the stream's actual next sequence number.  *)
Accepts(r) == Len(log) = r.next

(* EventStore::append.  The answer reaches an incarnation still waiting.   *)
StoreAppend(r) ==
    /\ r \in appends
    /\ appends' = appends \ {r}
    /\ log' = IF Accepts(r) THEN log \o Events(r) ELSE log
    /\ answer' = IF pc[r.by] = "appending" /\ effect[r.by].cmd = r.cmd
                   THEN [answer EXCEPT ![r.by] = IF Accepts(r) THEN "ok" ELSE "conflict"]
                   ELSE answer
    /\ UNCHANGED <<snapshot, saves, pc, stopping, state, next, effect, failures, ghostVars>>

(* SnapshotStore::save replaces whatever snapshot there is.                *)
StoreSave(s) ==
    /\ s \in saves
    /\ saves' = saves \ {s}
    /\ snapshot' = {s}
    /\ UNCHANGED <<log, appends, pc, actorVars, failures, ghostVars>>

(* EventStore::read                                                        *)
Page(from) ==
    [k \in 1 .. IF Len(log) - from < REPLAY_PAGE THEN Len(log) - from ELSE REPLAY_PAGE
       |-> log[from + k]]

----------------------------------------------------------------------------
(* Start, restart, stop and crash.                                         *)

(* The state is dropped.                                                   *)
Drop(i) ==
    /\ state' = [state EXCEPT ![i] = <<>>]
    /\ next' = [next EXCEPT ![i] = 0]
    /\ effect' = [effect EXCEPT ![i] = NoEffect]
    /\ answer' = [answer EXCEPT ![i] = "none"]

Recover(i) ==
    /\ Goto(i, "loading")
    /\ since' = [since EXCEPT ![i] = Len(log)]
    /\ UNCHANGED <<storeVars, actorVars, failures, decided, continued>>

Spawn(i) == pc[i] = "down" /\ Recover(i)

(* await_restart, which probes the stop channel.                           *)
Restart(i) == pc[i] = "failed" /\ ~stopping[i] /\ Recover(i)

Leave(i) ==
    /\ Goto(i, "down")
    /\ stopping' = [stopping EXCEPT ![i] = FALSE]
    /\ Drop(i)
    /\ UNCHANGED <<storeVars, failures, ghostVars>>

(* SupervisionStrategy::Stop, or the restart limit is exceeded.            *)
GiveUp(i) == pc[i] = "failed" /\ Leave(i)

(* Faulty variant of StoppedByParent: only recovery listens to the stop.   *)
StoppedInRecovery(i) ==
    /\ stopping[i]
    /\ pc[i] \in {"loading", "replaying", "failed"}
    /\ Leave(i)

(* The parent's stop is honoured at any point of recovery and between      *)
(* commands, and cancels a restart.                                        *)
StoppedByParent(i) ==
    /\ stopping[i]
    /\ pc[i] \in {"loading", "replaying", "ready", "failed"}
    /\ Leave(i)

(* The process dies: memory is lost, what was sent to the stores is not.   *)
Crash(i) == pc[i] # "down" /\ Leave(i)

StopByParent(i) ==
    /\ pc[i] # "down"
    /\ ~stopping[i]
    /\ stopping' = [stopping EXCEPT ![i] = TRUE]
    /\ UNCHANGED <<storeVars, pc, state, next, effect, answer, failures, ghostVars>>

(* A store call, a codec or user code fails or panics.                     *)
Fail(i) ==
    /\ failures < MaxFailures
    /\ failures' = failures + 1
    /\ Goto(i, "failed")
    /\ Drop(i)
    /\ UNCHANGED <<storeVars, stopping, ghostVars>>

----------------------------------------------------------------------------
(* Recovery: recover.                                                      *)

(* A snapshot that cannot be decoded is discarded.                         *)
LoadSnapshot(i) ==
    /\ pc[i] = "loading"
    /\ \/ \E s \in snapshot :
            /\ state' = [state EXCEPT ![i] = s.state]
            /\ next' = [next EXCEPT ![i] = s.next]
       \/ UNCHANGED <<state, next>>
    /\ Goto(i, "replaying")
    /\ UNCHANGED <<storeVars, stopping, effect, answer, failures, ghostVars>>

(* Faulty variants of LastPage: one page is taken for all; the end of the  *)
(* stream is never noticed.                                                *)
FirstPage(page) == TRUE
NoPage(page) == FALSE

LastPage(page) == Len(page) < REPLAY_PAGE

(* A page is read and replayed; the actor is told that it has recovered    *)
(* after the last one.                                                     *)
ReplayPage(i) ==
    LET page == Page(next[i])
    IN  /\ pc[i] = "replaying"
        /\ state' = [state EXCEPT ![i] = @ \o page]
        /\ next' = [next EXCEPT ![i] = @ + Len(page)]
        /\ Goto(i, IF LastPage(page) THEN "ready" ELSE "replaying")
        /\ UNCHANGED <<storeVars, stopping, effect, answer, failures, ghostVars>>

RecoverFails(i) == pc[i] \in {"loading", "replaying"} /\ Fail(i)

----------------------------------------------------------------------------
(* Commands: handle and settle.                                            *)

Appended(n) == n > 0

(* The command's effect is decided on the current state; its events are    *)
(* sent to the store at the sequence number the incarnation holds next.    *)
Handle(i, n, stop) ==
    LET cmd == Len(decided) + 1
    IN  /\ pc[i] = "ready"
        /\ ~stopping[i]
        /\ cmd <= MaxCommands
        /\ decided' = Append(decided, [on |-> state[i], n |-> n])
        /\ effect' = [effect EXCEPT ![i] = [cmd |-> cmd, n |-> n, stop |-> stop]]
        /\ IF Appended(n)
             THEN /\ Goto(i, "appending")
                  /\ appends' = appends \cup {[by |-> i, next |-> next[i], cmd |-> cmd, n |-> n]}
             ELSE Goto(i, "continuing") /\ UNCHANGED appends
        /\ UNCHANGED <<log, snapshot, saves, stopping, state, next, answer, failures,
                       continued, since>>

(* handle, or the encoding of its events, fails.                           *)
HandleFails(i) == pc[i] = "ready" /\ ~stopping[i] /\ Fail(i)

(* Faulty variant of Advanced: the sequence number is left behind.         *)
NotAdvanced(i) == next[i]

Advanced(i) == next[i] + effect[i].n

(* Faulty variant of AppendOk: the answer is not awaited.                  *)
AppendAssumed(i) ==
    /\ pc[i] = "appending"
    /\ answer' = [answer EXCEPT ![i] = "none"]
    /\ state' = [state EXCEPT ![i] = @ \o Events(effect[i])]
    /\ next' = [next EXCEPT ![i] = Advanced(i)]
    /\ Goto(i, "continuing")
    /\ UNCHANGED <<storeVars, stopping, effect, failures, ghostVars>>

(* The answer is awaited; then the events are applied.                     *)
AppendOk(i) ==
    /\ pc[i] = "appending"
    /\ answer[i] = "ok"
    /\ answer' = [answer EXCEPT ![i] = "none"]
    /\ state' = [state EXCEPT ![i] = @ \o Events(effect[i])]
    /\ next' = [next EXCEPT ![i] = Advanced(i)]
    /\ Goto(i, "continuing")
    /\ UNCHANGED <<storeVars, stopping, effect, failures, ghostVars>>

AppendConflict(i) ==
    /\ pc[i] = "appending"
    /\ answer[i] = "conflict"
    /\ Goto(i, "failed")
    /\ Drop(i)
    /\ UNCHANGED <<storeVars, stopping, failures, ghostVars>>

(* The call fails, whatever becomes of the request, or apply panics.       *)
AppendFails(i) == pc[i] = "appending" /\ Fail(i)

Settled(i) ==
    /\ Goto(i, IF effect[i].stop THEN "down" ELSE "ready")
    /\ IF effect[i].stop
         THEN Drop(i) /\ stopping' = [stopping EXCEPT ![i] = FALSE]
         ELSE /\ effect' = [effect EXCEPT ![i] = NoEffect]
              /\ UNCHANGED <<state, next, answer, stopping>>

(* Faulty variant of SnapshotOf: the sequence number before the append.    *)
SnapshotBefore(i) == [next |-> next[i] - effect[i].n, state |-> state[i]]

SnapshotOf(i) == [next |-> next[i], state |-> state[i]]

(* The continuations run.  After an append the actor may offer a snapshot, *)
(* which is then saved.                                                    *)
Continue(i, offered) ==
    /\ pc[i] = "continuing"
    /\ offered => Appended(effect[i].n)
    /\ continued' = continued \cup {[cmd |-> effect[i].cmd, saw |-> state[i]]}
    /\ IF offered
         THEN /\ saves' = saves \cup {SnapshotOf(i)}
              /\ Goto(i, "saving")
              /\ UNCHANGED actorVars
         ELSE Settled(i) /\ UNCHANGED saves
    /\ UNCHANGED <<log, snapshot, appends, failures, decided, since>>

ContinueFails(i) == pc[i] = "continuing" /\ Fail(i)

(* The save has been answered ...                                          *)
SaveOk(i) ==
    /\ pc[i] = "saving"
    /\ SnapshotOf(i) \notin saves
    /\ Settled(i)
    /\ UNCHANGED <<storeVars, failures, ghostVars>>

(* ... or fails, which is only logged, whatever becomes of the request.    *)
SaveFails(i) ==
    /\ pc[i] = "saving"
    /\ failures < MaxFailures
    /\ failures' = failures + 1
    /\ Settled(i)
    /\ UNCHANGED <<storeVars, ghostVars>>

----------------------------------------------------------------------------
Stores ==
    \/ \E r \in appends : StoreAppend(r)
    \/ \E s \in saves : StoreSave(s)

Supervision(i) ==
    Spawn(i) \/ Restart(i) \/ GiveUp(i) \/ StopByParent(i) \/ StoppedByParent(i) \/ Crash(i)

Recovery(i) == LoadSnapshot(i) \/ ReplayPage(i) \/ RecoverFails(i)

Settle(i) ==
    \/ AppendOk(i) \/ AppendConflict(i) \/ AppendFails(i)
    \/ \E offered \in BOOLEAN : Continue(i, offered)
    \/ ContinueFails(i) \/ SaveOk(i) \/ SaveFails(i)

Commands(i) ==
    \/ \E n \in 0 .. MaxBatch, stop \in BOOLEAN : Handle(i, n, stop)
    \/ HandleFails(i) \/ Settle(i)

Next == Stores \/ \E i \in Incarnations : Supervision(i) \/ Recovery(i) \/ Commands(i)

Spec == Init /\ [][Next]_vars

(* The runtime keeps polling the task, and the stores answer in the end.   *)
Fairness ==
    /\ WF_vars(Stores)
    /\ \A i \in Incarnations :
         /\ WF_vars(Recovery(i)) /\ WF_vars(Settle(i))
         /\ WF_vars(Restart(i) \/ GiveUp(i)) /\ WF_vars(StoppedByParent(i))

FairSpec == Spec /\ Fairness

----------------------------------------------------------------------------
TypeOK ==
    /\ log \in State
    /\ snapshot \subseteq Snapshot
    /\ appends \subseteq AppendRequest
    /\ saves \subseteq Snapshot
    /\ pc \in [Incarnations -> PC]
    /\ stopping \in [Incarnations -> BOOLEAN]
    /\ state \in [Incarnations -> State]
    /\ next \in [Incarnations -> Nat]
    /\ effect \in [Incarnations -> Effect \cup {NoEffect}]
    /\ answer \in [Incarnations -> {"none", "ok", "conflict"}]
    /\ failures \in 0 .. MaxFailures
    /\ decided \in Seq([on : State, n : 0 .. MaxBatch]) /\ Len(decided) <= MaxCommands
    /\ continued \subseteq [cmd : Command, saw : State]
    /\ since \in [Incarnations -> Nat]

(* Every incarnation, also a stale one, holds the state of a prefix of the *)
(* stream and the sequence number at its end, through snapshots taken by   *)
(* others, pages read while others append, and appends answered late.      *)
StateIsPrefix ==
    \A i \in Incarnations : IsPrefix(state[i], log) /\ next[i] = Len(state[i])

(* "At most one incarnation can extend a stream" (persistence.md): every   *)
(* batch in the stream is complete, contiguous, and directly behind the    *)
(* state its command was decided on, also if its append was executed after *)
(* its sender gave up on it.  So no event is stored twice or decided on a  *)
(* stale state.                                                            *)
Serializable ==
    \A k \in 1 .. Len(log) :
      LET d == decided[log[k].cmd]
          start == Len(d.on)
      IN  /\ k = start + log[k].n
          /\ IsPrefix(d.on, log)
          /\ start + d.n <= Len(log)
          /\ \A m \in 1 .. d.n : log[start + m] = [cmd |-> log[k].cmd, n |-> m]

(* A continuation runs only once the events of its command are stored: it  *)
(* is given the state the command was decided on, extended by exactly the  *)
(* command's events, and that is a prefix of the stream for good.          *)
ContinuedDurable ==
    \A c \in continued :
      /\ IsPrefix(c.saw, log)
      /\ IsPrefix(decided[c.cmd].on, c.saw)
      /\ Len(c.saw) = Len(decided[c.cmd].on) + decided[c.cmd].n
      /\ \A m \in 1 .. decided[c.cmd].n :
           c.saw[Len(decided[c.cmd].on) + m] = [cmd |-> c.cmd, n |-> m]

(* The stored snapshot, and any that a stale save may still put in its     *)
(* place, is the state at the sequence number saved with it: at worst old, *)
(* never wrong.                                                            *)
SnapshotIsPrefix ==
    \A s \in snapshot \cup saves : IsPrefix(s.state, log) /\ s.next = Len(s.state)

(* A recovered incarnation has applied at least all events that were in    *)
(* the stream when it began to recover, page boundaries and concurrent     *)
(* appends notwithstanding.                                                *)
RecoveryIsComplete ==
    \A i \in Incarnations :
      pc[i] \in {"ready", "appending", "continuing", "saving"} => next[i] >= since[i]

(* The commands in the stream, each with the state it was decided on.      *)
Stored == {log[k].cmd : k \in 1 .. Len(log)}
Executions == {[cmd |-> c, on |-> decided[c].on, n |-> decided[c].n] : c \in Stored}

One == INSTANCE Entity
         WITH stream <- log, received <- DOMAIN decided, executed <- Executions,
              replied <- continued

(* All incarnations together, the stale, the crashed and the restarted     *)
(* ones, are a single entity: an append, whenever the store executes it,   *)
(* is one step that adds the whole batch of a command not executed before  *)
(* to the very state the command was decided on, and a continuation is the *)
(* first of its command and is given that state and these events.          *)
ActsAsOne == One!Spec

(* Paging through the stream ends, whether or not its last page is full    *)
(* and although others append meanwhile.                                   *)
RecoveryEnds ==
    \A i \in Incarnations :
      pc[i] \in {"loading", "replaying"} ~> pc[i] \notin {"loading", "replaying"}

(* The parent's stop takes effect during recovery, between commands, after *)
(* the command being settled and while waiting to restart.                 *)
StopHonoured == \A i \in Incarnations : stopping[i] ~> pc[i] = "down"
=============================================================================
