------------------------------- MODULE Entity -------------------------------
(***************************************************************************)
(* What an event-sourced entity promises to whoever sends it commands,     *)
(* however many incarnations of it there are: it is a single state         *)
(* machine.  A command is executed in one step and at most once, on the    *)
(* state of all events before its own.                                     *)
(*   src/tellus/src/persistence/event_sourced.rs, effect.rs                *)
(***************************************************************************)
EXTENDS Naturals, Sequences

CONSTANTS
    Command,    \* commands sent to the entity
    MaxBatch    \* bound: events of one Effect

VARIABLES
    stream,     \* the events, in order
    received,   \* the commands handle was called with
    executed,   \* the commands whose events are durable, and the state they were decided on
    replied     \* the continuations that ran, with the state they were given

vars == <<stream, received, executed, replied>>

Batch(c, n) == [k \in 1 .. n |-> [cmd |-> c, n |-> k]]

Execution(c, on, n) == [cmd |-> c, on |-> on, n |-> n]
Reply(c, saw) == [cmd |-> c, saw |-> saw]

Executed(c) == \E x \in executed : x.cmd = c
Replied(c) == \E r \in replied : r.cmd = c

Init ==
    /\ stream = <<>>
    /\ received = {}
    /\ executed = {}
    /\ replied = {}

Receive(c) ==
    /\ c \notin received
    /\ received' = received \cup {c}
    /\ UNCHANGED <<stream, executed, replied>>

(* Events are persisted atomically, all or none, behind the state that the *)
(* command was validated against.                                          *)
Execute(c, n) ==
    /\ c \in received
    /\ ~Executed(c) /\ ~Replied(c)
    /\ stream' = stream \o Batch(c, n)
    /\ executed' = executed \cup {Execution(c, stream, n)}
    /\ UNCHANGED <<received, replied>>

(* A continuation runs on the state once the events are durable and        *)
(* applied: outward-facing actions are at-most-once.                       *)
ReplyToWrite(x) ==
    /\ ~Replied(x.cmd)
    /\ replied' = replied \cup {Reply(x.cmd, x.on \o Batch(x.cmd, x.n))}
    /\ UNCHANGED <<stream, received, executed>>

(* A command that only reads is answered from a state the entity has or    *)
(* had: the incarnation asked may be stale.                                *)
ReplyToRead(c, k) ==
    /\ c \in received
    /\ ~Executed(c) /\ ~Replied(c)
    /\ replied' = replied \cup {Reply(c, SubSeq(stream, 1, k))}
    /\ UNCHANGED <<stream, received, executed>>

Next ==
    \/ \E c \in Command :
         \/ Receive(c)
         \/ \E n \in 1 .. MaxBatch : Execute(c, n)
         \/ \E k \in 0 .. Len(stream) : ReplyToRead(c, k)
    \/ \E x \in executed : ReplyToWrite(x)

Spec == Init /\ [][Next]_vars
=============================================================================
