----------------------------- MODULE EventStore -----------------------------
(***************************************************************************)
(* What a store promises to event-sourced actors, in whatever processes    *)
(* they run: the EventStore and SnapshotStore traits.                      *)
(*   src/tellus/src/persistence/store.rs                                   *)
(*                                                                         *)
(* A call is a request, its execution by the store and an answer.  The     *)
(* execution is one step; a call may be answered with an error and be      *)
(* executed later nevertheless, since what fails may be the connection.    *)
(***************************************************************************)
EXTENDS Naturals, Sequences

CONSTANTS
    Ids,        \* persistence ids
    Calls,      \* calls of the store, each made once
    Event,      \* encoded events
    State       \* encoded snapshots

VARIABLES
    stream,     \* stream[i]: the events of i; sequence number n is stream[i][n + 1]
    snapshot,   \* snapshot[i]: the snapshot of i, a set of at most one
    call,       \* call[c]: the request of c
    outcome,    \* outcome[c]: what became of c in the store
    result,     \* result[c]: the events, or the snapshot, c found
    answer      \* answer[c]: what the caller of c was told

vars == <<stream, snapshot, call, outcome, result, answer>>

Request == [op : {"append", "read", "save", "load"}, id : Ids, next : Nat,
            events : Seq(Event), limit : Nat, states : SUBSET State]

NoCall == [op |-> "none"]

StoredEvent(n, e) == [seq_no |-> n, event |-> e]
StoredSnapshot(n, s) == [next |-> n, state |-> s]

Init ==
    /\ stream = [i \in Ids |-> <<>>]
    /\ snapshot = [i \in Ids |-> {}]
    /\ call = [c \in Calls |-> NoCall]
    /\ outcome = [c \in Calls |-> "uncalled"]
    /\ result = [c \in Calls |-> {}]
    /\ answer = [c \in Calls |-> "none"]

----------------------------------------------------------------------------
(* The caller.                                                             *)

Request_(c) ==
    /\ outcome[c] = "uncalled"
    /\ call'[c] \in Request
    /\ call' = [call EXCEPT ![c] = call'[c]]

Call(c) ==
    /\ Request_(c)
    /\ outcome' = [outcome EXCEPT ![c] = "pending"]
    /\ UNCHANGED <<stream, snapshot, result, answer>>

(* A request the store cannot represent is refused at once.                *)
Refused(c) ==
    /\ Request_(c)
    /\ outcome' = [outcome EXCEPT ![c] = "error"]
    /\ answer' = [answer EXCEPT ![c] = "error"]
    /\ UNCHANGED <<stream, snapshot, result>>

Answer(c) ==
    /\ outcome[c] \in {"ok", "conflict", "error"}
    /\ answer[c] = "none"
    /\ answer' = [answer EXCEPT ![c] = outcome[c]]
    /\ UNCHANGED <<stream, snapshot, call, outcome, result>>

(* The caller is told that the store failed, whatever becomes of the call. *)
Lose(c) ==
    /\ outcome[c] # "uncalled"
    /\ answer[c] = "none"
    /\ answer' = [answer EXCEPT ![c] = "error"]
    /\ UNCHANGED <<stream, snapshot, call, outcome, result>>

----------------------------------------------------------------------------
(* The store.                                                              *)

Executed(c, op, o) ==
    /\ outcome[c] = "pending"
    /\ call[c].op = op
    /\ outcome' = [outcome EXCEPT ![c] = o]
    /\ UNCHANGED <<call, answer>>

(* All events are appended, if the stream ends where the caller thinks     *)
(* that it ends ...                                                        *)
AppendOk(c) ==
    LET r == call[c]
    IN  /\ Executed(c, "append", "ok")
        /\ Len(stream[r.id]) = r.next
        /\ stream' = [stream EXCEPT ![r.id] = @ \o r.events]
        /\ UNCHANGED <<snapshot, result>>

(* ... and none otherwise.                                                 *)
AppendConflict(c) ==
    /\ Executed(c, "append", "conflict")
    /\ Len(stream[call[c].id]) # call[c].next
    /\ UNCHANGED <<stream, snapshot, result>>

(* At most limit events from a sequence number on, without gaps.           *)
Page(s, from, limit) ==
    {StoredEvent(n, s[n + 1]) : n \in {m \in from .. from + limit - 1 : m < Len(s)}}

Read(c) ==
    LET r == call[c]
    IN  /\ Executed(c, "read", "ok")
        /\ result' = [result EXCEPT ![c] = Page(stream[r.id], r.next, r.limit)]
        /\ UNCHANGED <<stream, snapshot>>

(* A snapshot replaces whatever snapshot there is.                         *)
Save(c) ==
    LET r == call[c]
    IN  /\ Executed(c, "save", "ok")
        /\ snapshot' = [snapshot EXCEPT ![r.id] = {StoredSnapshot(r.next, s) : s \in r.states}]
        /\ UNCHANGED <<stream, result>>

Load(c) ==
    /\ Executed(c, "load", "ok")
    /\ result' = [result EXCEPT ![c] = snapshot[call[c].id]]
    /\ UNCHANGED <<stream, snapshot>>

(* The store fails and changes nothing.                                    *)
Fail(c) ==
    /\ Executed(c, call[c].op, "error")
    /\ UNCHANGED <<stream, snapshot, result>>

----------------------------------------------------------------------------
Next ==
    \E c \in Calls :
      \/ Call(c) \/ Refused(c) \/ Answer(c) \/ Lose(c)
      \/ AppendOk(c) \/ AppendConflict(c) \/ Read(c) \/ Save(c) \/ Load(c) \/ Fail(c)

Spec == Init /\ [][Next]_vars
=============================================================================
