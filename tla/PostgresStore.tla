--------------------------- MODULE PostgresStore ---------------------------
(***************************************************************************)
(* The PostgreSQL store, and that it implements EventStore.                *)
(*   src/tellus-persistence-postgres/src/lib.rs                            *)
(*                                                                         *)
(* Calls run concurrently, on connections of a pool.  Each is a single     *)
(* statement of its own transaction.  The conditional INSERT of an append  *)
(* is not one step: it evaluates its condition on the rows committed when  *)
(* it starts, inserts row by row, each against the primary key, and        *)
(* commits.  A row whose key another open transaction has inserted waits   *)
(* for that transaction.                                                   *)
(***************************************************************************)
EXTENDS Naturals, Sequences, FiniteSets

CONSTANTS
    Ids,        \* persistence ids, (entity_type, entity_id)
    Calls,      \* calls of the store, each made once
    MaxBigint,  \* the largest BIGINT
    MaxSeqNo,   \* bound: the largest sequence number of a request
    MaxBatch,   \* bound: events of an append
    MaxLimit    \* bound: limit of a read

ASSUME BoundsAssumption == /\ MaxBigint \in Nat
                           /\ MaxSeqNo \in Nat
                           /\ MaxBatch \in Nat
                           /\ MaxLimit \in Nat

VARIABLES
    events,     \* rows of the events table, the committed ones
    snapshots,  \* rows of the snapshots table
    call,       \* call[c]: the request of c
    inserting,  \* the appends whose INSERT has found its condition true
    inserted,   \* inserted[c]: rows inserted by c, not yet committed
    outcome,    \* outcome[c]: what became of the statement of c
    result,     \* result[c]: the rows the statement of c returned
    answer      \* answer[c]: what the caller of c was told

vars == <<events, snapshots, call, inserting, inserted, outcome, result, answer>>

(* Each call has events, and a snapshot, of its own.                       *)
Event == Calls \X (Nat \ {0})
State == Calls

NoCall == [op |-> "none"]

Append_(c, i, next, n) ==
    [op |-> "append", id |-> i, next |-> next, events |-> [k \in 1 .. n |-> <<c, k>>],
     limit |-> 0, states |-> {}]
Read_(i, from, limit) ==
    [op |-> "read", id |-> i, next |-> from, events |-> <<>>, limit |-> limit, states |-> {}]
Save_(c, i, next) ==
    [op |-> "save", id |-> i, next |-> next, events |-> <<>>, limit |-> 0, states |-> {c}]
Load_(i) ==
    [op |-> "load", id |-> i, next |-> 0, events |-> <<>>, limit |-> 0, states |-> {}]

Init ==
    /\ events = {}
    /\ snapshots = {}
    /\ call = [c \in Calls |-> NoCall]
    /\ inserting = {}
    /\ inserted = [c \in Calls |-> 0]
    /\ outcome = [c \in Calls |-> "uncalled"]
    /\ result = [c \in Calls |-> {}]
    /\ answer = [c \in Calls |-> "none"]

----------------------------------------------------------------------------
(* The caller.                                                             *)

(* into_bigint, of the sequence number of the request and of each of its   *)
(* events.                                                                 *)
InBigint(r) ==
    /\ r.next <= MaxBigint
    /\ \A k \in DOMAIN r.events : r.next + k - 1 <= MaxBigint

(* A request out of range is an error, and no statement is sent.           *)
Request(c, r) ==
    LET o == IF InBigint(r) THEN "pending" ELSE "error"
    IN  /\ outcome[c] = "uncalled"
        /\ call' = [call EXCEPT ![c] = r]
        /\ outcome' = [outcome EXCEPT ![c] = o]
        /\ answer' = [answer EXCEPT ![c] = IF o = "error" THEN "error" ELSE @]
        /\ UNCHANGED <<events, snapshots, inserting, inserted, result>>

Answer(c) ==
    /\ outcome[c] \in {"ok", "conflict", "error"}
    /\ answer[c] = "none"
    /\ answer' = [answer EXCEPT ![c] = outcome[c]]
    /\ UNCHANGED <<events, snapshots, call, inserting, inserted, outcome, result>>

(* The connection breaks, at any time: the server may still execute the    *)
(* statement, or have executed it.                                         *)
ConnectionLost(c) ==
    /\ outcome[c] # "uncalled"
    /\ answer[c] = "none"
    /\ answer' = [answer EXCEPT ![c] = "error"]
    /\ UNCHANGED <<events, snapshots, call, inserting, inserted, outcome, result>>

----------------------------------------------------------------------------
(* The server: appends.                                                    *)

SeqNos(i) == {r.seq_no : r \in {s \in events : s.id = i}}

(* COALESCE(MAX(seq_no) + 1, 0)                                            *)
NextSeqNo(i) == CHOOSE n \in {0} \cup {m + 1 : m \in SeqNos(i)} :
                  \A m \in SeqNos(i) : m < n

Finish(c, o) ==
    /\ outcome' = [outcome EXCEPT ![c] = o]
    /\ inserting' = inserting \ {c}
    /\ inserted' = [inserted EXCEPT ![c] = 0]
    /\ UNCHANGED <<call, answer>>

(* The stream's actual next sequence number is evaluated.  The addition    *)
(* overflows, and the statement fails, if MAX(seq_no) is the last BIGINT.  *)
Evaluates(c) ==
    /\ outcome[c] = "pending"
    /\ call[c].op = "append"
    /\ c \notin inserting
    /\ NextSeqNo(call[c].id) <= MaxBigint

(* A faulty variant of EmptyAppend: the fencing left to the INSERT.        *)
EmptyAppendUnfenced(c) ==
    /\ Evaluates(c)
    /\ call[c].events = <<>>
    /\ Finish(c, "ok")
    /\ UNCHANGED <<events, snapshots, result>>

(* A SELECT of its own decides on an append of no events.                  *)
EmptyAppend(c) ==
    LET r == call[c]
    IN  /\ Evaluates(c)
        /\ r.events = <<>>
        /\ Finish(c, IF NextSeqNo(r.id) = r.next THEN "ok" ELSE "conflict")
        /\ UNCHANGED <<events, snapshots, result>>

(* A faulty variant of Inserted.                                           *)
AlwaysOk(c, rows) == "ok"

(* An append without an SQL error is judged by the rows affected.          *)
Inserted(c, rows) == IF rows = Len(call[c].events) THEN "ok" ELSE "conflict"

ConditionFalse(c) ==
    LET r == call[c]
    IN  /\ Evaluates(c)
        /\ r.events # <<>>
        /\ NextSeqNo(r.id) # r.next
        /\ Finish(c, Inserted(c, 0))
        /\ UNCHANGED <<events, snapshots, result>>

ConditionTrue(c) ==
    LET r == call[c]
    IN  /\ Evaluates(c)
        /\ r.events # <<>>
        /\ NextSeqNo(r.id) = r.next
        /\ inserting' = inserting \cup {c}
        /\ UNCHANGED <<events, snapshots, call, inserted, outcome, result, answer>>

(* The uncommitted sequence numbers of c, and the one it inserts next.     *)
Uncommitted(c) == call[c].next .. call[c].next + inserted[c] - 1
Inserts(c) == call[c].next + inserted[c]

(* A faulty variant of KeyFree.                                            *)
NoKey(c) == TRUE

(* The primary key: a key committed, or inserted by another transaction,   *)
(* is not inserted.                                                        *)
KeyFree(c) ==
    /\ Inserts(c) \notin SeqNos(call[c].id)
    /\ \A d \in inserting \ {c} :
         call[d].id = call[c].id => Inserts(c) \notin Uncommitted(d)

InsertRow(c) ==
    /\ c \in inserting
    /\ inserted[c] < Len(call[c].events)
    /\ KeyFree(c)
    /\ inserted' = [inserted EXCEPT ![c] = @ + 1]
    /\ UNCHANGED <<events, snapshots, call, inserting, outcome, result, answer>>

(* SQLSTATE 23505, which append answers with a conflict; the transaction   *)
(* is rolled back.                                                         *)
UniqueViolation(c) ==
    /\ c \in inserting
    /\ inserted[c] < Len(call[c].events)
    /\ Inserts(c) \in SeqNos(call[c].id)
    /\ Finish(c, "conflict")
    /\ UNCHANGED <<events, snapshots, result>>

Row(i, n, e) == [id |-> i, seq_no |-> n, event |-> e]

Commit(c) ==
    LET r == call[c]
    IN  /\ c \in inserting
        /\ inserted[c] = Len(r.events)
        /\ events' = events \cup
             {Row(r.id, r.next + k - 1, r.events[k]) : k \in DOMAIN r.events}
        /\ Finish(c, Inserted(c, inserted[c]))
        /\ UNCHANGED <<snapshots, result>>

(* The statement fails, or the server rolls it back when it crashes.       *)
StatementFails(c) ==
    /\ outcome[c] = "pending"
    /\ Finish(c, "error")
    /\ UNCHANGED <<events, snapshots, result>>

----------------------------------------------------------------------------
(* The server: reads and snapshots.                                        *)

Executes(c, op) == outcome[c] = "pending" /\ call[c].op = op /\ Finish(c, "ok")

(* ORDER BY seq_no LIMIT limit: a row with fewer than limit rows before it *)
Page(i, from, limit) ==
    {[seq_no |-> r.seq_no, event |-> r.event] :
       r \in {s \in events :
                /\ s.id = i
                /\ s.seq_no >= from
                /\ Cardinality({n \in SeqNos(i) : from <= n /\ n < s.seq_no}) < limit}}

Read(c) ==
    LET r == call[c]
    IN  /\ Executes(c, "read")
        /\ result' = [result EXCEPT ![c] = Page(r.id, r.next, r.limit)]
        /\ UNCHANGED <<events, snapshots>>

(* ON CONFLICT (entity_type, entity_id) DO UPDATE                          *)
Save(c) ==
    LET r == call[c]
    IN  /\ Executes(c, "save")
        /\ snapshots' = {s \in snapshots : s.id # r.id}
                          \cup {[id |-> r.id, next |-> r.next, state |-> t] : t \in r.states}
        /\ UNCHANGED <<events, result>>

Snapshot(i) == {[next |-> s.next, state |-> s.state] : s \in {t \in snapshots : t.id = i}}

Load(c) ==
    /\ Executes(c, "load")
    /\ result' = [result EXCEPT ![c] = Snapshot(call[c].id)]
    /\ UNCHANGED <<events, snapshots>>

----------------------------------------------------------------------------
Requests(c) ==
    {Append_(c, i, next, n) : i \in Ids, next \in 0 .. MaxSeqNo, n \in 0 .. MaxBatch}
      \cup {Read_(i, from, limit) : i \in Ids, from \in 0 .. MaxSeqNo, limit \in 1 .. MaxLimit}
      \cup {Save_(c, i, next) : i \in Ids, next \in 0 .. MaxSeqNo}
      \cup {Load_(i) : i \in Ids}

Next ==
    \E c \in Calls :
      \/ \E r \in Requests(c) : Request(c, r)
      \/ Answer(c) \/ ConnectionLost(c)
      \/ EmptyAppend(c) \/ ConditionFalse(c) \/ ConditionTrue(c)
      \/ InsertRow(c) \/ UniqueViolation(c) \/ Commit(c) \/ StatementFails(c)
      \/ Read(c) \/ Save(c) \/ Load(c)

Spec == Init /\ [][Next]_vars

----------------------------------------------------------------------------
(* The refinement: the stream of i is its committed rows, in order.        *)
Stream(i) == [k \in 1 .. NextSeqNo(i) |->
                (CHOOSE r \in events : r.id = i /\ r.seq_no = k - 1).event]

ES == INSTANCE EventStore
        WITH stream <- [i \in Ids |-> Stream(i)],
             snapshot <- [i \in Ids |-> Snapshot(i)]

(* The store keeps the promise of the EventStore and SnapshotStore traits  *)
(* although an append is not one step: whatever statements of other calls  *)
(* run between the evaluation of its condition, its rows and its commit,   *)
(* an append takes effect at once and only where the stream ends, and      *)
(* fails with a conflict, an empty one too, only where it does not.        *)
Implements == ES!Spec

(* "Sequence numbers are per stream, gapless and start at 0": the rows of  *)
(* an id are numbered from 0 without gaps, no two alike, although the      *)
(* condition of an append may be stale when its rows are inserted and      *)
(* sequence numbers reach the last BIGINT.                                 *)
Gapless ==
    /\ \A r, s \in events : r.id = s.id /\ r.seq_no = s.seq_no => r = s
    /\ \A i \in Ids : SeqNos(i) = 0 .. NextSeqNo(i) - 1

(* The caller of append is told the truth: Ok means that each event is, and *)
(* stays, at the sequence number asked for, Conflict that no event of the   *)
(* call is in any stream.  Only a store error leaves that open.             *)
Acknowledged ==
    \A c \in Calls :
      call[c].op = "append" =>
        /\ answer[c] = "ok" =>
             \A k \in DOMAIN call[c].events :
               Row(call[c].id, call[c].next + k - 1, call[c].events[k]) \in events
        /\ answer[c] = "conflict" => \A r \in events : r.event[1] # c
=============================================================================
