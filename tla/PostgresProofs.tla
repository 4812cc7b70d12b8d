-------------------------- MODULE PostgresProofs --------------------------
(***************************************************************************)
(* The PostgreSQL store implements EventStore, for any number of ids,      *)
(* calls, sequence numbers and events of an append.                        *)
(***************************************************************************)
EXTENDS PostgresStore, FiniteSetTheorems, SequenceTheorems, TLAPS

USE Zenon

Outcomes == {"uncalled", "pending", "ok", "conflict", "error"}

TypeOK ==
    /\ events \subseteq [id : Ids, seq_no : Nat, event : Event]
    /\ snapshots \subseteq [id : Ids, next : Nat, state : State]
    /\ call \in [Calls -> ES!Request \cup {NoCall}]
    /\ inserting \subseteq Calls
    /\ inserted \in [Calls -> Nat]
    /\ outcome \in [Calls -> Outcomes]
    /\ DOMAIN result = Calls
    /\ result = [c \in Calls |-> result[c]]
    /\ answer \in [Calls -> {"none", "ok", "conflict", "error"}]

(* The statement of a call that has been made is that of a request, whose  *)
(* events are those of the call.                                           *)
OwnEvents(c) == \A k \in DOMAIN call[c].events : call[c].events[k][1] = c
Called == \A c \in Calls :
            outcome[c] # "uncalled" => call[c] \in ES!Request /\ OwnEvents(c)

(* The key of a row determines the row.                                    *)
PrimaryKey == \A r, s \in events : r.id = s.id /\ r.seq_no = s.seq_no => r = s

(* The rows of each id are numbered from 0 without gaps.                   *)
Dense == \A i \in Ids : \E n \in Nat : SeqNos(i) = 0 .. n - 1

(* An INSERT under way started at or below the end of the stream, and the  *)
(* rows it has inserted are neither committed nor those of another one.    *)
Running ==
    \A c \in inserting :
      /\ outcome[c] = "pending"
      /\ call[c].op = "append"
      /\ call[c].events # <<>>
      /\ inserted[c] <= Len(call[c].events)
      /\ \A m \in 0 .. call[c].next - 1 : m \in SeqNos(call[c].id)
      /\ Uncommitted(c) \cap SeqNos(call[c].id) = {}

Apart ==
    \A c, d \in inserting :
      c # d /\ call[c].id = call[d].id => Uncommitted(c) \cap Uncommitted(d) = {}

(* Rows are those of the appends that succeeded.                           *)
Owned ==
    /\ \A r \in events : outcome[r.event[1]] = "ok"
    /\ \A c \in Calls :
         outcome[c] = "ok" /\ call[c].op = "append" =>
           \A k \in DOMAIN call[c].events :
             Row(call[c].id, call[c].next + k - 1, call[c].events[k]) \in events
    /\ \A c \in Calls : answer[c] \in {"ok", "conflict"} => answer[c] = outcome[c]

(* No other call has uncommitted rows.                                     *)
Idle == \A c \in Calls \ inserting : inserted[c] = 0

Inv == TypeOK /\ Called /\ PrimaryKey /\ Dense /\ Running /\ Apart /\ Owned /\ Idle

----------------------------------------------------------------------------
(* A request the model makes is one of the abstract requests.              *)
LEMMA RequestType ==
    ASSUME NEW c \in Calls, NEW r \in Requests(c)
    PROVE  r \in ES!Request /\ \A k \in DOMAIN r.events : r.events[k][1] = c
<1>1. CASE \E i \in Ids, next \in 0 .. MaxSeqNo, n \in 0 .. MaxBatch : r = Append_(c, i, next, n)
  <2>1. PICK i \in Ids, next \in 0 .. MaxSeqNo, n \in 0 .. MaxBatch : r = Append_(c, i, next, n)
    BY <1>1
  <2>2. [k \in 1 .. n |-> <<c, k>>] \in Seq(Event)
    BY BoundsAssumption, SMT DEF Event
  <2>3. QED
    BY <2>1, <2>2, BoundsAssumption, SMT DEF Append_, ES!Request
<1>2. CASE \E i \in Ids, from \in 0 .. MaxSeqNo, limit \in 1 .. MaxLimit : r = Read_(i, from, limit)
  BY <1>2, BoundsAssumption, SMT DEF Read_, ES!Request
<1>3. CASE \E i \in Ids, next \in 0 .. MaxSeqNo : r = Save_(c, i, next)
  BY <1>3, BoundsAssumption, SMT DEF Save_, ES!Request, State
<1>4. CASE \E i \in Ids : r = Load_(i)
  BY <1>4, SMT DEF Load_, ES!Request
<1>5. QED
  BY <1>1, <1>2, <1>3, <1>4, SMT DEF Requests

(* NextSeqNo is one more than the largest sequence number.                 *)
LEMMA NextIs ==
    ASSUME NEW i, NEW n \in Nat, SeqNos(i) = 0 .. n - 1
    PROVE  NextSeqNo(i) = n
<1> DEFINE S == {0} \cup {m + 1 : m \in SeqNos(i)}
<1>1. n \in S /\ \A m \in SeqNos(i) : m < n
  <2>1. CASE n = 0
    BY <2>1, SMT
  <2>2. CASE n # 0
    <3>1. n - 1 \in SeqNos(i) /\ n = (n - 1) + 1
      BY <2>2, SMT
    <3>2. QED
      BY <3>1, SMT
  <2>3. QED
    BY <2>1, <2>2
<1>2. ASSUME NEW x \in S, \A m \in 0 .. n - 1 : m < x PROVE x = n
  <2>1. CASE x = 0
    <3>1. n = 0 \/ 0 \in 0 .. n - 1
      BY SMT
    <3>2. QED
      BY <1>2, <2>1, <3>1, SMT
  <2>2. ASSUME NEW m \in 0 .. n - 1, x = m + 1 PROVE x = n
    <3>1. n - 1 < x
      BY <1>2, SMT
    <3>2. QED
      BY <2>2, <3>1, SMT
  <2>3. QED
    BY <2>1, <2>2
<1>3. QED
  BY <1>1, <1>2 DEF NextSeqNo

LEMMA DenseNext ==
    ASSUME Dense, NEW i \in Ids
    PROVE  NextSeqNo(i) \in Nat /\ SeqNos(i) = 0 .. NextSeqNo(i) - 1
BY NextIs DEF Dense

LEMMA RequestFields ==
    ASSUME NEW r \in ES!Request
    PROVE  /\ r.op # "none"
           /\ r.id \in Ids
           /\ r.next \in Nat
           /\ r.events \in Seq(Event)
           /\ Len(r.events) \in Nat
           /\ r.limit \in Nat
           /\ r.states \subseteq State
<1>1. r.events \in Seq(Event) /\ r.op \in {"append", "read", "save", "load"}
  BY DEF ES!Request
<1>2. QED
  BY <1>1, SMT DEF ES!Request

LEMMA NoneInserted ==
    ASSUME Inv, NEW c \in Calls, outcome[c] = "pending", call[c].events # <<>>
    PROVE  Inserted(c, 0) = "conflict"
<1>1. call[c].events \in Seq(Event)
  BY RequestFields DEF Inv, Called
<1>2. Len(call[c].events) # 0
  BY <1>1, SMT
<1>3. QED
  BY <1>2 DEF Inserted

----------------------------------------------------------------------------
(* The invariant.                                                          *)

LEMMA InitInv == Init => Inv
<1> SUFFICES ASSUME Init PROVE Inv
  OBVIOUS
<1>1. TypeOK
  BY DEF Init, TypeOK, Outcomes
<1>2. Dense
  <2>1. \A i \in Ids : SeqNos(i) = 0 .. 0 - 1
    BY SMT DEF Init, SeqNos
  <2>2. QED
    BY <2>1 DEF Dense
<1>3. Called /\ PrimaryKey /\ Running /\ Apart /\ Owned /\ Idle
  BY DEF Init, Called, PrimaryKey, Running, Apart, Owned, Idle
<1>4. QED
  BY <1>1, <1>2, <1>3 DEF Inv

(* A statement that ends and adds no row to the events table.              *)
LEMMA FinishInv ==
    ASSUME Inv, NEW c \in Calls, NEW o \in {"ok", "conflict", "error"},
           outcome[c] = "pending", Finish(c, o), events' = events,
           snapshots' \subseteq [id : Ids, next : Nat, state : State],
           DOMAIN result' = Calls, result' = [d \in Calls |-> result'[d]],
           o = "ok" => call[c].op # "append" \/ call[c].events = <<>>
    PROVE  Inv'
<1> USE DEF Finish
<1>1. TypeOK'
  BY DEF Inv, TypeOK, Outcomes
<1>2. Called' /\ PrimaryKey'
  BY DEF Inv, TypeOK, Called, OwnEvents, PrimaryKey
<1>3. \A i : SeqNos(i)' = SeqNos(i)
  BY DEF SeqNos
<1>4. Dense'
  BY <1>3 DEF Inv, Dense
<1>5. \A d \in inserting' : d # c /\ d \in inserting /\ inserted'[d] = inserted[d] /\ outcome'[d] = outcome[d]
  BY DEF Inv, TypeOK
<1>6. \A d \in inserting' : Uncommitted(d)' = Uncommitted(d)
  BY <1>5 DEF Uncommitted
<1>7. Running' /\ Apart'
  BY <1>3, <1>5, <1>6, SMT DEF Inv, Running, Apart
<1>8. Owned'
  <2>1. \A r \in events : r.event[1] # c /\ r.event[1] \in Calls
    BY DEF Inv, TypeOK, Owned, Event
  <2>2. \A r \in events' : outcome'[r.event[1]] = "ok"
    BY <2>1 DEF Inv, TypeOK, Owned
  <2>3. call[c].op # "append" \/ o # "ok" \/ DOMAIN call[c].events = {}
    BY SMT
  <2>4. ASSUME NEW d \in Calls, outcome'[d] = "ok", call[d].op = "append",
               NEW k \in DOMAIN call[d].events
        PROVE  Row(call[d].id, call[d].next + k - 1, call[d].events[k]) \in events
    BY <2>3, <2>4 DEF Inv, TypeOK, Owned
  <2>5. \A d \in Calls : answer'[d] \in {"ok", "conflict"} => answer'[d] = outcome'[d]
    BY DEF Inv, TypeOK, Owned
  <2>6. QED
    BY <2>2, <2>4, <2>5, SMT DEF Owned
<1>9. Idle'
  BY DEF Inv, Idle, TypeOK
<1>10. QED
  BY <1>1, <1>2, <1>4, <1>7, <1>8, <1>9 DEF Inv

LEMMA RangeGrows ==
    ASSUME NEW a \in Nat, NEW b \in Nat
    PROVE  a .. a + (b + 1) - 1 = (a .. a + b - 1) \cup {a + b}
BY SMT

LEMMA RangeMember ==
    ASSUME NEW a \in Nat, NEW l \in Nat, NEW m \in a .. a + l - 1
    PROVE  \E k \in 1 .. l : m = a + k - 1
<1>1. m - a + 1 \in 1 .. l /\ m = a + (m - a + 1) - 1
  BY SMT
<1>2. QED
  BY <1>1

LEMMA SameSeqNo ==
    ASSUME NEW a \in Nat, NEW j \in Nat, NEW k \in Nat, a + j - 1 = a + k - 1
    PROVE  j = k
BY SMT

(* An append that commits: i, nx and es are the id, the sequence number    *)
(* and the events of its request.                                          *)
LEMMA CommitInv ==
    ASSUME Inv, NEW c \in Calls, Commit(c), NEW i, NEW nx, NEW es,
           i = call[c].id, nx = call[c].next, es = call[c].events
    PROVE  /\ i \in Ids /\ nx \in Nat /\ es \in Seq(Event)
           /\ SeqNos(i) = 0 .. nx - 1
           /\ SeqNos(i)' = 0 .. nx + Len(es) - 1
           /\ \A j : j # i => SeqNos(j)' = SeqNos(j)
           /\ Inv'
<1> DEFINE L == Len(es)
           New == {Row(i, nx + k - 1, es[k]) : k \in DOMAIN es}
<1>0. /\ c \in inserting /\ inserted[c] = L /\ events' = events \cup New
      /\ Finish(c, "ok") /\ call' = call /\ snapshots' = snapshots /\ result' = result
  BY DEF Commit, Finish, Inserted
<1>1. /\ outcome[c] = "pending" /\ call[c].op = "append" /\ es # <<>> /\ call[c] \in ES!Request
      /\ i \in Ids /\ nx \in Nat /\ es \in Seq(Event) /\ L \in Nat /\ L > 0
      /\ DOMAIN es = 1 .. L
  <2>1. outcome[c] = "pending" /\ call[c].op = "append" /\ es # <<>> /\ call[c] \in ES!Request
    BY <1>0 DEF Inv, Running, Called
  <2>2. i \in Ids /\ nx \in Nat /\ es \in Seq(Event)
    BY <2>1, RequestFields
  <2>3. QED
    BY <2>1, <2>2, SMT
<1>2. PICK n \in Nat : SeqNos(i) = 0 .. n - 1
  BY <1>1 DEF Inv, Dense
<1>3. Uncommitted(c) = nx .. nx + L - 1
  BY <1>0 DEF Uncommitted
<1>4. SeqNos(i) = 0 .. nx - 1
  <2>1. Uncommitted(c) \cap SeqNos(i) = {} /\ \A m \in 0 .. nx - 1 : m \in SeqNos(i)
    BY <1>0 DEF Inv, Running
  <2>2. nx \notin 0 .. n - 1
    BY <2>1, <1>1, <1>2, <1>3, SMT
  <2>3. nx # 0 => nx - 1 \in 0 .. n - 1
    BY <2>1, <1>1, <1>2, SMT
  <2>4. QED
    BY <2>2, <2>3, <1>1, <1>2, SMT
<1>6. {s.seq_no : s \in {t \in New : t.id = i}} = nx .. nx + L - 1
  <2>1. \A t \in New : t.id = i /\ t.seq_no \in nx .. nx + L - 1
    <3>1. \A k \in DOMAIN es : nx + k - 1 \in nx .. nx + L - 1
      BY <1>1, SMT
    <3>2. QED
      BY <3>1, SMT DEF Row
  <2>2. ASSUME NEW m \in nx .. nx + L - 1
        PROVE  \E t \in New : t.id = i /\ t.seq_no = m
    <3>1. PICK k \in DOMAIN es : m = nx + k - 1
      <4>1. PICK l \in Nat : l = L /\ DOMAIN es = 1 .. l
        BY <1>1
      <4>2. m \in nx .. nx + l - 1 /\ nx \in Nat
        BY <1>1, <4>1
      <4>3. PICK k \in 1 .. l : m = nx + k - 1
        BY <4>2, RangeMember
      <4>4. QED
        BY <4>1, <4>3
    <3>2. Row(i, nx + k - 1, es[k]) \in New
      OBVIOUS
    <3>3. QED
      BY <3>1, <3>2 DEF Row
  <2>3. QED
    BY <2>1, <2>2, SMT
<1>7. SeqNos(i)' = 0 .. nx + L - 1
  <2>1. SeqNos(i)' = SeqNos(i) \cup {s.seq_no : s \in {t \in New : t.id = i}}
    BY <1>0 DEF SeqNos
  <2>2. \A l \in Nat : (0 .. nx - 1) \cup (nx .. nx + l - 1) = 0 .. nx + l - 1
    BY <1>1, SMT
  <2>3. QED
    BY <2>1, <2>2, <1>1, <1>4, <1>6
<1>8. \A j : j # i => SeqNos(j)' = SeqNos(j)
  <2>1. \A t \in New : t.id = i
    BY SMT DEF Row
  <2>2. QED
    BY <2>1, <1>0 DEF SeqNos
<1>9. \A d \in inserting' : /\ d # c /\ d \in inserting /\ inserted'[d] = inserted[d]
                           /\ outcome'[d] = outcome[d] /\ Uncommitted(d)' = Uncommitted(d)
  <2>1. \A d \in inserting' : /\ d # c /\ d \in inserting /\ inserted'[d] = inserted[d]
                           /\ outcome'[d] = outcome[d]
    BY <1>0 DEF Finish, Inv, TypeOK
  <2>2. QED
    BY <2>1, <1>0 DEF Uncommitted
<1>10. TypeOK'
  <2>1. \A k \in DOMAIN es : es[k] \in Event
    BY <1>1, SMT
  <2>2. New \subseteq [id : Ids, seq_no : Nat, event : Event]
    BY <2>1, <1>1, SMT DEF Row
  <2>3. QED
    BY <2>2, <1>0 DEF Inv, TypeOK, Finish, Outcomes
<1>11. Called'
  BY <1>0, <1>1, SMT DEF Inv, TypeOK, Called, OwnEvents, Finish
<1>12. PrimaryKey'
  <2>1. \A s \in events, t \in New : s.id = t.id => s.seq_no # t.seq_no
    <3>1. \A s \in events : s.id = i => s.seq_no \in 0 .. nx - 1
      BY <1>4 DEF SeqNos
    <3>2. \A t \in New : t.id = i /\ t.seq_no >= nx /\ t.seq_no \in Int
      BY <1>1, SMT DEF Row
    <3>3. QED
      BY <3>1, <3>2, <1>1, SMT
  <2>2. \A s, t \in New : s.seq_no = t.seq_no => s = t
    <3> SUFFICES ASSUME NEW j \in DOMAIN es, NEW k \in DOMAIN es, nx + j - 1 = nx + k - 1
                 PROVE  j = k
      BY SMT DEF Row
    <3>1. j \in Nat /\ k \in Nat
      BY <1>1, SMT
    <3>2. QED
      BY <1>1, <3>1, SameSeqNo
  <2>3. QED
    BY <2>1, <2>2, <1>0, SMT DEF Inv, PrimaryKey
<1>13. Dense'
  <2>1. nx + L \in Nat
    BY <1>1, SMT
  <2>2. \A j \in Ids : j # i => \E m \in Nat : SeqNos(j)' = 0 .. m - 1
    BY <1>8 DEF Inv, Dense
  <2>3. \E m \in Nat : SeqNos(i)' = 0 .. m - 1
    <3>1. (nx + L) - 1 = nx + L - 1
      BY <1>1, SMT
    <3>2. QED
      BY <3>1, <2>1, <1>7
  <2>4. QED
    BY <2>2, <2>3 DEF Dense
<1>14. ASSUME NEW d \in inserting, d # c
       PROVE  /\ \A m \in 0 .. call[d].next - 1 : m \in SeqNos(call[d].id)'
              /\ Uncommitted(d) \cap SeqNos(call[d].id)' = {}
  <2>1. PICK j : j = call[d].id
    OBVIOUS
  <2>2. CASE j = i
    <3>1. SeqNos(i)' = SeqNos(i) \cup Uncommitted(c)
      BY <1>1, <1>3, <1>4, <1>7, SMT
    <3>2. Uncommitted(d) \cap Uncommitted(c) = {}
      BY <1>14, <1>0, <2>1, <2>2 DEF Inv, Apart
    <3>3. /\ \A m \in 0 .. call[d].next - 1 : m \in SeqNos(i)'
          /\ Uncommitted(d) \cap SeqNos(i)' = {}
      BY <3>1, <3>2, <2>1, <2>2 DEF Inv, Running
    <3>4. QED
      BY <3>3, <2>1, <2>2, <1>0
  <2>3. CASE j # i
    <3>1. SeqNos(j)' = SeqNos(j)
      BY <2>3, <1>8
    <3>2. /\ \A m \in 0 .. call[d].next - 1 : m \in SeqNos(j)'
          /\ Uncommitted(d) \cap SeqNos(j)' = {}
      BY <3>1, <2>1 DEF Inv, Running
    <3>3. QED
      BY <3>2, <2>1, <1>0
  <2>4. QED
    BY <2>2, <2>3
<1>15. Running'
  BY <1>0, <1>9, <1>14 DEF Inv, Running
<1>16. Apart'
  BY <1>0, <1>9 DEF Inv, Apart
<1>17. Owned'
  <2>1. \A s \in events : s.event[1] # c /\ s.event[1] \in Calls
    BY <1>1 DEF Inv, TypeOK, Owned, Event
  <2>2. \A s \in New : s.event[1] = c
    <3>1. \A k \in DOMAIN es : es[k][1] = c
      BY <1>1 DEF Inv, Called, OwnEvents
    <3>2. QED
      BY <3>1, SMT DEF Row
  <2>3. \A s \in events' : outcome'[s.event[1]] = "ok"
    BY <2>1, <2>2, <1>0 DEF Inv, TypeOK, Owned, Finish
  <2>4. ASSUME NEW d \in Calls, outcome'[d] = "ok", call'[d].op = "append",
               NEW k \in DOMAIN call'[d].events
        PROVE  Row(call'[d].id, call'[d].next + k - 1, call'[d].events[k]) \in events'
    <3>1. CASE d = c
      BY <3>1, <2>4, <1>0
    <3>2. CASE d # c
      BY <3>2, <2>4, <1>0 DEF Inv, TypeOK, Owned, Finish
    <3>3. QED
      BY <3>1, <3>2
  <2>5. \A d \in Calls : answer'[d] \in {"ok", "conflict"} => answer'[d] = outcome'[d]
    BY <1>0, <1>1 DEF Inv, TypeOK, Owned, Finish
  <2>6. QED
    BY <2>3, <2>4, <2>5 DEF Owned, Row
<1>18. Idle'
  BY <1>0 DEF Inv, Idle, TypeOK, Finish
<1>19. QED
  BY <1>1, <1>4, <1>7, <1>8, <1>10, <1>11, <1>12, <1>13, <1>15, <1>16, <1>17, <1>18 DEF Inv

(* A step of the caller leaves the statements alone.                       *)
LEMMA CallerInv ==
    ASSUME Inv, UNCHANGED <<events, call, inserting, inserted, outcome>>
    PROVE  Called' /\ PrimaryKey' /\ Dense' /\ Running' /\ Apart' /\ Idle'
<1>1. \A i : SeqNos(i)' = SeqNos(i)
  BY DEF SeqNos
<1>2. \A c : Uncommitted(c)' = Uncommitted(c)
  BY DEF Uncommitted
<1>3. Called' /\ PrimaryKey' /\ Dense' /\ Idle'
  BY <1>1 DEF Inv, Called, OwnEvents, PrimaryKey, Dense, Idle
<1>4. Running' /\ Apart'
  BY <1>1, <1>2 DEF Inv, Running, Apart
<1>5. QED
  BY <1>3, <1>4

(* Every step of the store preserves the invariant.                        *)
LEMMA NextInv == Inv /\ [Next]_vars => Inv'
<1> SUFFICES ASSUME Inv, [Next]_vars PROVE Inv'
  OBVIOUS
<1>1. CASE UNCHANGED vars
  <2>1. TypeOK' /\ Owned'
    BY <1>1 DEF Inv, vars, TypeOK, Owned
  <2>2. QED
    BY <1>1, <2>1, CallerInv DEF Inv, vars
<1>2. ASSUME NEW c \in Calls, NEW r \in Requests(c), Request(c, r) PROVE Inv'
  <2>1. r \in ES!Request /\ \A k \in DOMAIN r.events : r.events[k][1] = c
    BY RequestType
  <2>2. PICK o \in {"pending", "error"} : outcome' = [outcome EXCEPT ![c] = o]
    BY <1>2 DEF Request
  <2>3. PICK a \in {"error", answer[c]} : answer' = [answer EXCEPT ![c] = a]
    BY <1>2 DEF Request
  <2>4. /\ outcome[c] = "uncalled" /\ call' = [call EXCEPT ![c] = r]
        /\ UNCHANGED <<events, snapshots, inserting, inserted, result>>
    BY <1>2 DEF Request
  <2>5. TypeOK'
    BY <2>1, <2>2, <2>3, <2>4 DEF Inv, TypeOK, Outcomes
  <2>6. Called'
    BY <2>1, <2>2, <2>4, SMT DEF Inv, TypeOK, Called, OwnEvents
  <2>7. (\A i : SeqNos(i)' = SeqNos(i)) /\ c \notin inserting
    BY <2>4 DEF SeqNos, Inv, Running
  <2>8. \A d \in Calls : d # c => call'[d] = call[d] /\ outcome'[d] = outcome[d]
    BY <2>2, <2>4 DEF Inv, TypeOK
  <2>9. PrimaryKey' /\ Dense' /\ Idle'
    BY <2>4, <2>7 DEF Inv, PrimaryKey, Dense, Idle
  <2>10. \A d \in inserting : Uncommitted(d)' = Uncommitted(d)
    BY <2>4, <2>7, <2>8 DEF Uncommitted, Inv, TypeOK
  <2>11. Running' /\ Apart'
    BY <2>4, <2>7, <2>8, <2>10, SMT DEF Inv, TypeOK, Running, Apart
  <2>12. Owned'
    <3>1. \A s \in events : s.event[1] # c /\ s.event[1] \in Calls
      BY <2>4 DEF Inv, TypeOK, Owned, Event
    <3>2. answer[c] \notin {"ok", "conflict"}
      BY <2>4 DEF Inv, Owned
    <3>3. outcome'[c] # "ok"
      BY <2>2 DEF Inv, TypeOK
    <3>4. QED
      BY <2>3, <2>4, <2>8, <3>1, <3>2, <3>3, SMT DEF Inv, TypeOK, Owned
  <2>13. QED
    BY <2>5, <2>6, <2>9, <2>11, <2>12 DEF Inv
<1>3. ASSUME NEW c \in Calls, Answer(c) \/ ConnectionLost(c) PROVE Inv'
  <2>1. PICK a \in {"error", outcome[c]} : answer' = [answer EXCEPT ![c] = a]
    BY <1>3 DEF Answer, ConnectionLost
  <2>2. UNCHANGED <<events, snapshots, call, inserting, inserted, outcome, result>>
    BY <1>3 DEF Answer, ConnectionLost
  <2>3. TypeOK'
    BY <1>3, <2>2 DEF Inv, TypeOK, Answer, ConnectionLost
  <2>4. Owned'
    BY <2>1, <2>2 DEF Inv, TypeOK, Owned
  <2>5. QED
    BY <2>2, <2>3, <2>4, CallerInv DEF Inv
<1>4. ASSUME NEW c \in Calls,
             \/ EmptyAppend(c) \/ ConditionFalse(c) \/ UniqueViolation(c) \/ StatementFails(c)
             \/ Read(c) \/ Save(c) \/ Load(c)
      PROVE  Inv'
  <2>1. outcome[c] = "pending" /\ call[c] \in ES!Request
    BY <1>4 DEF EmptyAppend, ConditionFalse, UniqueViolation, StatementFails, Read, Save, Load,
                Evaluates, Executes, Inv, Running, Called
  <2>2. events' = events
    BY <1>4 DEF EmptyAppend, ConditionFalse, UniqueViolation, StatementFails, Read, Save, Load
  <2>3. snapshots' \subseteq [id : Ids, next : Nat, state : State]
    <3>1. CASE Save(c)
      <4>1. call[c].id \in Ids /\ call[c].next \in Nat /\ call[c].states \subseteq State
        BY <2>1, RequestFields
      <4>2. QED
        BY <3>1, <4>1, SMT DEF Save, Inv, TypeOK
    <3>2. CASE ~ Save(c)
      BY <1>4, <3>2 DEF EmptyAppend, ConditionFalse, UniqueViolation, StatementFails, Read, Load,
                        Inv, TypeOK
    <3>3. QED
      BY <3>1, <3>2
  <2>4. DOMAIN result' = Calls /\ result' = [d \in Calls |-> result'[d]]
    BY <1>4 DEF EmptyAppend, ConditionFalse, UniqueViolation, StatementFails, Read, Save, Load,
                Inv, TypeOK
  <2>5. PICK o \in {"ok", "conflict", "error"} :
          Finish(c, o) /\ (o = "ok" => call[c].op # "append" \/ call[c].events = <<>>)
    BY <1>4, NoneInserted
    DEF EmptyAppend, ConditionFalse, UniqueViolation, StatementFails, Read, Save, Load, Evaluates,
        Executes
  <2>6. QED
    BY <2>1, <2>2, <2>3, <2>4, <2>5, FinishInv
<1>5. ASSUME NEW c \in Calls, ConditionTrue(c) PROVE Inv'
  <2>0. PICK i, nx : i = call[c].id /\ nx = call[c].next
    OBVIOUS
  <2>1. /\ outcome[c] = "pending" /\ call[c].op = "append" /\ call[c].events # <<>>
        /\ c \notin inserting /\ NextSeqNo(i) = nx /\ inserting' = inserting \cup {c}
        /\ UNCHANGED <<events, snapshots, call, inserted, outcome, result, answer>>
    BY <1>5, <2>0 DEF ConditionTrue, Evaluates
  <2>2. i \in Ids /\ nx \in Nat /\ Len(call[c].events) \in Nat
    BY <2>0, <2>1, RequestFields DEF Inv, Called
  <2>3. inserted[c] = 0
    BY <2>1 DEF Inv, Idle
  <2>4. Uncommitted(c) = {}
    BY <2>0, <2>2, <2>3, SMT DEF Uncommitted
  <2>5. SeqNos(i) = 0 .. nx - 1
    BY <2>1, <2>2, DenseNext DEF Inv
  <2>6. (\A j : SeqNos(j)' = SeqNos(j)) /\ \A d : Uncommitted(d)' = Uncommitted(d)
    BY <2>1 DEF SeqNos, Uncommitted
  <2>7. TypeOK' /\ Called' /\ PrimaryKey' /\ Dense' /\ Owned' /\ Idle'
    BY <2>1, <2>6, SMT DEF Inv, TypeOK, Called, OwnEvents, PrimaryKey, Dense, Owned, Idle
  <2>8. Running'
    BY <2>0, <2>1, <2>2, <2>3, <2>4, <2>5, <2>6, SMT DEF Inv, Running
  <2>9. Apart'
    BY <2>1, <2>4, <2>6 DEF Inv, Apart
  <2>10. QED
    BY <2>7, <2>8, <2>9 DEF Inv
<1>6. ASSUME NEW c \in Calls, InsertRow(c) PROVE Inv'
  <2>0. PICK i, nx : i = call[c].id /\ nx = call[c].next
    OBVIOUS
  <2>1. /\ c \in inserting /\ inserted[c] < Len(call[c].events) /\ nx + inserted[c] \notin SeqNos(i)
        /\ \A d \in inserting \ {c} : call[d].id = i => nx + inserted[c] \notin Uncommitted(d)
        /\ inserted' = [inserted EXCEPT ![c] = @ + 1]
        /\ UNCHANGED <<events, snapshots, call, inserting, outcome, result, answer>>
    BY <1>6, <2>0 DEF InsertRow, KeyFree, Inserts
  <2>2. i \in Ids /\ nx \in Nat /\ Len(call[c].events) \in Nat /\ inserted[c] \in Nat
    BY <2>0, <2>1, RequestFields DEF Inv, Called, Running, TypeOK
  <2>3. Uncommitted(c)' = Uncommitted(c) \cup {nx + inserted[c]}
    <3>1. inserted'[c] = inserted[c] + 1
      BY <2>1 DEF Inv, TypeOK
    <3>2. Uncommitted(c)' = nx .. nx + (inserted[c] + 1) - 1 /\ Uncommitted(c) = nx .. nx + inserted[c] - 1
      BY <3>1, <2>0, <2>1 DEF Uncommitted
    <3>3. QED
      BY <2>2, <3>2, RangeGrows
  <2>4. \A d \in inserting \ {c} : Uncommitted(d)' = Uncommitted(d) /\ inserted'[d] = inserted[d]
    BY <2>1 DEF Uncommitted, Inv, TypeOK
  <2>5. \A j : SeqNos(j)' = SeqNos(j)
    BY <2>1 DEF SeqNos
  <2>6. TypeOK' /\ Called' /\ PrimaryKey' /\ Dense' /\ Owned' /\ Idle'
    BY <2>1, <2>2, <2>5, SMT DEF Inv, TypeOK, Called, OwnEvents, PrimaryKey, Dense, Owned, Idle
  <2>7. inserted'[c] <= Len(call[c].events) /\ (Uncommitted(c) \cup {nx + inserted[c]}) \cap SeqNos(i) = {}
    BY <2>0, <2>1, <2>2, SMT DEF Inv, Running, TypeOK
  <2>8. Running'
    BY <2>0, <2>1, <2>3, <2>4, <2>5, <2>7 DEF Inv, Running
  <2>9. Apart'
    BY <2>0, <2>1, <2>3, <2>4, SMT DEF Inv, Apart
  <2>10. QED
    BY <2>6, <2>8, <2>9 DEF Inv
<1>7. ASSUME NEW c \in Calls, Commit(c) PROVE Inv'
  BY <1>7, CommitInv
<1>8. QED
  BY <1>1, <1>2, <1>3, <1>4, <1>5, <1>6, <1>7 DEF Next

----------------------------------------------------------------------------
(* The refinement.                                                         *)

stream == [i \in Ids |-> Stream(i)]
snapshot == [i \in Ids |-> Snapshot(i)]

LEMMA SameStream == events' = events => stream' = stream
BY SMT DEF stream, Stream, NextSeqNo, SeqNos

LEMMA SameSnapshot == snapshots' = snapshots => snapshot' = snapshot
BY DEF snapshot, Snapshot

(* The stream of i has the event of each row of i at its sequence number.  *)
StreamIs ==
    \A i \in Ids :
      /\ NextSeqNo(i) \in Nat
      /\ SeqNos(i) = 0 .. NextSeqNo(i) - 1
      /\ Len(stream[i]) = NextSeqNo(i)
      /\ DOMAIN stream[i] = 1 .. NextSeqNo(i)
      /\ stream[i] \in Seq(Event)
      /\ \A r \in events : r.id = i => stream[i][r.seq_no + 1] = r.event

LEMMA StreamLen == Inv => StreamIs
<1> SUFFICES ASSUME Inv, NEW i \in Ids
             PROVE  /\ NextSeqNo(i) \in Nat
                    /\ SeqNos(i) = 0 .. NextSeqNo(i) - 1
                    /\ Len(stream[i]) = NextSeqNo(i)
                    /\ DOMAIN stream[i] = 1 .. NextSeqNo(i)
                    /\ stream[i] \in Seq(Event)
                    /\ \A r \in events : r.id = i => stream[i][r.seq_no + 1] = r.event
  BY DEF StreamIs
<1>1. NextSeqNo(i) \in Nat /\ SeqNos(i) = 0 .. NextSeqNo(i) - 1
  BY DenseNext DEF Inv
<1> DEFINE n == NextSeqNo(i)
<1>2. stream[i] = [k \in 1 .. n |-> (CHOOSE r \in events : r.id = i /\ r.seq_no = k - 1).event]
  BY DEF stream, Stream
<1>3. ASSUME NEW k \in 1 .. n
      PROVE  stream[i][k] \in Event
  <2>1. k - 1 \in SeqNos(i)
    BY <1>1, SMT
  <2>2. PICK r \in events : r.id = i /\ r.seq_no = k - 1
    BY <2>1 DEF SeqNos
  <2>3. (CHOOSE s \in events : s.id = i /\ s.seq_no = k - 1) \in events
    BY <2>2
  <2>4. QED
    BY <2>3, <1>2 DEF Inv, TypeOK
<1>4. ASSUME NEW r \in events, r.id = i
      PROVE  stream[i][r.seq_no + 1] = r.event
  <2>1. r.seq_no \in SeqNos(i)
    BY <1>4 DEF SeqNos
  <2>2. r.seq_no + 1 \in 1 .. n /\ (r.seq_no + 1) - 1 = r.seq_no
    BY <2>1, <1>1, SMT
  <2>3. (CHOOSE s \in events : s.id = i /\ s.seq_no = r.seq_no) = r
    BY <1>4 DEF Inv, PrimaryKey
  <2>4. QED
    BY <1>2, <2>2, <2>3, SMT
<1>5. stream[i] \in Seq(Event) /\ DOMAIN stream[i] = 1 .. n
  <2>1. stream[i] \in [1 .. n -> Event]
    BY <1>2, <1>3
  <2>2. QED
    BY <2>1, <1>1, SMT
<1>6. Len(stream[i]) = n
  BY <1>1, <1>5, SMT
<1>7. QED
  BY <1>1, <1>4, <1>5, <1>6

LEMMA InitRefines == Init => ES!Init
<1> SUFFICES ASSUME Init PROVE ES!Init
  OBVIOUS
<1>1. ASSUME NEW i \in Ids PROVE Stream(i) = <<>>
  <2>1. SeqNos(i) = {} /\ SeqNos(i) = 0 .. 0 - 1
    BY SMT DEF Init, SeqNos
  <2>2. NextSeqNo(i) = 0
    BY <2>1, NextIs
  <2>3. QED
    BY <2>2, SMT DEF Stream
<1>2. \A i \in Ids : Snapshot(i) = {}
  BY DEF Init, Snapshot
<1>3. QED
  BY <1>1, <1>2 DEF Init, ES!Init, NoCall, ES!NoCall

(* A sequence of both parts is their concatenation.                        *)
LEMMA ConcatIs ==
    ASSUME NEW S, NEW s \in Seq(S), NEW t \in Seq(S), NEW u \in Seq(S),
           Len(s) = Len(t) + Len(u),
           \A k \in 1 .. Len(t) : s[k] = t[k],
           \A k \in 1 .. Len(u) : s[Len(t) + k] = u[k]
    PROVE  s = t \o u
<1>1. t \o u \in Seq(S) /\ Len(t \o u) = Len(t) + Len(u)
  BY SMT
<1>2. ASSUME NEW k \in 1 .. Len(s) PROVE s[k] = (t \o u)[k]
  <2>1. CASE k <= Len(t)
    BY <2>1, SMT
  <2>2. CASE k > Len(t)
    <3>1. k - Len(t) \in 1 .. Len(u) /\ Len(t) + (k - Len(t)) = k
      BY <2>2, SMT
    <3>2. (t \o u)[k] = u[k - Len(t)]
      BY <2>2, SMT
    <3>3. QED
      BY <3>1, <3>2
  <2>3. QED
    BY <2>1, <2>2, SMT
<1>3. PICK v \in Seq(S) : v = t \o u
  BY <1>1
<1>4. Len(s) = Len(v) /\ \A k \in 1 .. Len(s) : s[k] = v[k]
  BY <1>1, <1>2, <1>3
<1>5. s = v
  BY <1>4, SeqEqual, Zenon
<1>6. QED
  BY <1>3, <1>5

(* The commit of an INSERT is the append.                                  *)
LEMMA CommitRefines ==
    ASSUME Inv, NEW c \in Calls, Commit(c)
    PROVE  ES!AppendOk(c)
<1>0. PICK i, nx, es : i = call[c].id /\ nx = call[c].next /\ es = call[c].events
  OBVIOUS
<1>1. /\ i \in Ids /\ nx \in Nat /\ es \in Seq(Event) /\ SeqNos(i) = 0 .. nx - 1
      /\ SeqNos(i)' = 0 .. nx + Len(es) - 1 /\ Inv'
      /\ \A j : j # i => SeqNos(j)' = SeqNos(j)
  BY <1>0, CommitInv, SMT
<1>2. Len(stream[i]) = nx /\ stream[i] \in Seq(Event) /\ DOMAIN stream[i] = 1 .. nx
  BY <1>1, NextIs, StreamLen DEF StreamIs
<1>3. ASSUME NEW j \in Ids
      PROVE  stream'[j] = IF j = i THEN stream[i] \o es ELSE stream[j]
  <2>0. StreamIs /\ StreamIs'
    BY <1>1, StreamLen, PTL
  <2>1. events' = events \cup {Row(i, nx + k - 1, es[k]) : k \in DOMAIN es}
    BY <1>0 DEF Commit
  <2>2. CASE j = i
    <3>1. Len(es) \in Nat /\ DOMAIN es = 1 .. Len(es)
      BY <1>1, SMT
    <3>2. NextSeqNo(i)' = nx + Len(es)
      <4>1. \A m, n \in Nat : 0 .. m - 1 = 0 .. n - 1 => m = n
        <5>1. ASSUME NEW m \in Nat, NEW n \in Nat, 0 .. m - 1 = 0 .. n - 1, m # n PROVE FALSE
          <6>1. CASE m < n
            <7>1. n - 1 \in 0 .. n - 1 /\ n - 1 \notin 0 .. m - 1
              BY <6>1, SMT
            <7>2. QED
              BY <7>1, <5>1
          <6>2. CASE n < m
            <7>1. m - 1 \in 0 .. m - 1 /\ m - 1 \notin 0 .. n - 1
              BY <6>2, SMT
            <7>2. QED
              BY <7>1, <5>1
          <6>3. QED
            BY <6>1, <6>2, <5>1, SMT
        <5>2. QED
          BY <5>1
      <4>2. SeqNos(i)' = 0 .. NextSeqNo(i)' - 1 /\ NextSeqNo(i)' \in Nat
        BY <2>0, <1>1 DEF StreamIs
      <4>3. nx + Len(es) \in Nat /\ (nx + Len(es)) - 1 = nx + Len(es) - 1
        BY <3>1, <1>1, SMT
      <4>4. QED
        BY <4>1, <4>2, <4>3, <1>1
    <3>3. stream'[i] \in Seq(Event) /\ Len(stream'[i]) = nx + Len(es)
      BY <2>0, <3>2, <1>1 DEF StreamIs
    <3>4. ASSUME NEW k \in 1 .. nx PROVE stream'[i][k] = stream[i][k]
      <4>1. k - 1 \in SeqNos(i) /\ (k - 1) + 1 = k
        BY <1>1, SMT
      <4>2. PICK r \in events : r.id = i /\ r.seq_no = k - 1
        BY <4>1 DEF SeqNos
      <4>3. r \in events'
        BY <2>1
      <4>4. stream[i][r.seq_no + 1] = r.event
        BY <4>2, <2>0, <1>1 DEF StreamIs
      <4>5. stream'[i][r.seq_no + 1] = r.event
        BY <4>2, <4>3, <2>0, <1>1 DEF StreamIs
      <4>6. QED
        BY <4>1, <4>2, <4>4, <4>5
    <3>5. ASSUME NEW k \in 1 .. Len(es) PROVE stream'[i][nx + k] = es[k]
      <4>1. Row(i, nx + k - 1, es[k]) \in events'
        BY <2>1, <3>1
      <4>2. (nx + k - 1) + 1 = nx + k
        BY <1>1, SMT
      <4>3. QED
        BY <4>1, <4>2, <2>0, <1>1 DEF StreamIs, Row
    <3>6. stream'[i] = stream[i] \o es
      <4>0. PICK s, t : s = stream'[i] /\ t = stream[i]
        OBVIOUS
      <4>1. /\ s \in Seq(Event) /\ t \in Seq(Event) /\ Len(t) = nx /\ Len(s) = nx + Len(es)
            /\ \A k \in 1 .. nx : s[k] = t[k]
            /\ \A k \in 1 .. Len(es) : s[nx + k] = es[k]
        BY <4>0, <3>3, <3>4, <3>5, <1>2
      <4>2. s = t \o es
        BY <4>1, <1>1, ConcatIs
      <4>3. QED
        BY <4>0, <4>2
    <3>7. QED
      BY <2>2, <3>6
  <2>3. CASE j # i
    <3>1. SeqNos(j)' = SeqNos(j)
      BY <2>3, <1>1
    <3>2. NextSeqNo(j)' = NextSeqNo(j)
      BY <3>1 DEF NextSeqNo
    <3>3. \A m : {r \in events' : r.id = j /\ r.seq_no = m} = {r \in events : r.id = j /\ r.seq_no = m}
      BY <2>1, <2>3, SMT DEF Row
    <3>4. ASSUME NEW k \in 1 .. NextSeqNo(j) PROVE stream'[j][k] = stream[j][k]
      <4>1. k - 1 \in SeqNos(j) /\ (k - 1) + 1 = k
        BY <2>0, SMT DEF StreamIs
      <4>2. PICK r \in events : r.id = j /\ r.seq_no = k - 1
        BY <4>1 DEF SeqNos
      <4>3. r \in events'
        BY <2>1
      <4>4. QED
        BY <4>1, <4>2, <4>3, <2>0 DEF StreamIs
    <3>5. QED
      BY <3>2, <3>4, <2>3 DEF stream, Stream
  <2>4. QED
    BY <2>2, <2>3
<1>4. stream' = [stream EXCEPT ![i] = @ \o es]
  BY <1>1, <1>3 DEF stream
<1>5. ES!Executed(c, "append", "ok") /\ snapshot' = snapshot /\ result' = result
  BY SameSnapshot DEF Commit, Finish, Inserted, Inv, Running, ES!Executed
<1>6. QED
  BY <1>0, <1>1, <1>2, <1>4, <1>5 DEF ES!AppendOk, stream, snapshot

(* A page is the one of the stream.                                        *)
LEMMA PageIs ==
    ASSUME Inv, NEW i \in Ids, NEW from \in Nat, NEW limit \in Nat
    PROVE  Page(i, from, limit) = ES!Page(stream[i], from, limit)
<1> DEFINE n == NextSeqNo(i)
<1>1. /\ n \in Nat /\ SeqNos(i) = 0 .. n - 1 /\ Len(stream[i]) = n
      /\ \A r \in events : r.id = i => stream[i][r.seq_no + 1] = r.event
  BY StreamLen DEF StreamIs
<1> HIDE DEF n
<1>2. ASSUME NEW m \in 0 .. n - 1, m >= from
      PROVE  Cardinality({k \in SeqNos(i) : from <= k /\ k < m}) < limit <=> m < from + limit
  <2>1. {k \in SeqNos(i) : from <= k /\ k < m} = from .. m - 1
    BY <1>1, SMT
  <2>2. Cardinality(from .. m - 1) = m - from
    <3>1. CASE from > m - 1
      <4>1. Cardinality(from .. m - 1) = 0
        BY <3>1, <1>1, FS_Interval, SMT
      <4>2. QED
        BY <4>1, <3>1, <1>2, <1>1, SMT
    <3>2. CASE ~ (from > m - 1)
      <4>1. Cardinality(from .. m - 1) = (m - 1) - from + 1
        BY <3>2, <1>1, FS_Interval, SMT
      <4>2. QED
        BY <4>1, <1>1, SMT
    <3>3. QED
      BY <3>1, <3>2
  <2>3. Cardinality({k \in SeqNos(i) : from <= k /\ k < m}) = m - from
    BY <2>1, <2>2
  <2>4. m - from < limit <=> m < from + limit
    BY <1>1, SMT
  <2>5. QED
    BY <2>3, <2>4
<1>3. \A r \in events : r.id = i => r.seq_no \in 0 .. n - 1
  BY <1>1 DEF SeqNos
<1>4. \A m \in 0 .. n - 1 : \E r \in events : r.id = i /\ r.seq_no = m
  BY <1>1 DEF SeqNos
<1>5. ASSUME NEW p \in Page(i, from, limit)
      PROVE  p \in ES!Page(stream[i], from, limit)
  <2>1. PICK r \in events :
          /\ r.id = i /\ r.seq_no >= from
          /\ Cardinality({k \in SeqNos(i) : from <= k /\ k < r.seq_no}) < limit
          /\ p = [seq_no |-> r.seq_no, event |-> r.event]
    BY <1>5 DEF Page
  <2>2. r.seq_no \in 0 .. n - 1 /\ stream[i][r.seq_no + 1] = r.event
    BY <2>1, <1>1, <1>3
  <2>3. r.seq_no \in from .. from + limit - 1 /\ r.seq_no < Len(stream[i])
    BY <2>1, <2>2, <1>1, <1>2, SMT
  <2>4. QED
    BY <2>1, <2>2, <2>3 DEF ES!Page, ES!StoredEvent
<1>6. ASSUME NEW p \in ES!Page(stream[i], from, limit)
      PROVE  p \in Page(i, from, limit)
  <2>1. PICK m \in from .. from + limit - 1 :
          m < Len(stream[i]) /\ p = [seq_no |-> m, event |-> stream[i][m + 1]]
    BY <1>6 DEF ES!Page, ES!StoredEvent
  <2>2. m \in 0 .. n - 1 /\ m >= from /\ m < from + limit
    BY <2>1, <1>1, SMT
  <2>3. PICK r \in events : r.id = i /\ r.seq_no = m
    BY <2>2, <1>4
  <2>4. p = [seq_no |-> r.seq_no, event |-> r.event]
    BY <2>1, <2>3, <1>1
  <2>5. Cardinality({k \in SeqNos(i) : from <= k /\ k < r.seq_no}) < limit
    BY <2>2, <2>3, <1>2
  <2>6. QED
    BY <2>2, <2>3, <2>4, <2>5 DEF Page
<1>7. QED
  BY <1>5, <1>6

(* A statement that ends is the execution of the call.                     *)
LEMMA FinishRefines ==
    ASSUME Inv, NEW c \in Calls, NEW o, outcome[c] = "pending", Finish(c, o)
    PROVE  ES!Executed(c, call[c].op, o) /\ call[c] \in ES!Request
BY DEF Finish, ES!Executed, Inv, Called

LEMMA NextRefines == Inv /\ [Next]_vars => [ES!Next]_ES!vars
<1> SUFFICES ASSUME Inv, [Next]_vars PROVE ES!Next \/ UNCHANGED ES!vars
  BY DEF ES!vars
<1> USE DEF stream, snapshot
<1>s. events' = events => stream' = stream
  BY SameStream
<1>t. snapshots' = snapshots => snapshot' = snapshot
  BY SameSnapshot
<1> HIDE DEF stream, snapshot
<1>1. CASE UNCHANGED vars
  BY <1>1, <1>s, <1>t DEF vars, ES!vars, stream, snapshot
<1>2. ASSUME NEW c \in Calls, NEW r \in Requests(c), Request(c, r)
      PROVE  ES!Call(c) \/ ES!Refused(c)
  <2>1. r \in ES!Request /\ stream' = stream /\ snapshot' = snapshot
    BY <1>2, <1>s, <1>t, RequestType DEF Request
  <2>2. ES!Request_(c)
    BY <1>2, <2>1 DEF Request, ES!Request_, Inv, TypeOK
  <2>3. CASE InBigint(r)
    BY <1>2, <2>1, <2>2, <2>3 DEF Request, ES!Call, stream, snapshot, Inv, TypeOK
  <2>4. CASE ~ InBigint(r)
    BY <1>2, <2>1, <2>2, <2>4 DEF Request, ES!Refused, stream, snapshot
  <2>5. QED
    BY <2>3, <2>4
<1>3. ASSUME NEW c \in Calls, Answer(c) PROVE ES!Answer(c)
  BY <1>3, <1>s, <1>t DEF Answer, ES!Answer, stream, snapshot
<1>4. ASSUME NEW c \in Calls, ConnectionLost(c) PROVE ES!Lose(c)
  BY <1>4, <1>s, <1>t DEF ConnectionLost, ES!Lose, stream, snapshot
<1>5. ASSUME NEW c \in Calls, EmptyAppend(c) PROVE ES!AppendOk(c) \/ ES!AppendConflict(c)
  <2>0. PICK i, nx : i = call[c].id /\ nx = call[c].next
    OBVIOUS
  <2>1. /\ call[c].op = "append" /\ call[c].events = <<>> /\ i \in Ids
        /\ stream' = stream /\ snapshot' = snapshot /\ result' = result
    BY <1>5, <2>0, <1>s, <1>t, RequestFields DEF EmptyAppend, Evaluates, Inv, Called
  <2>2. Len(stream[i]) = NextSeqNo(i) /\ stream[i] \in Seq(Event)
    BY <2>1, StreamLen DEF StreamIs
  <2>3. CASE NextSeqNo(i) = nx
    <3>1. ES!Executed(c, "append", "ok")
      BY <1>5, <2>0, <2>1, <2>3, FinishRefines DEF EmptyAppend, Evaluates
    <3>2. [stream EXCEPT ![i] = @ \o <<>>] = stream
      BY <2>1, <2>2, SMT DEF stream
    <3>3. QED
      BY <3>1, <3>2, <2>0, <2>1, <2>2, <2>3 DEF ES!AppendOk, stream, snapshot
  <2>4. CASE NextSeqNo(i) # nx
    <3>1. ES!Executed(c, "append", "conflict")
      BY <1>5, <2>0, <2>1, <2>4, FinishRefines DEF EmptyAppend, Evaluates
    <3>2. QED
      BY <3>1, <2>0, <2>1, <2>2, <2>4 DEF ES!AppendConflict, stream, snapshot
  <2>5. QED
    BY <2>3, <2>4
<1>6. ASSUME NEW c \in Calls, ConditionFalse(c) PROVE ES!AppendConflict(c)
  <2>0. PICK i : i = call[c].id
    OBVIOUS
  <2>1. /\ call[c].op = "append" /\ i \in Ids /\ NextSeqNo(i) # call[c].next
        /\ stream' = stream /\ snapshot' = snapshot /\ result' = result
    BY <1>6, <2>0, <1>s, <1>t, RequestFields DEF ConditionFalse, Evaluates, Inv, Called
  <2>2. Len(stream[i]) = NextSeqNo(i)
    BY <2>1, StreamLen DEF StreamIs
  <2>3. ES!Executed(c, "append", "conflict")
    BY <1>6, <2>1, FinishRefines, NoneInserted DEF ConditionFalse, Evaluates
  <2>4. QED
    BY <2>0, <2>1, <2>2, <2>3 DEF ES!AppendConflict, stream, snapshot
<1>7. ASSUME NEW c \in Calls, ConditionTrue(c) \/ InsertRow(c) PROVE UNCHANGED ES!vars
  BY <1>7, <1>s, <1>t DEF ConditionTrue, InsertRow, ES!vars, stream, snapshot
<1>8. ASSUME NEW c \in Calls, UniqueViolation(c) PROVE ES!AppendConflict(c)
  <2>0. PICK i, nx : i = call[c].id /\ nx = call[c].next
    OBVIOUS
  <2>1. outcome[c] = "pending" /\ call[c].op = "append" /\ call[c] \in ES!Request
    BY <1>8 DEF UniqueViolation, Inv, Running, Called
  <2>2. /\ i \in Ids /\ nx \in Nat /\ inserted[c] \in Nat /\ nx + inserted[c] \in SeqNos(i)
        /\ stream' = stream /\ snapshot' = snapshot /\ result' = result
    BY <1>8, <2>0, <2>1, <1>s, <1>t, RequestFields DEF UniqueViolation, Inserts, Inv, TypeOK
  <2>3. NextSeqNo(i) \in Nat /\ SeqNos(i) = 0 .. NextSeqNo(i) - 1 /\ Len(stream[i]) = NextSeqNo(i)
    BY <2>2, StreamLen DEF StreamIs
  <2>4. Len(stream[i]) # nx
    BY <2>2, <2>3, SMT
  <2>5. ES!Executed(c, "append", "conflict")
    BY <1>8, <2>1, FinishRefines DEF UniqueViolation
  <2>6. QED
    BY <2>0, <2>2, <2>4, <2>5 DEF ES!AppendConflict, stream, snapshot
<1>9. ASSUME NEW c \in Calls, Commit(c) PROVE ES!AppendOk(c)
  BY <1>9, CommitRefines
<1>10. ASSUME NEW c \in Calls, StatementFails(c) PROVE ES!Fail(c)
  <2>1. ES!Executed(c, call[c].op, "error")
    BY <1>10, FinishRefines DEF StatementFails
  <2>2. QED
    BY <1>10, <2>1, <1>s, <1>t DEF StatementFails, ES!Fail, stream, snapshot
<1>11. ASSUME NEW c \in Calls, Read(c) PROVE ES!Read(c)
  <2>0. PICK i, nx, l : i = call[c].id /\ nx = call[c].next /\ l = call[c].limit
    OBVIOUS
  <2>1. ES!Executed(c, "read", "ok") /\ call[c] \in ES!Request
    BY <1>11, FinishRefines DEF Read, Executes
  <2>2. i \in Ids /\ nx \in Nat /\ l \in Nat
    BY <2>0, <2>1, RequestFields
  <2>3. Page(i, nx, l) = ES!Page(stream[i], nx, l)
    BY <2>2, PageIs
  <2>4. QED
    BY <1>11, <2>0, <2>1, <2>3, <1>s, <1>t DEF Read, ES!Read, stream, snapshot
<1>12. ASSUME NEW c \in Calls, Save(c) PROVE ES!Save(c)
  <2>0. PICK i, nx, ts : i = call[c].id /\ nx = call[c].next /\ ts = call[c].states
    OBVIOUS
  <2>1. ES!Executed(c, "save", "ok") /\ call[c] \in ES!Request
    BY <1>12, FinishRefines DEF Save, Executes
  <2>2. i \in Ids
    BY <2>0, <2>1, RequestFields
  <2>3. /\ stream' = stream /\ result' = result
        /\ snapshots' = {s \in snapshots : s.id # i}
                          \cup {[id |-> i, next |-> nx, state |-> t] : t \in ts}
    BY <1>12, <2>0, <1>s DEF Save
  <2>4. Snapshot(i)' = {[next |-> nx, state |-> t] : t \in ts}
    <3>1. {s \in snapshots' : s.id = i} = {[id |-> i, next |-> nx, state |-> t] : t \in ts}
      BY <2>3, SMT
    <3>2. Snapshot(i)' = {[next |-> s.next, state |-> s.state] : s \in {s \in snapshots' : s.id = i}}
      BY DEF Snapshot
    <3>3. ASSUME NEW x \in Snapshot(i)' PROVE \E t \in ts : x = [next |-> nx, state |-> t]
      BY <3>1, <3>2, SMT
    <3>4. ASSUME NEW t \in ts PROVE [next |-> nx, state |-> t] \in Snapshot(i)'
      <4>1. [id |-> i, next |-> nx, state |-> t] \in {s \in snapshots' : s.id = i}
        BY <3>1
      <4>2. QED
        BY <4>1, <3>2, SMT
    <3>5. QED
      BY <3>3, <3>4
  <2>5. ASSUME NEW j \in Ids, j # i PROVE Snapshot(j)' = Snapshot(j)
    <3>1. {s \in snapshots' : s.id = j} = {s \in snapshots : s.id = j}
      BY <2>3, <2>5, SMT
    <3>2. QED
      BY <3>1 DEF Snapshot
  <2>6. snapshot' = [snapshot EXCEPT ![i] = {ES!StoredSnapshot(nx, t) : t \in ts}]
    BY <2>2, <2>4, <2>5 DEF snapshot, ES!StoredSnapshot
  <2>7. snapshot' = [snapshot EXCEPT ![call[c].id] =
                       {ES!StoredSnapshot(call[c].next, t) : t \in call[c].states}]
    BY <2>0, <2>6
  <2>8. UNCHANGED <<stream, result>>
    BY <2>3
  <2>9. QED
    BY <2>1, <2>7, <2>8, Zenon DEF ES!Save, stream, snapshot
<1>13. ASSUME NEW c \in Calls, Load(c) PROVE ES!Load(c)
  <2>1. ES!Executed(c, "load", "ok") /\ call[c] \in ES!Request
    BY <1>13, FinishRefines DEF Load, Executes
  <2>2. call[c].id \in Ids
    BY <2>1, RequestFields
  <2>3. QED
    BY <1>13, <2>1, <2>2, <1>s, <1>t DEF Load, ES!Load, stream, snapshot
<1>14. QED
  BY <1>1, <1>2, <1>3, <1>4, <1>5, <1>6, <1>7, <1>8, <1>9, <1>10, <1>11, <1>12, <1>13
  DEF Next, ES!Next

----------------------------------------------------------------------------
(* The inductive invariant: the rows of each id are numbered without gaps, *)
(* a statement that is inserting started at their end or below, and no two *)
(* statements hold one key.                                                *)
THEOREM InvHolds == Spec => []Inv
BY InitInv, NextInv, PTL DEF Spec

(* However the statements of concurrent appends, reads and saves           *)
(* interleave, PostgresStore keeps the contract of the EventStore and      *)
(* SnapshotStore traits.                                                   *)
THEOREM PostgresImplements == Spec => Implements
<1>1. Init => ES!Init
  BY InitRefines
<1>2. Inv /\ [Next]_vars => [ES!Next]_ES!vars
  BY NextRefines
<1>3. QED
  BY <1>1, <1>2, InvHolds, PTL DEF Spec, Implements, ES!Spec

(* The sequence numbers of each stream are gapless, start at 0 and are not *)
(* used twice.                                                             *)
THEOREM PostgresGapless == Spec => []Gapless
<1>1. Inv => Gapless
  BY DenseNext DEF Inv, PrimaryKey, Gapless
<1>2. QED
  BY <1>1, InvHolds, PTL

(* What append answers is true of the events table: Ok of every event of   *)
(* the call, Conflict of none.                                             *)
THEOREM PostgresAcknowledged == Spec => []Acknowledged
<1>1. Inv => Acknowledged
  <2>1. SUFFICES ASSUME Inv, NEW c \in Calls, call[c].op = "append"
                 PROVE  /\ answer[c] = "ok" =>
                             \A k \in DOMAIN call[c].events :
                               Row(call[c].id, call[c].next + k - 1, call[c].events[k]) \in events
                        /\ answer[c] = "conflict" => \A r \in events : r.event[1] # c
    BY DEF Acknowledged
  <2>2. QED
    BY <2>1 DEF Inv, Owned
<1>2. QED
  BY <1>1, InvHolds, PTL
=============================================================================
