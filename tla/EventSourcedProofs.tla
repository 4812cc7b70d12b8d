------------------------- MODULE EventSourcedProofs -------------------------
(***************************************************************************)
(* The event stream is serializable and everything an incarnation holds,   *)
(* saves or shows is a prefix of it, for any number of incarnations,       *)
(* commands, batches and failures, and any page size.                      *)
(***************************************************************************)
EXTENDS EventSourced, TLAPS

USE Zenon

(* What incarnation i holds: a prefix of the stream; while it settles a    *)
(* command, the state that command was decided on, and its events once     *)
(* they are known to be stored.                                            *)
Holds(l, st, nx, from, e, a, stream, cmds) ==
    /\ IsPrefix(st, stream)
    /\ nx = Len(st)
    /\ from <= Len(stream)
    /\ l \in {"ready", "appending", "continuing", "saving"} => nx >= from
    /\ l \in {"appending", "continuing"} =>
         /\ e.cmd \in 1 .. Len(cmds)
         /\ cmds[e.cmd].n = e.n
    /\ l = "appending" => st = cmds[e.cmd].on
    /\ l = "continuing" => st = cmds[e.cmd].on \o Events(e)
    /\ a # "none" => l = "appending"
    /\ a = "ok" => IsPrefix(st \o Events(e), stream)

IncarnationInv(i) ==
    Holds(pc[i], state[i], next[i], since[i], effect[i], answer[i], log, decided)

(* An append still under way is that of a command decided earlier, for the *)
(* end of the state the command was decided on.                            *)
RequestInv(r) ==
    /\ r.cmd \in 1 .. Len(decided)
    /\ decided[r.cmd].n = r.n
    /\ Len(decided[r.cmd].on) = r.next

(* Commands are decided on prefixes, and what is stored or shown is theirs *)
HistoryInv ==
    /\ \A c \in 1 .. Len(decided) : IsPrefix(decided[c].on, log)
    /\ \A k \in 1 .. Len(log) : log[k].cmd \in 1 .. Len(decided)
    /\ \A c \in continued : c.cmd \in 1 .. Len(decided)

(* Serializable for the event at k of the stream s, of a command decided   *)
(* as d.                                                                   *)
SerializableAt(s, k, d) ==
    /\ k = Len(d.on) + s[k].n
    /\ IsPrefix(d.on, s)
    /\ Len(d.on) + d.n <= Len(s)
    /\ \A m \in 1 .. d.n : s[Len(d.on) + m] = [cmd |-> s[k].cmd, n |-> m]

(* ContinuedDurable for c, of a command decided as d.                      *)
DurableAt(c, s, d) ==
    /\ IsPrefix(c.saw, s)
    /\ IsPrefix(d.on, c.saw)
    /\ Len(c.saw) = Len(d.on) + d.n
    /\ \A m \in 1 .. d.n : c.saw[Len(d.on) + m] = [cmd |-> c.cmd, n |-> m]

Inv ==
    /\ TypeOK /\ HistoryInv
    /\ Serializable /\ ContinuedDurable /\ SnapshotIsPrefix
    /\ \A r \in appends : RequestInv(r)
    /\ \A i \in Incarnations : IncarnationInv(i)

----------------------------------------------------------------------------
(* Prefixes.                                                               *)

LEMMA EventsType ==
    ASSUME NEW e, e.cmd \in Command, e.n \in 0 .. MaxBatch
    PROVE  Events(e) \in State /\ Len(Events(e)) = e.n
             /\ \A k \in 1 .. e.n : Events(e)[k] = [cmd |-> e.cmd, n |-> k]
<1>1. PICK c \in Command, m \in 0 .. MaxBatch : c = e.cmd /\ m = e.n
  OBVIOUS
<1>2. PICK u : u = [k \in 1 .. m |-> [cmd |-> c, n |-> k]]
  OBVIOUS
<1>3. Events(e) = u
  BY <1>1, <1>2 DEF Events
<1>4. m \in Nat /\ \A k \in 1 .. m : [cmd |-> c, n |-> k] \in Event
  BY LimitsAssumption, SMT DEF Event
<1>5. u \in State /\ Len(u) = m /\ \A k \in 1 .. m : u[k] = [cmd |-> c, n |-> k]
  BY <1>2, <1>4, SMT DEF State
<1>6. QED
  BY <1>1, <1>3, <1>5

LEMMA EventFields ==
    ASSUME NEW c, NEW m, NEW e, e = [cmd |-> c, n |-> m]
    PROVE  e.cmd = c /\ e.n = m
OBVIOUS

LEMMA AppendParts ==
    ASSUME NEW R, NEW s \in Seq(R), NEW x \in R
    PROVE  /\ Len(s) \in Nat /\ Append(s, x) \in Seq(R) /\ Len(Append(s, x)) = Len(s) + 1
           /\ Append(s, x)[Len(s) + 1] = x
           /\ \A k \in 1 .. Len(s) : Append(s, x)[k] = s[k]
BY SMT

LEMMA PrefixExtends ==
    ASSUME NEW s \in State, NEW t \in State, NEW u \in State, IsPrefix(s, t)
    PROVE  IsPrefix(s, t \o u)
BY SMT DEF IsPrefix, State

LEMMA EmptyPrefix ==
    ASSUME NEW t \in State
    PROVE  <<>> \in State /\ Len(<<>>) = 0 /\ IsPrefix(<<>>, t)
BY SMT DEF IsPrefix, State

LEMMA ConcatIsPrefix ==
    ASSUME NEW s \in State, NEW t \in State, NEW u \in State, IsPrefix(s, t), Len(s) = Len(t)
    PROVE  IsPrefix(s \o u, t \o u)
BY SMT DEF IsPrefix, State

LEMMA ConcatParts ==
    ASSUME NEW s \in State, NEW u \in State
    PROVE  /\ s \o u \in State /\ Len(s \o u) = Len(s) + Len(u) /\ IsPrefix(s, s \o u)
           /\ \A m \in 1 .. Len(u) : (s \o u)[Len(s) + m] = u[m]
BY SMT DEF IsPrefix, State

LEMMA PageExtends ==
    ASSUME log \in State, NEW s \in State, IsPrefix(s, log)
    PROVE  LET page == Page(Len(s))
           IN  /\ page \in State /\ s \o page \in State
               /\ IsPrefix(s \o page, log) /\ Len(s \o page) = Len(s) + Len(page)
               /\ LastPage(page) => Len(s) + Len(page) = Len(log)
<1> DEFINE from == Len(s)
           size == IF Len(log) - from < REPLAY_PAGE THEN Len(log) - from ELSE REPLAY_PAGE
           page == Page(from)
<1>1. from \in Nat /\ Len(log) \in Nat /\ from <= Len(log) /\ size \in 0 .. Len(log) - from
  BY PageAssumption, SMT DEF State, IsPrefix
<1>2. page = [k \in 1 .. size |-> log[from + k]]
  BY DEF Page
<1>3. \A k \in 1 .. size : from + k \in 1 .. Len(log) /\ log[from + k] \in Event
  BY <1>1, SMT DEF State
<1> HIDE DEF size, page, from
<1>4. page \in State /\ Len(page) = size /\ \A k \in 1 .. size : page[k] = log[from + k]
  BY <1>1, <1>2, <1>3, SMT DEF State
<1>5. s \o page \in State /\ Len(s \o page) = from + size
  BY <1>4, SMT DEF State, from
<1>6. \A k \in 1 .. from + size : (s \o page)[k] = log[k]
  <2> SUFFICES ASSUME NEW k \in 1 .. from + size PROVE (s \o page)[k] = log[k]
    OBVIOUS
  <2>1. CASE k <= from
    <3>1. k \in 1 .. Len(s) /\ (s \o page)[k] = s[k]
      BY <2>1, <1>1, <1>4, SMT DEF State, from
    <3>2. s[k] = log[k]
      BY <3>1 DEF IsPrefix
    <3>3. QED
      BY <3>1, <3>2
  <2>2. CASE k > from
    <3>1. k - from \in 1 .. size /\ (s \o page)[k] = page[k - from] /\ from + (k - from) = k
      BY <2>2, <1>1, <1>4, SMT DEF State, from
    <3>2. QED
      BY <3>1, <1>4
  <2>3. k <= from \/ k > from
    BY <1>1, SMT
  <2>4. QED
    BY <2>1, <2>2, <2>3
<1>7. IsPrefix(s \o page, log)
  BY <1>1, <1>5, <1>6, SMT DEF IsPrefix
<1>8. LastPage(page) => from + Len(page) = Len(log)
  BY <1>1, <1>4, PageAssumption, SMT DEF LastPage, size
<1>9. QED
  BY <1>4, <1>5, <1>7, <1>8 DEF page, from

LEMMA DecidedType ==
    ASSUME TypeOK, NEW c \in 1 .. Len(decided)
    PROVE  c \in Command /\ decided[c].on \in State /\ decided[c].n \in 0 .. MaxBatch
<1> DEFINE R == [on : State, n : 0 .. MaxBatch]
<1>1. decided \in Seq(R) /\ Len(decided) <= MaxCommands
  BY DEF TypeOK
<1> HIDE DEF R
<1>2. decided[c] \in R /\ c \in Command
  BY <1>1, LimitsAssumption, SMT DEF Command
<1>3. QED
  BY <1>2 DEF R

LEMMA SerializableEverywhere ==
    Serializable <=> \A k \in 1 .. Len(log) : SerializableAt(log, k, decided[log[k].cmd])
BY DEF Serializable, SerializableAt

LEMMA DurableEverywhere ==
    ContinuedDurable <=> \A c \in continued : DurableAt(c, log, decided[c.cmd])
BY DEF ContinuedDurable, DurableAt

(* Who holds nothing.                                                      *)
LEMMA EmptyHolds ==
    ASSUME NEW l \in {"down", "failed"}, NEW stream \in State, NEW from \in Nat,
           from <= Len(stream), NEW e, NEW cmds
    PROVE  Holds(l, <<>>, 0, from, e, "none", stream, cmds)
BY EmptyPrefix DEF Holds

(* What is stored and decided stays.                                       *)
LEMMA StoredKept ==
    ASSUME Inv, UNCHANGED <<log, decided, continued>>
    PROVE  HistoryInv' /\ Serializable' /\ ContinuedDurable'
<1>1. HistoryInv'
  BY DEF Inv, HistoryInv
<1>2. Serializable'
  <2>1. \A k \in 1 .. Len(log) : SerializableAt(log, k, decided[log[k].cmd])
    BY SerializableEverywhere DEF Inv
  <2>2. \A k \in 1 .. Len(log') : SerializableAt(log', k, decided'[log'[k].cmd])
    BY <2>1
  <2>3. QED
    BY <2>2 DEF Serializable, SerializableAt
<1>3. ContinuedDurable'
  <2>1. \A c \in continued : DurableAt(c, log, decided[c.cmd])
    BY DurableEverywhere DEF Inv
  <2>2. \A c \in continued' : DurableAt(c, log', decided'[c.cmd])
    BY <2>1
  <2>3. QED
    BY <2>2 DEF ContinuedDurable, DurableAt
<1>4. QED
  BY <1>1, <1>2, <1>3

----------------------------------------------------------------------------
LEMMA InitInv == Init => Inv
<1> SUFFICES ASSUME Init PROVE Inv
  OBVIOUS
<1>1. TypeOK
  BY LimitsAssumption, SMT DEF Init, TypeOK, State, PC, NoEffect, Effect
<1>2. HistoryInv /\ Serializable /\ ContinuedDurable /\ SnapshotIsPrefix
  BY SMT DEF Init, HistoryInv, Serializable, ContinuedDurable, SnapshotIsPrefix
<1>3. ASSUME NEW i \in Incarnations PROVE IncarnationInv(i)
  <2>1. /\ state[i] = <<>> /\ next[i] = 0 /\ since[i] = 0 /\ pc[i] = "down"
        /\ answer[i] = "none" /\ log = <<>>
    BY DEF Init
  <2>2. QED
    <3>1. <<>> \in State /\ 0 <= Len(<<>>)
      BY SMT DEF State
    <3>2. Holds("down", <<>>, 0, 0, effect[i], "none", <<>>, decided)
      BY <3>1, EmptyHolds
    <3>3. QED
      BY <2>1, <3>2 DEF IncarnationInv
<1>4. QED
  BY <1>1, <1>2, <1>3 DEF Inv, Init

(* A step of one incarnation that touches no store and decides nothing     *)
(* only has to keep what that incarnation holds.                           *)
LEMMA LocalStep ==
    ASSUME Inv, NEW i \in Incarnations, TypeOK', IncarnationInv(i)',
           UNCHANGED <<storeVars, decided, continued>>,
           \A j \in Incarnations \ {i} :
             /\ pc'[j] = pc[j] /\ state'[j] = state[j] /\ next'[j] = next[j]
             /\ effect'[j] = effect[j] /\ answer'[j] = answer[j] /\ since'[j] = since[j]
    PROVE  Inv'
<1>1. UNCHANGED <<log, snapshot, saves, appends, decided, continued>>
  BY DEF storeVars
<1>2. HistoryInv' /\ Serializable' /\ ContinuedDurable'
  BY <1>1, StoredKept
<1>3. SnapshotIsPrefix'
  BY <1>1 DEF Inv, SnapshotIsPrefix
<1>4. \A r \in appends' : RequestInv(r)'
  BY <1>1 DEF Inv, RequestInv
<1>5. ASSUME NEW j \in Incarnations \ {i} PROVE IncarnationInv(j)'
  <2>1. IncarnationInv(j)
    BY DEF Inv
  <2>2. QED
    BY <1>1, <2>1 DEF IncarnationInv
<1>6. QED
  BY <1>2, <1>3, <1>4, <1>5 DEF Inv

LEMMA DropType ==
    ASSUME TypeOK, NEW i \in Incarnations, Drop(i)
    PROVE  /\ state' \in [Incarnations -> State] /\ next' \in [Incarnations -> Nat]
           /\ effect' \in [Incarnations -> Effect \cup {NoEffect}]
           /\ answer' \in [Incarnations -> {"none", "ok", "conflict"}]
           /\ state'[i] = <<>> /\ next'[i] = 0 /\ answer'[i] = "none"
           /\ \A j \in Incarnations \ {i} :
                /\ state'[j] = state[j] /\ next'[j] = next[j]
                /\ effect'[j] = effect[j] /\ answer'[j] = answer[j]
BY EmptyPrefix DEF TypeOK, Drop

(* Whoever has dropped its state holds the empty prefix.                   *)
LEMMA DropStep ==
    ASSUME Inv, NEW i \in Incarnations, Drop(i), NEW l \in {"down", "failed"}, Goto(i, l),
           UNCHANGED <<storeVars, ghostVars>>, failures' \in 0 .. MaxFailures,
           stopping' \in [Incarnations -> BOOLEAN]
    PROVE  Inv'
<1>1. TypeOK'
  BY DropType DEF Inv, TypeOK, Goto, PC, storeVars, ghostVars
<1>2. /\ pc'[i] = l
      /\ \A j \in Incarnations \ {i} : pc'[j] = pc[j]
  BY DEF Inv, TypeOK, Goto
<1>3. IncarnationInv(i)'
  <2>1. log \in State /\ since[i] \in Nat /\ IncarnationInv(i)
    BY DEF Inv, TypeOK
  <2>2. since[i] <= Len(log)
    BY <2>1 DEF IncarnationInv, Holds
  <2>3. state'[i] = <<>> /\ next'[i] = 0 /\ answer'[i] = "none"
    BY DropType DEF Inv
  <2>4. log' = log /\ since' = since
    BY DEF storeVars, ghostVars
  <2>5. Holds(l, <<>>, 0, since[i], effect'[i], "none", log, decided')
    BY <2>1, <2>2, EmptyHolds
  <2>6. QED
    BY <1>2, <2>3, <2>4, <2>5 DEF IncarnationInv
<1>4. QED
  BY <1>1, <1>2, <1>3, DropType, LocalStep DEF Inv, ghostVars

LEMMA LeaveStep ==
    ASSUME Inv, NEW i \in Incarnations, Leave(i)
    PROVE  Inv'
BY DropStep DEF Leave, Inv, TypeOK

LEMMA FailStep ==
    ASSUME Inv, NEW i \in Incarnations, Fail(i)
    PROVE  Inv'
<1>1. failures' \in 0 .. MaxFailures
  BY LimitsAssumption, SMT DEF Fail, Inv, TypeOK
<1>2. QED
  BY <1>1, DropStep DEF Fail, Inv, TypeOK

LEMMA RecoverStep ==
    ASSUME Inv, NEW i \in Incarnations, pc[i] \in {"down", "failed"}, Recover(i)
    PROVE  Inv'
<1>1. TypeOK'
  BY SMT DEF Inv, TypeOK, Recover, Goto, PC, State, storeVars, actorVars
<1>2. /\ pc'[i] = "loading" /\ since'[i] = Len(log)
      /\ \A j \in Incarnations \ {i} : pc'[j] = pc[j] /\ since'[j] = since[j]
  BY DEF Inv, TypeOK, Recover, Goto
<1>3. IncarnationInv(i)'
  <2>1. IncarnationInv(i) /\ UNCHANGED <<log, decided, state, next, effect, answer>>
    BY DEF Inv, Recover, storeVars, actorVars
  <2>2. Len(log) <= Len(log)
    BY SMT DEF Inv, TypeOK, State
  <2>3. QED
    BY <1>2, <2>1, <2>2 DEF IncarnationInv, Holds
<1>4. QED
  BY <1>1, <1>2, <1>3, LocalStep DEF Recover, actorVars

LEMMA StopByParentStep ==
    ASSUME Inv, NEW i \in Incarnations, StopByParent(i)
    PROVE  Inv'
<1>1. TypeOK'
  BY DEF Inv, TypeOK, StopByParent, storeVars, ghostVars
<1>2. IncarnationInv(i)'
  BY DEF Inv, IncarnationInv, StopByParent, storeVars, ghostVars
<1>3. QED
  BY <1>1, <1>2, LocalStep DEF StopByParent, ghostVars

LEMMA LoadSnapshotStep ==
    ASSUME Inv, NEW i \in Incarnations, LoadSnapshot(i)
    PROVE  Inv'
<1>1. /\ pc'[i] = "replaying"
      /\ \A j \in Incarnations \ {i} :
           pc'[j] = pc[j] /\ state'[j] = state[j] /\ next'[j] = next[j]
      /\ UNCHANGED <<storeVars, stopping, effect, answer, failures, ghostVars>>
  BY DEF Inv, TypeOK, LoadSnapshot, Goto
<1>2. state'[i] \in State /\ IsPrefix(state'[i], log) /\ next'[i] = Len(state'[i])
  <2>1. CASE UNCHANGED <<state, next>>
    BY <2>1 DEF Inv, TypeOK, IncarnationInv, Holds
  <2>2. ASSUME NEW s \in snapshot, state' = [state EXCEPT ![i] = s.state],
               next' = [next EXCEPT ![i] = s.next]
        PROVE  state'[i] \in State /\ IsPrefix(state'[i], log) /\ next'[i] = Len(state'[i])
    <3>1. s.state \in State
      BY DEF Inv, TypeOK, Snapshot
    <3>2. IsPrefix(s.state, log) /\ s.next = Len(s.state)
      BY DEF Inv, SnapshotIsPrefix
    <3>3. state'[i] = s.state /\ next'[i] = s.next
      BY <2>2 DEF Inv, TypeOK
    <3>4. QED
      BY <3>1, <3>2, <3>3
  <2>3. QED
    BY <2>1, <2>2 DEF LoadSnapshot
<1>3. TypeOK'
  BY <1>1 DEF Inv, TypeOK, LoadSnapshot, Goto, PC, Snapshot, storeVars, ghostVars
<1>4. answer[i] = "none"
  BY DEF Inv, IncarnationInv, Holds, LoadSnapshot
<1>5. IncarnationInv(i)'
  BY <1>1, <1>2, <1>4 DEF Inv, IncarnationInv, Holds, storeVars, ghostVars
<1>6. QED
  BY <1>1, <1>3, <1>5, LocalStep DEF ghostVars

LEMMA ReplayPageStep ==
    ASSUME Inv, NEW i \in Incarnations, ReplayPage(i)
    PROVE  Inv'
<1> DEFINE page == Page(next[i])
<1>1. log \in State /\ state[i] \in State /\ IsPrefix(state[i], log) /\ next[i] = Len(state[i])
  BY DEF Inv, TypeOK, IncarnationInv, Holds
<1>2. /\ page \in State /\ state[i] \o page \in State
      /\ IsPrefix(state[i] \o page, log) /\ Len(state[i] \o page) = next[i] + Len(page)
      /\ LastPage(page) => next[i] + Len(page) = Len(log)
  BY <1>1, PageExtends
<1>3. /\ state' = [state EXCEPT ![i] = @ \o page]
      /\ next' = [next EXCEPT ![i] = @ + Len(page)]
      /\ pc' = [pc EXCEPT ![i] = IF LastPage(page) THEN "ready" ELSE "replaying"]
      /\ pc[i] = "replaying"
      /\ UNCHANGED <<storeVars, stopping, effect, answer, failures, ghostVars>>
  BY DEF ReplayPage, Goto
<1> HIDE DEF page
<1>4. Len(page) \in Nat
  BY <1>2, SMT DEF State
<1>5. TypeOK'
  BY <1>2, <1>3, <1>4, SMT DEF Inv, TypeOK, PC, storeVars, ghostVars
<1>6. answer[i] = "none" /\ since[i] <= Len(log)
  BY <1>3 DEF Inv, IncarnationInv, Holds
<1>7. /\ state'[i] = state[i] \o page /\ next'[i] = next[i] + Len(page)
      /\ pc'[i] \in {"ready", "replaying"} /\ (pc'[i] = "ready" => LastPage(page))
      /\ \A j \in Incarnations \ {i} :
           pc'[j] = pc[j] /\ state'[j] = state[j] /\ next'[j] = next[j]
  BY <1>3 DEF Inv, TypeOK
<1>8. IncarnationInv(i)'
  BY <1>2, <1>3, <1>6, <1>7 DEF IncarnationInv, Holds, storeVars, ghostVars
<1>9. QED
  BY <1>3, <1>5, <1>7, <1>8, LocalStep DEF ghostVars

LEMMA AppendOkStep ==
    ASSUME Inv, NEW i \in Incarnations, AppendOk(i)
    PROVE  Inv'
<1> DEFINE events == Events(effect[i])
<1>1. /\ pc[i] = "appending" /\ answer[i] = "ok"
      /\ state' = [state EXCEPT ![i] = @ \o events]
      /\ next' = [next EXCEPT ![i] = @ + effect[i].n]
      /\ answer' = [answer EXCEPT ![i] = "none"]
      /\ pc' = [pc EXCEPT ![i] = "continuing"]
      /\ UNCHANGED <<storeVars, stopping, effect, failures, ghostVars>>
  BY DEF AppendOk, Advanced, Goto, Inv, TypeOK
<1>2. effect[i].cmd \in Command /\ effect[i].n \in 0 .. MaxBatch /\ state[i] \in State
  <2>1. effect[i].cmd \in 1 .. Len(decided) /\ decided[effect[i].cmd].n = effect[i].n
    BY <1>1 DEF Inv, IncarnationInv, Holds
  <2>2. effect[i].cmd \in Command /\ decided[effect[i].cmd].n \in 0 .. MaxBatch
    BY <2>1, DecidedType DEF Inv
  <2>3. QED
    BY <2>1, <2>2 DEF Inv, TypeOK
<1>3. events \in State /\ Len(events) = effect[i].n
  BY <1>2, EventsType
<1> HIDE DEF events
<1>4. PICK st \in State : st = state[i] \o events /\ Len(st) = Len(state[i]) + effect[i].n
  <2>1. PICK a \in State, u \in State : a = state[i] /\ u = events
    BY <1>2, <1>3
  <2>2. a \o u \in State /\ Len(a \o u) = Len(a) + Len(u)
    BY ConcatParts
  <2>3. QED
    BY <1>3, <2>1, <2>2
<1>5. /\ pc'[i] = "continuing" /\ answer'[i] = "none"
      /\ state'[i] = st /\ next'[i] = next[i] + effect[i].n
      /\ \A j \in Incarnations \ {i} :
           /\ pc'[j] = pc[j] /\ state'[j] = state[j]
           /\ next'[j] = next[j] /\ answer'[j] = answer[j]
  BY <1>1, <1>4 DEF Inv, TypeOK
<1>6. TypeOK'
  <2>1. state' \in [Incarnations -> State]
    BY <1>1, <1>4 DEF Inv, TypeOK
  <2>2. next' \in [Incarnations -> Nat]
    BY <1>1, <1>2, LimitsAssumption, SMT DEF Inv, TypeOK
  <2>3. answer' \in [Incarnations -> {"none", "ok", "conflict"}] /\ pc' \in [Incarnations -> PC]
    BY <1>1 DEF Inv, TypeOK, PC
  <2>4. QED
    BY <1>1, <2>1, <2>2, <2>3 DEF Inv, TypeOK, storeVars, ghostVars
<1>7. /\ effect[i].cmd \in 1 .. Len(decided) /\ decided[effect[i].cmd].n = effect[i].n
      /\ state[i] = decided[effect[i].cmd].on /\ IsPrefix(st, log)
      /\ next[i] = Len(state[i]) /\ since[i] <= Len(log) /\ next[i] >= since[i]
  BY <1>1, <1>4 DEF Inv, IncarnationInv, Holds, events
<1>8. /\ next[i] \in Nat /\ since[i] \in Nat /\ effect[i].n \in Nat
      /\ log' = log /\ decided' = decided /\ effect' = effect /\ since' = since
  BY <1>1, <1>2, LimitsAssumption, SMT DEF Inv, TypeOK, storeVars, ghostVars
<1>9. IncarnationInv(i)'
  <2>1. next'[i] = Len(state'[i]) /\ next'[i] >= since[i]
    <3>1. PICK a \in Nat, b \in Nat, c \in Nat : a = next[i] /\ b = effect[i].n /\ c = since[i]
      BY <1>8
    <3>2. a >= c /\ Len(st) = a + b
      BY <1>4, <1>7, <3>1
    <3>3. state'[i] = st /\ next'[i] = a + b
      BY <1>5, <3>1
    <3>4. a + b >= c
      BY <3>2, SMT
    <3>5. QED
      BY <3>1, <3>2, <3>3, <3>4
  <2>2. IsPrefix(state'[i], log) /\ state'[i] = decided[effect[i].cmd].on \o Events(effect[i])
    BY <1>4, <1>5, <1>7 DEF events
  <2>3. Holds("continuing", state'[i], next'[i], since[i], effect[i], "none", log, decided)
    BY <1>7, <2>1, <2>2 DEF Holds
  <2>4. QED
    BY <1>5, <1>8, <2>3 DEF IncarnationInv
<1>10. QED
  BY <1>1, <1>5, <1>6, <1>9, LocalStep DEF ghostVars

LEMMA AppendConflictStep ==
    ASSUME Inv, NEW i \in Incarnations, AppendConflict(i)
    PROVE  Inv'
BY DropStep DEF AppendConflict, Inv, TypeOK

(* The command is settled; the incarnation is ready, or stops.             *)
LEMMA SettledStep ==
    ASSUME Inv, NEW i \in Incarnations, pc[i] \in {"continuing", "saving"}, Settled(i),
           UNCHANGED <<storeVars, ghostVars>>, failures' \in 0 .. MaxFailures
    PROVE  Inv'
<1>1. CASE effect[i].stop
  <2>1. stopping' \in [Incarnations -> BOOLEAN]
    BY <1>1 DEF Settled, Inv, TypeOK
  <2>2. Drop(i) /\ Goto(i, "down")
    BY <1>1 DEF Settled
  <2>3. QED
    BY <2>1, <2>2, DropStep
<1>2. CASE ~ effect[i].stop
  <2>1. /\ pc' = [pc EXCEPT ![i] = "ready"]
        /\ effect' = [effect EXCEPT ![i] = NoEffect]
        /\ UNCHANGED <<state, next, answer, stopping>>
    BY <1>2 DEF Settled, Goto
  <2>2. TypeOK'
    BY <2>1 DEF Inv, TypeOK, PC, storeVars, ghostVars
  <2>3. /\ pc'[i] = "ready"
        /\ \A j \in Incarnations \ {i} : pc'[j] = pc[j] /\ effect'[j] = effect[j]
    BY <2>1 DEF Inv, TypeOK
  <2>4. IncarnationInv(i)
    BY DEF Inv
  <2>5. IncarnationInv(i)'
    BY <2>1, <2>3, <2>4 DEF IncarnationInv, Holds, storeVars, ghostVars
  <2>6. QED
    BY <2>1, <2>2, <2>3, <2>5, LocalStep DEF ghostVars
<1>3. QED
  BY <1>1, <1>2

LEMMA SaveStep ==
    ASSUME Inv, NEW i \in Incarnations, SaveOk(i) \/ SaveFails(i)
    PROVE  Inv'
<1>1. failures' \in 0 .. MaxFailures
  BY LimitsAssumption, SMT DEF SaveOk, SaveFails, Inv, TypeOK
<1>2. QED
  BY <1>1, SettledStep DEF SaveOk, SaveFails

(* A command is decided: what was decided before stays where it is.        *)
LEMMA HandleStep ==
    ASSUME Inv, NEW i \in Incarnations, NEW m \in 0 .. MaxBatch, NEW stop \in BOOLEAN,
           Handle(i, m, stop)
    PROVE  Inv'
<1> DEFINE cmd == Len(decided) + 1
           d == [on |-> state[i], n |-> m]
           request == [by |-> i, next |-> next[i], cmd |-> cmd, n |-> m]
<1>1. /\ pc[i] = "ready" /\ cmd <= MaxCommands
      /\ decided' = Append(decided, d)
      /\ effect' = [effect EXCEPT ![i] = [cmd |-> cmd, n |-> m, stop |-> stop]]
      /\ UNCHANGED <<log, snapshot, saves, stopping, state, next, answer, failures,
                     continued, since>>
      /\ \/ m > 0 /\ pc' = [pc EXCEPT ![i] = "appending"] /\ appends' = appends \cup {request}
         \/ m = 0 /\ pc' = [pc EXCEPT ![i] = "continuing"] /\ appends' = appends
  BY SMT DEF Handle, Appended, Goto
<1>2. /\ Len(decided) \in Nat /\ state[i] \in State /\ next[i] \in Nat
      /\ next[i] = Len(state[i]) /\ IsPrefix(state[i], log) /\ answer[i] = "none"
      /\ next[i] >= since[i] /\ since[i] <= Len(log)
  <2>1. IncarnationInv(i) /\ state[i] \in State /\ next[i] \in Nat
    BY DEF Inv, TypeOK
  <2>2. PICK R : decided \in Seq(R)
    BY DEF Inv, TypeOK
  <2>3. Len(decided) \in Nat
    BY <2>2, SMT
  <2>4. QED
    BY <1>1, <2>1, <2>3 DEF IncarnationInv, Holds
<1>3. cmd \in Command /\ cmd \in Nat /\ cmd \in 1 .. cmd
  BY <1>1, <1>2, LimitsAssumption, SMT DEF Command
<1>4. /\ decided' \in Seq([on : State, n : 0 .. MaxBatch])
      /\ Len(decided') = cmd /\ decided'[cmd] = d
      /\ \A c \in 1 .. Len(decided) : decided'[c] = decided[c]
      /\ \A c \in 1 .. cmd : c \in 1 .. Len(decided) \/ c = cmd
      /\ \A c \in 1 .. Len(decided) : c \in 1 .. cmd /\ c # cmd
  <2>1. PICK R : R = [on : State, n : 0 .. MaxBatch]
    OBVIOUS
  <2>2. decided \in Seq(R)
    BY <2>1 DEF Inv, TypeOK
  <2>3. PICK x \in R : x = d
    BY <1>2, <2>1
  <2>4. /\ Append(decided, x) \in Seq(R) /\ Len(Append(decided, x)) = cmd
        /\ Append(decided, x)[cmd] = x
        /\ \A c \in 1 .. Len(decided) : Append(decided, x)[c] = decided[c]
    BY <2>2, AppendParts, SMT
  <2>5. /\ \A c \in 1 .. cmd : c \in 1 .. Len(decided) \/ c = cmd
        /\ \A c \in 1 .. Len(decided) : c \in 1 .. cmd /\ c # cmd
    BY <1>2, SMT
  <2>6. decided' = Append(decided, x)
    BY <1>1, <2>3
  <2>7. QED
    BY <2>1, <2>3, <2>4, <2>5, <2>6
<1>5. TypeOK'
  <2>1. decided' \in Seq([on : State, n : 0 .. MaxBatch]) /\ Len(decided') <= MaxCommands
    BY <1>1, <1>4
  <2>2. effect' \in [Incarnations -> Effect \cup {NoEffect}]
    BY <1>1, <1>3 DEF Inv, TypeOK, Effect
  <2>3. m > 0 => request \in AppendRequest
    BY <1>2, <1>3, LimitsAssumption, SMT DEF AppendRequest
  <2>4. appends' \subseteq AppendRequest
    BY <1>1, <2>3 DEF Inv, TypeOK
  <2>5. pc' \in [Incarnations -> PC]
    BY <1>1 DEF Inv, TypeOK, PC
  <2>6. QED
    BY <1>1, <2>1, <2>2, <2>4, <2>5 DEF Inv, TypeOK
<1> HIDE DEF cmd, d, request
<1>6. HistoryInv'
  <2>1. ASSUME NEW c \in 1 .. Len(decided') PROVE IsPrefix(decided'[c].on, log')
    <3>1. CASE c \in 1 .. Len(decided)
      BY <1>1, <1>4, <3>1 DEF Inv, HistoryInv
    <3>2. CASE c = cmd
      <4>1. decided'[c].on = state[i]
        BY <1>4, <3>2, SMT DEF d
      <4>2. QED
        BY <1>1, <1>2, <4>1
    <3>3. QED
      BY <1>4, <3>1, <3>2
  <2>2. \A k \in 1 .. Len(log') : log'[k].cmd \in 1 .. Len(decided')
    BY <1>1, <1>4 DEF Inv, HistoryInv
  <2>3. \A c \in continued' : c.cmd \in 1 .. Len(decided')
    BY <1>1, <1>4 DEF Inv, HistoryInv
  <2>4. QED
    BY <2>1, <2>2, <2>3 DEF HistoryInv
<1>7. Serializable'
  <2>1. \A k \in 1 .. Len(log) : decided'[log[k].cmd] = decided[log[k].cmd]
    BY <1>4 DEF Inv, HistoryInv
  <2>2. log' = log /\ \A k \in 1 .. Len(log) : SerializableAt(log, k, decided[log[k].cmd])
    BY <1>1, SerializableEverywhere DEF Inv
  <2>3. \A k \in 1 .. Len(log') : SerializableAt(log', k, decided'[log'[k].cmd])
    BY <2>1, <2>2
  <2>4. QED
    BY <2>3 DEF Serializable, SerializableAt
<1>8. ContinuedDurable'
  <2>1. \A c \in continued : decided'[c.cmd] = decided[c.cmd]
    BY <1>4 DEF Inv, HistoryInv
  <2>2. /\ log' = log /\ continued' = continued
        /\ \A c \in continued : DurableAt(c, log, decided[c.cmd])
    BY <1>1, DurableEverywhere DEF Inv
  <2>3. \A c \in continued' : DurableAt(c, log', decided'[c.cmd])
    BY <2>1, <2>2
  <2>4. QED
    BY <2>3 DEF ContinuedDurable, DurableAt
<1>9. SnapshotIsPrefix'
  BY <1>1 DEF Inv, SnapshotIsPrefix
<1>10. ASSUME NEW r \in appends' PROVE RequestInv(r)'
  <2>1. CASE r \in appends
    BY <2>1, <1>4 DEF Inv, RequestInv
  <2>2. CASE r = request
    BY <2>2, <1>2, <1>3, <1>4, SMT DEF RequestInv, request, d
  <2>3. QED
    BY <1>1, <2>1, <2>2
<1>11. ASSUME NEW j \in Incarnations PROVE IncarnationInv(j)'
  <2>1. CASE j # i
    <3>1. pc'[j] = pc[j] /\ effect'[j] = effect[j]
      BY <1>1, <2>1 DEF Inv, TypeOK
    <3>2. IncarnationInv(j)
      BY DEF Inv
    <3>3. pc[j] \in {"appending", "continuing"} =>
            /\ effect[j].cmd \in 1 .. Len(decided)
            /\ effect[j].cmd \in 1 .. Len(decided')
            /\ decided'[effect[j].cmd] = decided[effect[j].cmd]
      BY <3>2, <1>4 DEF IncarnationInv, Holds
    <3>4. QED
      BY <1>1, <3>1, <3>2, <3>3 DEF IncarnationInv, Holds
  <2>2. CASE j = i
    <3>1. /\ effect'[i].cmd = cmd /\ effect'[i].n = m /\ pc'[i] \in {"appending", "continuing"}
          /\ pc'[i] = "continuing" => m = 0
      BY <1>1 DEF Inv, TypeOK
    <3>2. m = 0 => state[i] \o Events(effect'[i]) = state[i]
      <4>1. PICK st \in State : st = state[i]
        BY <1>2
      <4>2. ASSUME m = 0 PROVE Events(effect'[i]) = <<>>
        BY <3>1, <4>2, SMT DEF Events
      <4>3. st \o <<>> = st
        BY SMT DEF State
      <4>4. QED
        BY <4>1, <4>2, <4>3
    <3>3. decided'[cmd].on = state[i] /\ decided'[cmd].n = m /\ cmd \in 1 .. Len(decided')
      BY <1>3, <1>4, SMT DEF d, Command
    <3>4. QED
      BY <1>1, <1>2, <2>2, <3>1, <3>2, <3>3 DEF IncarnationInv, Holds
  <2>3. QED
    BY <2>1, <2>2
<1>12. QED
  BY <1>5, <1>6, <1>7, <1>8, <1>9, <1>10, <1>11 DEF Inv

LEMMA ContinueStep ==
    ASSUME Inv, NEW i \in Incarnations, NEW offered \in BOOLEAN, Continue(i, offered)
    PROVE  Inv'
<1> DEFINE c == [cmd |-> effect[i].cmd, saw |-> state[i]]
           e == decided[effect[i].cmd]
<1>1. /\ pc[i] = "continuing" /\ continued' = continued \cup {c}
      /\ UNCHANGED <<log, snapshot, appends, failures, decided, since>>
  BY DEF Continue
<1>2. /\ effect[i].cmd \in 1 .. Len(decided) /\ e.n = effect[i].n
      /\ state[i] = e.on \o Events(effect[i]) /\ IsPrefix(state[i], log) /\ next[i] = Len(state[i])
  BY <1>1 DEF Inv, IncarnationInv, Holds
<1>3. /\ effect[i].cmd \in Command /\ e.n \in 0 .. MaxBatch /\ e.on \in State
      /\ state[i] \in State /\ next[i] \in Nat
  <2>1. effect[i].cmd \in Command /\ e.on \in State /\ e.n \in 0 .. MaxBatch
    BY <1>2, DecidedType DEF Inv
  <2>3. state[i] \in State /\ next[i] \in Nat
    BY DEF Inv, TypeOK
  <2>4. QED
    BY <2>1, <2>3
<1>4. /\ Events(effect[i]) \in State /\ Len(Events(effect[i])) = e.n
      /\ \A k \in 1 .. e.n : Events(effect[i])[k] = [cmd |-> effect[i].cmd, n |-> k]
  BY <1>2, <1>3, EventsType
<1>5. ContinuedDurable'
  <2>0. PICK on \in State, u \in State : on = e.on /\ u = Events(effect[i])
    BY <1>3, <1>4
  <2>1. Len(state[i]) = Len(e.on) + e.n /\ IsPrefix(e.on, state[i])
    <3>1. state[i] = on \o u /\ Len(u) = e.n
      BY <1>2, <1>4, <2>0
    <3>2. Len(on \o u) = Len(on) + Len(u) /\ IsPrefix(on, on \o u)
      BY ConcatParts
    <3>3. QED
      BY <2>0, <3>1, <3>2
  <2>2. \A m \in 1 .. e.n : state[i][Len(e.on) + m] = [cmd |-> effect[i].cmd, n |-> m]
    <3>1. state[i] = on \o u /\ Len(u) = e.n
      BY <1>2, <1>4, <2>0
    <3>2. \A m \in 1 .. Len(u) : (on \o u)[Len(on) + m] = u[m]
      BY ConcatParts
    <3>3. \A m \in 1 .. e.n : u[m] = [cmd |-> effect[i].cmd, n |-> m]
      BY <1>4, <2>0
    <3>4. \A m \in 1 .. e.n : state[i][Len(on) + m] = u[m]
      BY <3>1, <3>2
    <3>5. QED
      BY <2>0, <3>3, <3>4, Zenon
  <2>3. DurableAt(c, log, e)
    BY <1>2, <2>1, <2>2 DEF DurableAt
  <2>4. \A b \in continued : DurableAt(b, log, decided[b.cmd])
    BY DurableEverywhere DEF Inv
  <2>5. \A b \in continued' : DurableAt(b, log', decided'[b.cmd])
    BY <1>1, <2>3, <2>4, SMT
  <2>6. QED
    BY <2>5 DEF ContinuedDurable, DurableAt
<1>6. continued' \subseteq [cmd : Command, saw : State]
  <2>1. c \in [cmd : Command, saw : State]
    BY <1>3
  <2>2. continued \subseteq [cmd : Command, saw : State]
    BY DEF Inv, TypeOK
  <2>3. QED
    BY <1>1, <2>1, <2>2
<1>7. HistoryInv' /\ Serializable' /\ \A r \in appends' : RequestInv(r)'
  <2>1. HistoryInv'
    <3>1. \A b \in continued' : b \in continued \/ b.cmd = effect[i].cmd
      BY <1>1, SMT
    <3>2. QED
      BY <1>1, <1>2, <3>1 DEF Inv, HistoryInv
  <2>2. Serializable'
    <3>1. \A k \in 1 .. Len(log) : SerializableAt(log, k, decided[log[k].cmd])
      BY SerializableEverywhere DEF Inv
    <3>2. \A k \in 1 .. Len(log') : SerializableAt(log', k, decided'[log'[k].cmd])
      BY <1>1, <3>1
    <3>3. QED
      BY <3>2 DEF Serializable, SerializableAt
  <2>3. \A r \in appends' : RequestInv(r)'
    BY <1>1 DEF Inv, RequestInv
  <2>4. QED
    BY <2>1, <2>2, <2>3
<1>8. CASE offered
  <2>1. saves' = saves \cup {[next |-> next[i], state |-> state[i]]}
    BY <1>8 DEF Continue, SnapshotOf
  <2>2. pc' = [pc EXCEPT ![i] = "saving"] /\ UNCHANGED actorVars
    BY <1>8 DEF Continue, Goto
  <2>3. TypeOK'
    <3>1. [next |-> next[i], state |-> state[i]] \in Snapshot
      BY <1>3 DEF Snapshot
    <3>2. saves' \subseteq Snapshot
      BY <2>1, <3>1 DEF Inv, TypeOK
    <3>3. pc' \in [Incarnations -> PC]
      BY <2>2 DEF Inv, TypeOK, PC
    <3>4. QED
      BY <1>1, <1>6, <2>2, <3>2, <3>3 DEF Inv, TypeOK, actorVars
  <2>4. SnapshotIsPrefix'
    <3>1. PICK new : new = [next |-> next[i], state |-> state[i]]
      OBVIOUS
    <3>2. IsPrefix(new.state, log) /\ new.next = Len(new.state)
      BY <1>2, <3>1
    <3>3. \A s \in snapshot' \cup saves' : s \in snapshot \cup saves \/ s = new
      BY <1>1, <2>1, <3>1
    <3>4. log' = log /\ SnapshotIsPrefix
      BY <1>1 DEF Inv
    <3>5. QED
      BY <3>2, <3>3, <3>4 DEF SnapshotIsPrefix
  <2>5. ASSUME NEW j \in Incarnations PROVE IncarnationInv(j)'
    <3>1. IncarnationInv(j) /\ (j # i => pc'[j] = pc[j]) /\ pc'[i] = "saving"
      BY <2>2 DEF Inv, TypeOK
    <3>2. UNCHANGED <<log, decided, since, state, next, effect, answer>>
      BY <1>1, <2>2 DEF actorVars
    <3>3. QED
      BY <1>1, <3>1, <3>2 DEF IncarnationInv, Holds
  <2>6. QED
    BY <1>5, <1>7, <2>3, <2>4, <2>5 DEF Inv
<1>9. CASE ~ offered /\ ~ effect[i].stop
  <2>1. /\ pc' = [pc EXCEPT ![i] = "ready"] /\ saves' = saves
        /\ effect' = [effect EXCEPT ![i] = NoEffect]
        /\ UNCHANGED <<state, next, answer, stopping>>
    BY <1>9 DEF Continue, Settled, Goto
  <2>2. TypeOK'
    BY <1>1, <1>6, <2>1 DEF Inv, TypeOK, PC
  <2>3. SnapshotIsPrefix'
    BY <1>1, <2>1 DEF Inv, SnapshotIsPrefix
  <2>4. ASSUME NEW j \in Incarnations PROVE IncarnationInv(j)'
    <3>1. /\ IncarnationInv(j) /\ pc'[i] = "ready"
          /\ j # i => pc'[j] = pc[j] /\ effect'[j] = effect[j]
      BY <2>1 DEF Inv, TypeOK
    <3>2. QED
      BY <1>1, <2>1, <3>1 DEF IncarnationInv, Holds
  <2>5. QED
    BY <1>5, <1>7, <2>2, <2>3, <2>4 DEF Inv
<1>10. CASE ~ offered /\ effect[i].stop
  <2>1. pc' = [pc EXCEPT ![i] = "down"] /\ saves' = saves /\ Drop(i)
    BY <1>10 DEF Continue, Settled, Goto
  <2>2. stopping' \in [Incarnations -> BOOLEAN]
    BY <1>10 DEF Continue, Settled, Inv, TypeOK
  <2>3. TypeOK'
    BY <1>1, <1>6, <2>1, <2>2, DropType DEF Inv, TypeOK, PC
  <2>4. SnapshotIsPrefix'
    BY <1>1, <2>1 DEF Inv, SnapshotIsPrefix
  <2>5. ASSUME NEW j \in Incarnations PROVE IncarnationInv(j)'
    <3>1. IncarnationInv(j) /\ (j # i => pc'[j] = pc[j]) /\ pc'[i] = "down"
      BY <2>1 DEF Inv, TypeOK
    <3>2. CASE j # i
      <4>1. /\ state'[j] = state[j] /\ next'[j] = next[j]
            /\ effect'[j] = effect[j] /\ answer'[j] = answer[j]
        BY <2>1, <3>2, DropType DEF Inv
      <4>2. QED
        BY <1>1, <3>1, <3>2, <4>1 DEF IncarnationInv
    <3>3. CASE j = i
      <4>1. state'[i] = <<>> /\ next'[i] = 0 /\ answer'[i] = "none"
        BY <2>1, DropType DEF Inv
      <4>2. log \in State /\ since[i] \in Nat /\ since[i] <= Len(log)
        BY <3>1, <3>3 DEF Inv, TypeOK, IncarnationInv, Holds
      <4>3. Holds("down", <<>>, 0, since[i], effect'[i], "none", log, decided)
        BY <4>2, EmptyHolds
      <4>4. QED
        BY <1>1, <3>1, <3>3, <4>1, <4>3 DEF IncarnationInv
    <3>4. QED
      BY <3>2, <3>3
  <2>6. QED
    BY <1>5, <1>7, <2>3, <2>4, <2>5 DEF Inv
<1>11. QED
  BY <1>8, <1>9, <1>10

LEMMA StoreSaveStep ==
    ASSUME Inv, NEW s \in saves, StoreSave(s)
    PROVE  Inv'
<1>1. /\ UNCHANGED <<log, appends, pc, stopping, state, next, effect, answer, failures,
                     decided, continued, since>>
      /\ saves' \subseteq saves /\ snapshot' = {s}
  BY DEF StoreSave, actorVars, ghostVars
<1>2. TypeOK'
  BY <1>1 DEF Inv, TypeOK
<1>3. HistoryInv' /\ Serializable' /\ ContinuedDurable'
  BY <1>1, StoredKept
<1>4. SnapshotIsPrefix'
  BY <1>1 DEF Inv, SnapshotIsPrefix
<1>5. \A r \in appends' : RequestInv(r)'
  BY <1>1 DEF Inv, RequestInv
<1>6. \A i \in Incarnations : IncarnationInv(i)'
  BY <1>1 DEF Inv, IncarnationInv
<1>7. QED
  BY <1>2, <1>3, <1>4, <1>5, <1>6 DEF Inv

LEMMA StoreAppendStep ==
    ASSUME Inv, NEW r \in appends, StoreAppend(r)
    PROVE  Inv'
<1> DEFINE by == r.by
<1>1. /\ appends' = appends \ {r}
      /\ log' = IF Len(log) = r.next THEN log \o Events(r) ELSE log
      /\ UNCHANGED <<snapshot, saves, pc, stopping, state, next, effect, failures, decided,
                     continued, since>>
      /\ answer' = IF pc[by] = "appending" /\ effect[by].cmd = r.cmd
                     THEN [answer EXCEPT ![by] = IF Len(log) = r.next THEN "ok" ELSE "conflict"]
                     ELSE answer
  BY DEF StoreAppend, Accepts, ghostVars
<1>2. /\ r.by \in Incarnations /\ r.next \in Nat /\ r.n \in 0 .. MaxBatch
      /\ r.cmd \in 1 .. Len(decided) /\ decided[r.cmd].n = r.n /\ Len(decided[r.cmd].on) = r.next
  <2>1. r \in AppendRequest /\ RequestInv(r)
    BY DEF Inv, TypeOK
  <2>2. r.by \in Incarnations /\ r.next \in Nat /\ r.n \in 0 .. MaxBatch
    BY <2>1, LimitsAssumption, SMT DEF AppendRequest
  <2>3. QED
    BY <2>1, <2>2 DEF RequestInv
<1>3. r.cmd \in Command /\ decided[r.cmd].on \in State /\ IsPrefix(decided[r.cmd].on, log)
  BY <1>2, DecidedType DEF Inv, HistoryInv
<1>4. PICK u \in State : /\ u = Events(r) /\ Len(u) = r.n
                          /\ \A m \in 1 .. r.n : u[m] = [cmd |-> r.cmd, n |-> m]
  BY <1>2, <1>3, EventsType
<1>5. log \in State /\ log' \in State /\ \A s \in State : IsPrefix(s, log) => IsPrefix(s, log')
  <2>1. log \in State
    BY DEF Inv, TypeOK
  <2>2. log' = log \/ log' = log \o u
    BY <1>1, <1>4
  <2>3. log \o u \in State /\ \A s \in State : IsPrefix(s, log) => IsPrefix(s, log \o u)
    BY <2>1, ConcatParts, PrefixExtends
  <2>4. QED
    BY <2>1, <2>2, <2>3
<1>6. Len(log) \in Nat /\ Len(log') \in Nat /\ Len(log') >= Len(log)
  <2>1. IsPrefix(log, log)
    BY <1>5, SMT DEF IsPrefix, State
  <2>2. IsPrefix(log, log')
    BY <1>5, <2>1
  <2>3. QED
    BY <1>5, <2>2, SMT DEF IsPrefix, State
<1>7. TypeOK'
  BY <1>1, <1>2, <1>5 DEF Inv, TypeOK
<1>8. Serializable' /\ \A k \in 1 .. Len(log') : log'[k].cmd \in 1 .. Len(decided)
  <2>1. CASE log' = log
    BY <1>1, <2>1 DEF Inv, Serializable, HistoryInv
  <2>2. CASE Len(log) = r.next /\ log' = log \o u
    <3>1. /\ Len(log') = Len(log) + r.n
          /\ \A k \in 1 .. Len(log) : log'[k] = log[k]
          /\ \A m \in 1 .. r.n : log'[Len(log) + m] = [cmd |-> r.cmd, n |-> m]
      <4>1. Len(log \o u) = Len(log) + Len(u) /\ IsPrefix(log, log \o u)
            /\ \A m \in 1 .. Len(u) : (log \o u)[Len(log) + m] = u[m]
        BY <1>5, ConcatParts
      <4>2. \A k \in 1 .. Len(log) : log'[k] = log[k]
        BY <2>2, <4>1 DEF IsPrefix
      <4>3. \A m \in 1 .. r.n : log'[Len(log) + m] = u[m]
        BY <1>4, <2>2, <4>1
      <4>4. \A m \in 1 .. r.n : log'[Len(log) + m] = [cmd |-> r.cmd, n |-> m]
        BY <1>4, <4>3, Zenon
      <4>5. QED
        BY <1>4, <2>2, <4>1, <4>2, <4>4
    <3>2. ASSUME NEW k \in 1 .. Len(log)
          PROVE  SerializableAt(log', k, decided[log'[k].cmd]) /\ log'[k].cmd \in 1 .. Len(decided)
      <4>1. PICK d : d = decided[log[k].cmd]
        OBVIOUS
      <4>2. log'[k] = log[k] /\ log[k].cmd \in 1 .. Len(decided)
        BY <3>1 DEF Inv, HistoryInv
      <4>3. SerializableAt(log, k, d) /\ d.on \in State /\ d.n \in 0 .. MaxBatch
        BY <4>1, <4>2, SerializableEverywhere, DecidedType DEF Inv
      <4>4. Len(d.on) \in Nat /\ \A m \in 1 .. d.n : Len(d.on) + m \in 1 .. Len(log)
        <5>1. Len(d.on) \in Nat /\ d.n \in Nat
          BY <4>3, LimitsAssumption, SMT DEF State
        <5>2. Len(d.on) + d.n <= Len(log)
          BY <4>3 DEF SerializableAt
        <5>3. QED
          BY <1>6, <5>1, <5>2, SMT
      <4>5. IsPrefix(d.on, log') /\ Len(d.on) + d.n <= Len(log')
        BY <4>3, <4>4, <1>5, <1>6, LimitsAssumption, SMT DEF SerializableAt
      <4>6. \A m \in 1 .. d.n : log'[Len(d.on) + m] = [cmd |-> log[k].cmd, n |-> m]
        BY <4>3, <4>4, <3>1 DEF SerializableAt
      <4>7. k = Len(d.on) + log[k].n
        BY <4>3 DEF SerializableAt
      <4>8. SerializableAt(log', k, d)
        BY <4>2, <4>5, <4>6, <4>7 DEF SerializableAt
      <4>9. QED
        BY <4>1, <4>2, <4>8
    <3>3. ASSUME NEW k \in 1 .. Len(log'), k > Len(log)
          PROVE  SerializableAt(log', k, decided[log'[k].cmd]) /\ log'[k].cmd \in 1 .. Len(decided)
      <4>1. PICK d : d = decided[r.cmd]
        OBVIOUS
      <4>2. d.n = r.n /\ Len(d.on) = Len(log) /\ IsPrefix(d.on, log') /\ d.on \in State
        BY <1>2, <1>3, <1>5, <2>2, <4>1
      <4>3. PICK m \in 1 .. r.n : k = Len(log) + m
        <5>1. k - Len(log) \in 1 .. r.n /\ k = Len(log) + (k - Len(log))
          BY <1>2, <1>6, <3>1, <3>3, SMT
        <5>2. QED
          BY <5>1
      <4>4. log'[k] = [cmd |-> r.cmd, n |-> m]
        BY <3>1, <4>3
      <4>5. log'[k].cmd = r.cmd /\ log'[k].n = m
        BY <4>4, EventFields, SMT
      <4>6. SerializableAt(log', k, d)
        <5>1. k = Len(d.on) + log'[k].n /\ Len(d.on) + d.n <= Len(log')
          BY <1>2, <1>6, <3>1, <4>2, <4>3, <4>5, SMT
        <5>2. \A q \in 1 .. d.n : log'[Len(d.on) + q] = [cmd |-> log'[k].cmd, n |-> q]
          BY <3>1, <4>2, <4>5, Zenon
        <5>3. QED
          BY <4>2, <5>1, <5>2 DEF SerializableAt
      <4>7. QED
        BY <1>2, <4>1, <4>5, <4>6
    <3>4. \A k \in 1 .. Len(log') : k \in 1 .. Len(log) \/ k > Len(log)
      BY <1>6, SMT
    <3>5. \A k \in 1 .. Len(log') : /\ SerializableAt(log', k, decided'[log'[k].cmd])
                                     /\ log'[k].cmd \in 1 .. Len(decided)
      BY <1>1, <3>2, <3>3, <3>4
    <3>6. QED
      BY <3>5 DEF Serializable, SerializableAt
  <2>3. QED
    BY <1>1, <1>4, <2>1, <2>2
<1>9. HistoryInv'
  <2>1. \A c \in 1 .. Len(decided) : IsPrefix(decided[c].on, log')
    BY <1>5, DecidedType DEF Inv, HistoryInv
  <2>2. QED
    BY <1>1, <1>8, <2>1 DEF Inv, HistoryInv
<1>10. ContinuedDurable'
  <2>1. \A c \in continued : IsPrefix(c.saw, log')
    BY <1>5 DEF Inv, TypeOK, ContinuedDurable
  <2>2. QED
    BY <1>1, <2>1 DEF Inv, ContinuedDurable
<1>11. SnapshotIsPrefix'
  <2>1. \A s \in snapshot \cup saves : IsPrefix(s.state, log')
    BY <1>5 DEF Inv, TypeOK, Snapshot, SnapshotIsPrefix
  <2>2. QED
    BY <1>1, <2>1 DEF Inv, SnapshotIsPrefix
<1>12. \A q \in appends' : RequestInv(q)'
  BY <1>1 DEF Inv, RequestInv
<1>13. ASSUME NEW i \in Incarnations PROVE IncarnationInv(i)'
  <2>1. IncarnationInv(i) /\ state[i] \in State /\ since[i] \in Nat
    BY DEF Inv, TypeOK
  <2>2. IsPrefix(state[i], log') /\ since[i] <= Len(log')
    <3>1. IsPrefix(state[i], log) /\ since[i] <= Len(log)
      BY <2>1 DEF IncarnationInv, Holds
    <3>2. IsPrefix(state[i], log')
      BY <1>5, <2>1, <3>1
    <3>3. since[i] <= Len(log')
      <4>1. PICK a \in Nat, b \in Nat, c \in Nat : a = since[i] /\ b = Len(log) /\ c = Len(log')
        BY <1>6, <2>1
      <4>2. a <= b /\ b <= c
        BY <1>6, <3>1, <4>1
      <4>3. QED
        BY <4>1, <4>2, SMT
    <3>4. QED
      BY <3>2, <3>3
  <2>3. /\ answer'[i] # "none" => pc[i] = "appending"
        /\ answer'[i] = "ok" => IsPrefix(state[i] \o Events(effect[i]), log')
    <3>1. CASE answer'[i] = answer[i]
      <4>1. answer[i] = "ok" => state[i] \o Events(effect[i]) \in State
        <5>1. SUFFICES ASSUME answer[i] = "ok" PROVE state[i] \o Events(effect[i]) \in State
          OBVIOUS
        <5>2. effect[i].cmd \in Command /\ effect[i].n \in 0 .. MaxBatch
          BY <2>1, <5>1, DecidedType DEF Inv, IncarnationInv, Holds
        <5>3. Events(effect[i]) \in State
          BY <5>2, EventsType
        <5>4. QED
          BY <2>1, <5>3, ConcatParts
      <4>2. QED
        BY <1>5, <2>1, <3>1, <4>1 DEF IncarnationInv, Holds
    <3>2. CASE answer'[i] # answer[i]
      <4>1. i = by /\ pc[i] = "appending" /\ effect[i].cmd = r.cmd
        BY <1>1, <1>2, <3>2 DEF Inv, TypeOK
      <4>2. answer'[i] = "ok" => Len(log) = r.next
        BY <1>1, <1>2, <4>1 DEF Inv, TypeOK
      <4>3. state[i] = decided[r.cmd].on /\ effect[i].n = r.n
        BY <1>2, <2>1, <4>1 DEF IncarnationInv, Holds
      <4>4. Events(effect[i]) = u
        BY <1>4, <4>1, <4>3 DEF Events
      <4>5. answer'[i] = "ok" => log' = log \o u /\ Len(state[i]) = Len(log)
        BY <1>1, <1>2, <1>4, <4>2, <4>3
      <4>6. QED
        BY <1>5, <2>1, <4>1, <4>4, <4>5, ConcatIsPrefix DEF IncarnationInv, Holds
    <3>3. QED
      BY <3>1, <3>2
  <2>4. QED
    BY <1>1, <2>1, <2>2, <2>3 DEF IncarnationInv, Holds
<1>14. QED
  BY <1>7, <1>8, <1>9, <1>10, <1>11, <1>12, <1>13 DEF Inv

----------------------------------------------------------------------------
LEMMA NextInv == Inv /\ [Next]_vars => Inv'
<1> SUFFICES ASSUME Inv, [Next]_vars PROVE Inv'
  OBVIOUS
<1>1. CASE UNCHANGED vars
  <2>1. UNCHANGED <<storeVars, pc, actorVars, failures, ghostVars>>
    BY <1>1 DEF vars
  <2>2. TypeOK'
    BY <2>1 DEF Inv, TypeOK, storeVars, actorVars, ghostVars
  <2>3. HistoryInv' /\ Serializable' /\ ContinuedDurable' /\ SnapshotIsPrefix'
    BY <2>1, StoredKept DEF Inv, SnapshotIsPrefix, storeVars, ghostVars
  <2>4. \A r \in appends' : RequestInv(r)'
    BY <2>1 DEF Inv, RequestInv, storeVars, ghostVars
  <2>5. \A i \in Incarnations : IncarnationInv(i)'
    BY <2>1 DEF Inv, IncarnationInv, storeVars, actorVars, ghostVars
  <2>6. QED
    BY <2>2, <2>3, <2>4, <2>5 DEF Inv
<1>2. CASE Stores
  BY <1>2, StoreAppendStep, StoreSaveStep DEF Stores
<1>3. ASSUME NEW i \in Incarnations, Supervision(i) PROVE Inv'
  <2>1. CASE Spawn(i) \/ Restart(i)
    BY <2>1, RecoverStep DEF Spawn, Restart
  <2>2. CASE GiveUp(i) \/ StoppedByParent(i) \/ Crash(i)
    BY <2>2, LeaveStep DEF GiveUp, StoppedByParent, Crash
  <2>3. CASE StopByParent(i)
    BY <2>3, StopByParentStep
  <2>4. QED
    BY <1>3, <2>1, <2>2, <2>3 DEF Supervision
<1>4. ASSUME NEW i \in Incarnations, Recovery(i) PROVE Inv'
  BY <1>4, LoadSnapshotStep, ReplayPageStep, FailStep DEF Recovery, RecoverFails
<1>5. ASSUME NEW i \in Incarnations, Commands(i) PROVE Inv'
  <2>1. CASE \E m \in 0 .. MaxBatch, stop \in BOOLEAN : Handle(i, m, stop)
    BY <2>1, HandleStep
  <2>2. CASE HandleFails(i) \/ AppendFails(i) \/ ContinueFails(i)
    BY <2>2, FailStep DEF HandleFails, AppendFails, ContinueFails
  <2>3. CASE AppendOk(i) \/ AppendConflict(i)
    BY <2>3, AppendOkStep, AppendConflictStep
  <2>4. CASE \E offered \in BOOLEAN : Continue(i, offered)
    BY <2>4, ContinueStep
  <2>5. CASE SaveOk(i) \/ SaveFails(i)
    BY <2>5, SaveStep
  <2>6. QED
    BY <1>5, <2>1, <2>2, <2>3, <2>4, <2>5 DEF Commands, Settle
<1>6. QED
  BY <1>1, <1>2, <1>3, <1>4, <1>5 DEF Next

(* The inductive invariant holds: each incarnation, each pending append    *)
(* and everything stored or shown is tied to the stream and to the command *)
(* it was decided for.                                                     *)
THEOREM EventSourcedInvariant == Spec => []Inv
<1>1. Init => Inv
  BY InitInv
<1>2. Inv /\ [Next]_vars => Inv'
  BY NextInv
<1>3. QED
  BY <1>1, <1>2, PTL DEF Spec

(* Whatever incarnation appends, and however late the store executes it,   *)
(* the stream is a sequence of complete batches, each directly behind the  *)
(* state it was decided on: settle and the conditional append fence.       *)
THEOREM StreamIsSerializable == Spec => []Serializable
<1>1. Inv => Serializable
  BY DEF Inv
<1>2. QED
  BY <1>1, EventSourcedInvariant, PTL

(* Every incarnation, the stale ones included, holds a prefix of the       *)
(* stream through recover, replay and settle.                              *)
THEOREM StatesArePrefixes == Spec => []StateIsPrefix
<1>1. Inv => StateIsPrefix
  BY DEF Inv, StateIsPrefix, IncarnationInv, Holds
<1>2. QED
  BY <1>1, EventSourcedInvariant, PTL

(* settle runs continuations only on events that are stored for good.      *)
THEOREM RepliesAreDurable == Spec => []ContinuedDurable
<1>1. Inv => ContinuedDurable
  BY DEF Inv
<1>2. QED
  BY <1>1, EventSourcedInvariant, PTL

(* A snapshot, however late it is saved, is the state at its number.       *)
THEOREM SnapshotsAreRight == Spec => []SnapshotIsPrefix
<1>1. Inv => SnapshotIsPrefix
  BY DEF Inv
<1>2. QED
  BY <1>1, EventSourcedInvariant, PTL

(* recover misses no event that was stored when it began, for every page   *)
(* size.                                                                   *)
THEOREM RecoveryMissesNothing == Spec => []RecoveryIsComplete
<1>1. Inv => RecoveryIsComplete
  BY DEF Inv, RecoveryIsComplete, IncarnationInv, Holds
<1>2. QED
  BY <1>1, EventSourcedInvariant, PTL

----------------------------------------------------------------------------
(* That the incarnations act as one entity.  The invariant needs a second  *)
(* part, on top of the first: a command is settled by one incarnation, its *)
(* append is under way once and not stored yet, and none of its            *)
(* continuations has run.                                                  *)

Settling(i) == pc[i] \in {"appending", "continuing"}

OnceInv ==
    /\ \A r \in appends : r.cmd \notin Stored /\ \A q \in appends : q.cmd = r.cmd => q = r
    /\ \A k \in 1 .. Len(log) : log[k].n <= decided[log[k].cmd].n
    /\ \A i \in Incarnations :
         Settling(i) =>
           /\ \A c \in continued : c.cmd # effect[i].cmd
           /\ \A j \in Incarnations : Settling(j) /\ effect[j].cmd = effect[i].cmd => j = i

LEMMA OnceQuiet ==
    ASSUME OnceInv, UNCHANGED <<log, appends, decided, continued>>,
           \A i \in Incarnations : Settling(i)' => Settling(i) /\ effect'[i] = effect[i]
    PROVE  OnceInv'
BY SMT DEF OnceInv, Stored

LEMMA OnceMove ==
    ASSUME TypeOK, OnceInv, NEW i \in Incarnations, NEW l, Goto(i, l),
           l \notin {"appending", "continuing"}, NEW x,
           effect' = effect \/ effect' = [effect EXCEPT ![i] = x],
           UNCHANGED <<log, appends, decided, continued>>
    PROVE  OnceInv'
<1>1. \A j \in Incarnations : Settling(j)' => Settling(j) /\ effect'[j] = effect[j]
  BY DEF TypeOK, Goto, Settling
<1>2. QED
  BY <1>1, OnceQuiet

(* The store executes an append: its command joins the stored ones.        *)
LEMMA StoredAfter ==
    ASSUME Inv, NEW r \in appends, StoreAppend(r), Accepts(r)
    PROVE  /\ log' = log \o Events(r) /\ log' \in State
           /\ Len(log') = Len(log) + r.n /\ Len(log) \in Nat /\ r.n \in 1 .. MaxBatch
           /\ \A k \in 1 .. Len(log) : log'[k] = log[k]
           /\ \A k \in 1 .. r.n : log'[Len(log) + k] = [cmd |-> r.cmd, n |-> k]
<1>1. r.cmd \in Command /\ r.n \in 1 .. MaxBatch /\ r.n \in 0 .. MaxBatch /\ log \in State
  BY LimitsAssumption, SMT DEF Inv, TypeOK, AppendRequest
<1>2. PICK u \in State : u = Events(r) /\ Len(u) = r.n
                         /\ \A k \in 1 .. r.n : u[k] = [cmd |-> r.cmd, n |-> k]
  BY <1>1, EventsType
<1>3. log' = log \o u
  BY <1>2 DEF StoreAppend
<1>4. /\ log \o u \in State /\ Len(log \o u) = Len(log) + Len(u) /\ IsPrefix(log, log \o u)
      /\ \A m \in 1 .. Len(u) : (log \o u)[Len(log) + m] = u[m]
  BY <1>1, ConcatParts
<1>5. Len(log) \in Nat /\ \A k \in 1 .. Len(log) : (log \o u)[k] = log[k]
  BY <1>1, <1>4, SMT DEF IsPrefix, State
<1>6. QED
  BY <1>1, <1>2, <1>3, <1>4, <1>5

LEMMA StoredIs ==
    ASSUME Inv, NEW r \in appends, StoreAppend(r), Accepts(r)
    PROVE  Stored' = Stored \cup {r.cmd}
<1>1. PICK a \in Nat, n \in Nat \ {0} : a = Len(log) /\ n = r.n
  BY StoredAfter, SMT
<1>2. PICK s, t, c : s = log /\ t = log' /\ c = r.cmd
  OBVIOUS
<1>3. /\ Len(t) = a + n
      /\ \A k \in 1 .. a : t[k] = s[k]
      /\ \A k \in 1 .. n : t[a + k].cmd = c
  <2>1. Len(t) = a + n /\ \A k \in 1 .. a : t[k] = s[k]
    BY <1>1, <1>2, StoredAfter
  <2>2. ASSUME NEW k \in 1 .. n PROVE t[a + k].cmd = c
    <3>1. t[a + k] = [cmd |-> c, n |-> k]
      BY <1>1, <1>2, StoredAfter
    <3>2. QED
      BY <3>1, SMT
  <2>3. QED
    BY <2>1, <2>2
<1>4. \A k \in 1 .. a + n : k \in 1 .. a \/ (k - a \in 1 .. n /\ k = a + (k - a))
  BY <1>1, SMT
<1>5. 1 \in 1 .. n /\ a + 1 \in 1 .. a + n /\ \A k \in 1 .. a : k \in 1 .. a + n
  BY <1>1, SMT
<1>6. Stored = {s[k].cmd : k \in 1 .. a} /\ Stored' = {t[k].cmd : k \in 1 .. a + n}
  BY <1>1, <1>2, <1>3 DEF Stored
<1>7. ASSUME NEW x PROVE x \in Stored' <=> x \in Stored \/ x = c
  <2>1. ASSUME x \in Stored' PROVE x \in Stored \/ x = c
    <3>1. PICK k \in 1 .. a + n : x = t[k].cmd
      BY <1>6, <2>1
    <3>2. CASE k \in 1 .. a
      BY <1>3, <1>6, <3>1, <3>2
    <3>3. CASE k - a \in 1 .. n /\ k = a + (k - a)
      BY <1>3, <3>1, <3>3
    <3>4. QED
      BY <1>4, <3>2, <3>3
  <2>2. ASSUME x \in Stored PROVE x \in Stored'
    BY <1>3, <1>5, <1>6, <2>2
  <2>3. c \in Stored'
    BY <1>3, <1>5, <1>6
  <2>4. QED
    BY <2>1, <2>2, <2>3
<1>8. QED
  BY <1>2, <1>7

LEMMA OnceStoreAppend ==
    ASSUME Inv, OnceInv, NEW r \in appends, StoreAppend(r)
    PROVE  OnceInv'
<1>1. /\ appends' = appends \ {r}
      /\ UNCHANGED <<pc, effect, decided, continued>>
  BY DEF StoreAppend, ghostVars
<1>2. \A i \in Incarnations : Settling(i)' <=> Settling(i)
  BY <1>1 DEF Settling
<1>3. /\ \A q \in appends' : q.cmd \notin Stored'
      /\ \A k \in 1 .. Len(log') : log'[k].n <= decided'[log'[k].cmd].n
  <2>1. CASE ~Accepts(r)
    <3>1. log' = log
      BY <2>1 DEF StoreAppend
    <3>2. QED
      BY <1>1, <3>1, SMT DEF OnceInv, Stored
  <2>2. CASE Accepts(r)
    <3>1. \A q \in appends' : q \in appends /\ q.cmd # r.cmd
      BY <1>1 DEF OnceInv
    <3>2. \A q \in appends' : q.cmd \notin Stored'
      BY <2>2, <3>1, StoredIs DEF OnceInv
    <3>3. ASSUME NEW k \in 1 .. Len(log') PROVE log'[k].n <= decided[log'[k].cmd].n
      <4>1. PICK a \in Nat, n \in Nat : a = Len(log) /\ n = r.n
        BY <2>2, StoredAfter, SMT
      <4>2. CASE k \in 1 .. Len(log)
        BY <2>2, <4>2, StoredAfter DEF OnceInv
      <4>3. CASE k \notin 1 .. Len(log)
        <5>1. k - a \in 1 .. n /\ k = a + (k - a)
          BY <2>2, <4>1, <4>3, StoredAfter, SMT
        <5>2. log'[k] = [cmd |-> r.cmd, n |-> k - a]
          BY <2>2, <4>1, <5>1, StoredAfter
        <5>3. decided[r.cmd].n = n
          BY <4>1 DEF Inv, RequestInv
        <5>4. QED
          BY <5>1, <5>2, <5>3, SMT
      <4>4. QED
        BY <4>2, <4>3
    <3>4. QED
      BY <1>1, <3>2, <3>3
  <2>3. QED
    BY <2>1, <2>2
<1>4. QED
  BY <1>1, <1>2, <1>3 DEF OnceInv

(* A command is new when it is handled.                                    *)
LEMMA HandleIs ==
    ASSUME Inv, NEW i \in Incarnations, NEW m \in 0 .. MaxBatch, NEW stop \in BOOLEAN,
           Handle(i, m, stop), NEW cmd, cmd = Len(decided) + 1
    PROVE  /\ cmd \in Command /\ Len(decided) \in Nat
           /\ decided' = Append(decided, [on |-> state[i], n |-> m])
           /\ Len(decided') = cmd
           /\ \A c \in 1 .. Len(decided) : decided'[c] = decided[c]
           /\ effect'[i].cmd = cmd
           /\ \A j \in Incarnations : j # i => effect'[j] = effect[j] /\ pc'[j] = pc[j]
           /\ \A r \in appends' : r \in appends \/ r.cmd = cmd
           /\ \A r, q \in appends' : r \notin appends /\ q \notin appends => r = q
           /\ UNCHANGED <<log, continued>>
<1>1. decided \in Seq([on : State, n : 0 .. MaxBatch]) /\ [on |-> state[i], n |-> m] \in [on : State, n : 0 .. MaxBatch]
  BY DEF Inv, TypeOK
<1>2. /\ Len(decided) \in Nat
      /\ decided' = Append(decided, [on |-> state[i], n |-> m])
      /\ Len(decided') = cmd
      /\ \A c \in 1 .. Len(decided) : decided'[c] = decided[c]
  <2>1. decided' = Append(decided, [on |-> state[i], n |-> m])
    BY DEF Handle
  <2>2. QED
    BY <1>1, <2>1, AppendParts, SMT
<1>3. cmd \in Command
  BY <1>2, LimitsAssumption, SMT DEF Handle, Command
<1>4. /\ effect'[i].cmd = cmd
      /\ \A j \in Incarnations : j # i => effect'[j] = effect[j] /\ pc'[j] = pc[j]
      /\ UNCHANGED <<log, continued>>
  <2>1. /\ effect' = [effect EXCEPT ![i] = [cmd |-> cmd, n |-> m, stop |-> stop]]
        /\ UNCHANGED <<log, continued>>
    BY DEF Handle
  <2>2. PICK l : pc' = [pc EXCEPT ![i] = l]
    BY DEF Handle, Goto
  <2>3. effect'[i] = [cmd |-> cmd, n |-> m, stop |-> stop]
    BY <2>1 DEF Inv, TypeOK
  <2>4. effect'[i].cmd = cmd
    BY <2>3, SMT
  <2>5. QED
    BY <2>1, <2>2, <2>4 DEF Inv, TypeOK
<1>5. PICK r : /\ r = [by |-> i, next |-> next[i], cmd |-> cmd, n |-> m]
               /\ appends' = appends \/ appends' = appends \cup {r}
  BY DEF Handle
<1>6. r.cmd = cmd
  BY <1>5
<1>7. /\ \A q \in appends' : q \in appends \/ q.cmd = cmd
      /\ \A p, q \in appends' : p \notin appends /\ q \notin appends => p = q
  BY <1>5, <1>6
<1>8. QED
  BY <1>2, <1>3, <1>4, <1>7

(* What there was before is of earlier commands.                           *)
LEMMA Earlier ==
    ASSUME Inv
    PROVE  /\ \A r \in appends : r.cmd \in 1 .. Len(decided)
           /\ \A c \in Stored : c \in 1 .. Len(decided)
           /\ \A c \in continued : c.cmd \in 1 .. Len(decided)
           /\ \A i \in Incarnations : Settling(i) => effect[i].cmd \in 1 .. Len(decided)
<1>1. \A r \in appends : r.cmd \in 1 .. Len(decided)
  BY DEF Inv, RequestInv
<1>2. /\ \A c \in Stored : c \in 1 .. Len(decided)
      /\ \A c \in continued : c.cmd \in 1 .. Len(decided)
  BY DEF Inv, HistoryInv, Stored
<1>3. \A i \in Incarnations : Settling(i) => effect[i].cmd \in 1 .. Len(decided)
  BY DEF Inv, IncarnationInv, Holds, Settling
<1>4. QED
  BY <1>1, <1>2, <1>3

LEMMA OnceHandle ==
    ASSUME Inv, OnceInv, NEW i \in Incarnations, NEW m \in 0 .. MaxBatch, NEW stop \in BOOLEAN,
           Handle(i, m, stop)
    PROVE  OnceInv'
<1>1. PICK a \in Nat, cmd \in Command : a = Len(decided) /\ cmd = a + 1 /\ cmd = Len(decided) + 1
  BY HandleIs
<1>2. /\ \A r \in appends' : r \in appends \/ r.cmd = cmd
      /\ \A r, q \in appends' : r \notin appends /\ q \notin appends => r = q
      /\ \A c \in 1 .. a : decided'[c] = decided[c]
      /\ UNCHANGED <<log, continued>>
  BY <1>1, HandleIs
<1>3. /\ effect'[i].cmd = cmd
      /\ \A j \in Incarnations : j # i => effect'[j] = effect[j] /\ pc'[j] = pc[j]
  BY <1>1, HandleIs
<1>4. cmd \notin 1 .. a
  BY <1>1, SMT
<1>5. Stored' = Stored
  BY <1>2 DEF Stored
<1>6. \A r \in appends' : r.cmd \notin Stored' /\ \A q \in appends' : q.cmd = r.cmd => q = r
  <2>1. SUFFICES ASSUME NEW r \in appends', NEW q \in appends'
                 PROVE  r.cmd \notin Stored /\ (q.cmd = r.cmd => q = r)
    BY <1>5
  <2>2. CASE r \in appends /\ q \in appends
    BY <2>2 DEF OnceInv
  <2>3. CASE r \in appends /\ q \notin appends
    BY <1>1, <1>2, <1>4, <2>3, Earlier, SMT DEF OnceInv
  <2>4. CASE r \notin appends
    BY <1>1, <1>2, <1>4, <2>4, Earlier
  <2>5. QED
    BY <2>2, <2>3, <2>4
<1>7. \A k \in 1 .. Len(log') : log'[k].n <= decided'[log'[k].cmd].n
  <2>1. \A k \in 1 .. Len(log) : log[k].cmd \in 1 .. a
    BY <1>1 DEF Inv, HistoryInv
  <2>2. QED
    BY <1>2, <2>1 DEF OnceInv
<1>8. ASSUME NEW j \in Incarnations, Settling(j)'
      PROVE  \A c \in continued' : c.cmd # effect'[j].cmd
  <2>1. CASE j = i
    BY <1>1, <1>2, <1>3, <1>4, <2>1, Earlier, SMT
  <2>2. CASE j # i
    <3>1. Settling(j) /\ effect'[j] = effect[j]
      BY <1>2, <1>3, <1>8, <2>2 DEF Settling
    <3>2. QED
      BY <1>2, <3>1, SMT DEF OnceInv
  <2>3. QED
    BY <2>1, <2>2
<1>9. ASSUME NEW j \in Incarnations, NEW h \in Incarnations, Settling(j)', Settling(h)', h # j
      PROVE  effect'[h].cmd # effect'[j].cmd
  <2>1. \A g \in {h, j} : g # i => Settling(g) /\ effect'[g] = effect[g]
                                    /\ effect[g].cmd \in 1 .. a
    <3>1. ASSUME NEW g \in {h, j}, g # i PROVE Settling(g) /\ effect'[g] = effect[g]
      BY <1>2, <1>3, <1>9, <3>1 DEF Settling
    <3>2. QED
      BY <1>1, <3>1, Earlier
  <2>2. CASE j = i
    BY <1>3, <1>4, <1>9, <2>1, <2>2
  <2>3. CASE h = i
    BY <1>3, <1>4, <1>9, <2>1, <2>3
  <2>4. CASE j # i /\ h # i
    BY <1>9, <2>1, <2>4 DEF OnceInv
  <2>5. QED
    BY <2>2, <2>3, <2>4
<1>10. QED
  BY <1>6, <1>7, <1>8, <1>9 DEF OnceInv

LEMMA OnceContinue ==
    ASSUME Inv, OnceInv, NEW i \in Incarnations, NEW offered \in BOOLEAN, Continue(i, offered)
    PROVE  OnceInv'
<1>1. /\ Settling(i)
      /\ continued' = continued \cup {[cmd |-> effect[i].cmd, saw |-> state[i]]}
      /\ UNCHANGED <<log, appends, decided>>
  BY DEF Continue, Settling
<1>2. /\ \A j \in Incarnations : j # i => pc'[j] = pc[j] /\ effect'[j] = effect[j]
      /\ ~Settling(i)'
  <2>1. CASE offered
    BY <2>1 DEF Continue, Goto, Settling, actorVars, Inv, TypeOK
  <2>2. CASE ~offered
    <3>1. PICK l, x : /\ l \notin {"appending", "continuing"}
                      /\ pc' = [pc EXCEPT ![i] = l] /\ effect' = [effect EXCEPT ![i] = x]
      BY <2>2 DEF Continue, Settled, Goto, Drop
    <3>2. QED
      BY <3>1 DEF Settling, Inv, TypeOK
  <2>3. QED
    BY <2>1, <2>2
<1>3. \A j \in Incarnations : Settling(j)' => j # i /\ Settling(j) /\ effect'[j] = effect[j]
  BY <1>2 DEF Settling
<1>4. \A c \in continued' : c \in continued \/ c.cmd = effect[i].cmd
  BY <1>1, SMT
<1>5. Stored' = Stored
  BY <1>1 DEF Stored
<1>6. QED
  BY <1>1, <1>3, <1>4, <1>5 DEF OnceInv

LEMMA OnceNext == Inv /\ OnceInv /\ [Next]_vars => OnceInv'
<1> SUFFICES ASSUME Inv, OnceInv, [Next]_vars PROVE OnceInv'
  OBVIOUS
<1> USE DEF storeVars, actorVars, ghostVars
<1>1. TypeOK
  BY DEF Inv
<1>2. ASSUME UNCHANGED <<log, appends, decided, continued, pc, effect>> PROVE OnceInv'
  BY <1>2, OnceQuiet DEF Settling
<1>3. CASE UNCHANGED vars
  BY <1>2, <1>3 DEF vars
<1>4. CASE Stores
  <2>1. ASSUME NEW s \in saves, StoreSave(s) PROVE OnceInv'
    BY <1>2, <2>1 DEF StoreSave
  <2>2. QED
    BY <1>4, <2>1, OnceStoreAppend DEF Stores
<1>5. ASSUME NEW i \in Incarnations, Recover(i) \/ Leave(i) \/ Fail(i) PROVE OnceInv'
  <2>1. CASE Recover(i)
    BY <1>1, <2>1, OnceMove DEF Recover
  <2>2. CASE Leave(i)
    BY <1>1, <2>2, OnceMove DEF Leave, Drop
  <2>3. CASE Fail(i)
    BY <1>1, <2>3, OnceMove DEF Fail, Drop
  <2>4. QED
    BY <1>5, <2>1, <2>2, <2>3
<1>6. ASSUME NEW i \in Incarnations, Supervision(i) PROVE OnceInv'
  <2>1. CASE StopByParent(i)
    BY <1>2, <2>1 DEF StopByParent
  <2>2. QED
    BY <1>5, <1>6, <2>1 DEF Supervision, Spawn, Restart, GiveUp, StoppedByParent, Crash
<1>7. ASSUME NEW i \in Incarnations, Recovery(i) PROVE OnceInv'
  <2>1. CASE LoadSnapshot(i)
    BY <1>1, <2>1, OnceMove DEF LoadSnapshot
  <2>2. CASE ReplayPage(i)
    <3>1. PICK l : Goto(i, l) /\ l \notin {"appending", "continuing"}
      BY <2>2, SMT DEF ReplayPage
    <3>2. QED
      BY <1>1, <2>2, <3>1, OnceMove DEF ReplayPage
  <2>3. QED
    BY <1>5, <1>7, <2>1, <2>2 DEF Recovery, RecoverFails
<1>8. ASSUME NEW i \in Incarnations, Commands(i) PROVE OnceInv'
  <2>1. CASE AppendOk(i)
    <3>1. \A j \in Incarnations : Settling(j)' => Settling(j) /\ effect'[j] = effect[j]
      BY <1>1, <2>1 DEF AppendOk, Goto, Settling, TypeOK
    <3>2. QED
      BY <2>1, <3>1, OnceQuiet DEF AppendOk
  <2>2. CASE AppendConflict(i)
    BY <1>1, <2>2, OnceMove DEF AppendConflict, Drop
  <2>3. CASE SaveOk(i) \/ SaveFails(i)
    <3>1. PICK l, x : /\ l \notin {"appending", "continuing"}
                      /\ Goto(i, l) /\ effect' = [effect EXCEPT ![i] = x]
      BY <2>3 DEF SaveOk, SaveFails, Settled, Drop
    <3>2. UNCHANGED <<log, appends, decided, continued>>
      BY <2>3 DEF SaveOk, SaveFails
    <3>3. QED
      BY <1>1, <3>1, <3>2, OnceMove
  <2>4. QED
    BY <1>5, <1>8, <2>1, <2>2, <2>3, OnceHandle, OnceContinue
    DEF Commands, Settle, HandleFails, AppendFails, ContinueFails
<1>9. QED
  BY <1>3, <1>4, <1>6, <1>7, <1>8 DEF Next

----------------------------------------------------------------------------
(* The steps of the incarnations and of the stores as steps of one entity. *)

LEMMA SamePrefix ==
    ASSUME NEW s \in State, NEW t \in State, IsPrefix(s, t)
    PROVE  SubSeq(t, 1, Len(s)) = s /\ (Len(s) = Len(t) => s = t)
BY SMT DEF IsPrefix, State

LEMMA ExecutedIs ==
    ASSUME NEW c
    PROVE  (One!Executed(c) <=> c \in Stored) /\ (One!Replied(c) <=> \E r \in continued : r.cmd = c)
<1>1. One!Replied(c) <=> \E r \in continued : r.cmd = c
  BY DEF One!Replied
<1>2. ASSUME NEW x \in Executions, x.cmd = c PROVE c \in Stored
  <2>1. PICK d \in Stored : x = [cmd |-> d, on |-> decided[d].on, n |-> decided[d].n]
    BY DEF Executions
  <2>2. x.cmd = d
    BY <2>1
  <2>3. QED
    BY <1>2, <2>2
<1>3. ASSUME c \in Stored PROVE \E x \in Executions : x.cmd = c
  <2>1. PICK x : x = [cmd |-> c, on |-> decided[c].on, n |-> decided[c].n]
    OBVIOUS
  <2>2. x \in Executions
    BY <1>3, <2>1 DEF Executions
  <2>3. x.cmd = c
    BY <2>1
  <2>4. QED
    BY <2>2, <2>3
<1>4. One!Executed(c) <=> c \in Stored
  BY <1>2, <1>3 DEF One!Executed
<1>5. QED
  BY <1>1, <1>4

LEMMA BatchIs ==
    ASSUME NEW e PROVE One!Batch(e.cmd, e.n) = Events(e)
BY DEF One!Batch, Events

(* The store executes an append: the whole batch, behind the state it was  *)
(* decided on, or nothing.                                                 *)
LEMMA StoreAppendRefines ==
    ASSUME Inv, OnceInv, NEW r \in appends, StoreAppend(r)
    PROVE  One!Next \/ UNCHANGED One!vars
<1>1. UNCHANGED <<decided, continued>>
  BY DEF StoreAppend, ghostVars
<1>2. CASE ~Accepts(r)
  <2>1. log' = log
    BY <1>2 DEF StoreAppend
  <2>2. QED
    BY <1>1, <2>1 DEF One!vars, Executions, Stored
<1>3. CASE Accepts(r)
  <2>1. /\ r.cmd \in DOMAIN decided /\ r.cmd \in Command /\ r.n \in 1 .. MaxBatch
        /\ decided[r.cmd].n = r.n
    BY SMT DEF Inv, RequestInv, TypeOK, AppendRequest
  <2>2. decided[r.cmd].on = log
    <3>1. decided[r.cmd].on \in State /\ log \in State /\ IsPrefix(decided[r.cmd].on, log)
      BY DecidedType DEF Inv, HistoryInv, RequestInv, TypeOK
    <3>2. Len(decided[r.cmd].on) = Len(log)
      BY <1>3 DEF Inv, RequestInv, Accepts
    <3>3. QED
      BY <3>1, <3>2, SamePrefix
  <2>3. ~One!Executed(r.cmd)
    BY ExecutedIs DEF OnceInv
  <2>4. ~One!Replied(r.cmd)
    <3>1. SUFFICES ASSUME NEW c \in continued, c.cmd = r.cmd PROVE FALSE
      BY ExecutedIs
    <3>2. /\ IsPrefix(c.saw, log) /\ Len(c.saw) = Len(log) + r.n
          /\ Len(log) \in Nat
      <4>1. /\ IsPrefix(c.saw, log)
            /\ Len(c.saw) = Len(decided[r.cmd].on) + decided[r.cmd].n
        BY <3>1 DEF Inv, ContinuedDurable
      <4>2. Len(log) \in Nat
        BY SMT DEF Inv, TypeOK, State
      <4>3. QED
        BY <2>1, <2>2, <4>1, <4>2
    <3>3. QED
      BY <2>1, <3>2, SMT DEF IsPrefix
  <2>5. log' = log \o One!Batch(r.cmd, r.n)
    BY <1>3, BatchIs DEF StoreAppend
  <2>6. Executions' = Executions \cup {One!Execution(r.cmd, log, r.n)}
    <3>1. Stored' = Stored \cup {r.cmd}
      BY <1>3, StoredIs
    <3>2. One!Execution(r.cmd, log, r.n) = [cmd |-> r.cmd, on |-> decided[r.cmd].on, n |-> decided[r.cmd].n]
      BY <2>1, <2>2 DEF One!Execution
    <3>3. QED
      BY <1>1, <3>1, <3>2 DEF Executions
  <2>7. One!Execute(r.cmd, r.n)
    BY <1>1, <2>1, <2>3, <2>4, <2>5, <2>6 DEF One!Execute
  <2>8. QED
    BY <2>1, <2>7 DEF One!Next
<1>4. QED
  BY <1>2, <1>3

LEMMA HandleRefines ==
    ASSUME Inv, NEW i \in Incarnations, NEW m \in 0 .. MaxBatch, NEW stop \in BOOLEAN,
           Handle(i, m, stop)
    PROVE  One!Next
<1>1. PICK a \in Nat, cmd \in Command : a = Len(decided) /\ cmd = a + 1 /\ cmd = Len(decided) + 1
  BY HandleIs
<1>2. /\ Len(decided') = cmd
      /\ \A c \in 1 .. a : decided'[c] = decided[c]
      /\ UNCHANGED <<log, continued>>
  BY <1>1, HandleIs
<1>3. DOMAIN decided = 1 .. a /\ DOMAIN decided' = 1 .. cmd
  <2>1. decided \in Seq([on : State, n : 0 .. MaxBatch]) /\ decided' \in Seq([on : State, n : 0 .. MaxBatch])
    BY HandleStep DEF Inv, TypeOK
  <2>2. QED
    BY <1>1, <1>2, <2>1, SMT
<1>4. cmd \notin DOMAIN decided /\ DOMAIN decided' = DOMAIN decided \cup {cmd}
  BY <1>1, <1>3, SMT
<1>5. Executions' = Executions
  <2>1. Stored' = Stored /\ \A c \in Stored : decided'[c] = decided[c]
    BY <1>1, <1>2, Earlier DEF Stored
  <2>2. QED
    BY <2>1 DEF Executions
<1>6. One!Receive(cmd)
  BY <1>2, <1>4, <1>5 DEF One!Receive
<1>7. QED
  BY <1>6 DEF One!Next

(* A continuation answers a write that is stored, or a read.               *)
LEMMA ContinueRefines ==
    ASSUME Inv, OnceInv, NEW i \in Incarnations, NEW offered \in BOOLEAN, Continue(i, offered)
    PROVE  One!Next
<1>1. PICK e : e = effect[i]
  OBVIOUS
<1>2. /\ continued' = continued \cup {One!Reply(e.cmd, state[i])}
      /\ UNCHANGED <<log, decided>>
  BY <1>1 DEF Continue, One!Reply
<1>3. /\ e.cmd \in DOMAIN decided /\ e.cmd \in 1 .. Len(decided) /\ e.cmd \in Command
      /\ decided[e.cmd].n = e.n /\ e.n \in 0 .. MaxBatch
      /\ state[i] = decided[e.cmd].on \o Events(e)
      /\ IsPrefix(state[i], log) /\ state[i] \in State /\ log \in State
      /\ decided[e.cmd].on \in State
  <2>1. IncarnationInv(i) /\ pc[i] = "continuing"
    BY DEF Inv, Continue
  <2>2. /\ e.cmd \in 1 .. Len(decided) /\ decided[e.cmd].n = e.n
        /\ state[i] = decided[e.cmd].on \o Events(e) /\ IsPrefix(state[i], log)
    BY <1>1, <2>1 DEF IncarnationInv, Holds
  <2>3. state[i] \in State /\ log \in State /\ TypeOK
    BY DEF Inv, TypeOK
  <2>4. DOMAIN decided = 1 .. Len(decided)
    BY SMT DEF Inv, TypeOK
  <2>5. e.cmd \in Command /\ decided[e.cmd].on \in State /\ decided[e.cmd].n \in 0 .. MaxBatch
    BY <2>2, <2>3, DecidedType
  <2>6. QED
    BY <2>2, <2>3, <2>4, <2>5
<1>4. ~One!Replied(e.cmd)
  BY <1>1, ExecutedIs DEF OnceInv, Settling, Continue
<1>5. Executions' = Executions
  BY <1>2 DEF Executions, Stored
<1>6. CASE e.n = 0
  <2>1. e.cmd \notin Stored
    <3>1. SUFFICES ASSUME NEW k \in 1 .. Len(log), log[k].cmd = e.cmd PROVE FALSE
      BY DEF Stored
    <3>2. log[k].n <= 0
      BY <1>3, <1>6, <3>1 DEF OnceInv
    <3>3. log[k] \in Event
      BY <1>3, SMT DEF State
    <3>4. log[k].n \in 1 .. MaxBatch
      BY <3>3 DEF Event
    <3>5. QED
      BY <3>2, <3>4, LimitsAssumption, SMT
  <2>2. Len(state[i]) \in 0 .. Len(log) /\ state[i] = SubSeq(log, 1, Len(state[i]))
    <3>1. Len(state[i]) \in 0 .. Len(log)
      BY <1>3, SMT DEF State, IsPrefix
    <3>2. QED
      BY <1>3, <3>1, SamePrefix
  <2>3. One!ReplyToRead(e.cmd, Len(state[i]))
    BY <1>2, <1>3, <1>4, <1>5, <2>1, <2>2, ExecutedIs DEF One!ReplyToRead
  <2>4. QED
    BY <1>3, <2>2, <2>3 DEF One!Next
<1>7. CASE e.n # 0
  <2>1. e.cmd \in Stored
    <3>1. PICK on \in State, u \in State : on = decided[e.cmd].on /\ u = Events(e)
      BY <1>3, EventsType
    <3>2. Len(u) = e.n /\ \A k \in 1 .. e.n : u[k] = [cmd |-> e.cmd, n |-> k]
      BY <1>3, <3>1, EventsType
    <3>3. Len(u) \in Nat \ {0} /\ 1 \in 1 .. e.n
      BY <1>3, <1>7, <3>2, LimitsAssumption, SMT
    <3>4. u[1].cmd = e.cmd
      <4>1. u[1] = [cmd |-> e.cmd, n |-> 1]
        BY <3>2, <3>3
      <4>2. QED
        BY <4>1, SMT
    <3>5. IsPrefix(on \o u, log)
      BY <1>3, <3>1
    <3>6. /\ Len(on \o u) = Len(on) + Len(u) /\ Len(on) \in Nat /\ on \o u \in State
          /\ (on \o u)[Len(on) + 1] = u[1]
      BY <3>3, ConcatParts, SMT DEF State
    <3>7. Len(on) + 1 \in 1 .. Len(log) /\ log[Len(on) + 1] = u[1]
      <4>1. PICK a \in Nat, n \in Nat \ {0}, b \in Nat : a = Len(on) /\ n = Len(u) /\ b = Len(log)
        BY <1>3, <3>3, <3>6, SMT DEF State
      <4>2. PICK w : w = on \o u
        OBVIOUS
      <4>3. Len(w) = a + n /\ w[a + 1] = u[1] /\ IsPrefix(w, log)
        BY <3>5, <3>6, <4>1, <4>2
      <4>4. a + 1 \in 1 .. Len(w) /\ a + 1 \in 1 .. b
        BY <4>1, <4>3, SMT DEF IsPrefix
      <4>5. QED
        BY <4>1, <4>3, <4>4 DEF IsPrefix
    <3>8. QED
      BY <3>4, <3>7 DEF Stored
  <2>2. PICK x \in Executions : x.cmd = e.cmd /\ x.on = decided[e.cmd].on /\ x.n = e.n
    <3>1. PICK x : x = [cmd |-> e.cmd, on |-> decided[e.cmd].on, n |-> decided[e.cmd].n]
      OBVIOUS
    <3>2. x.cmd = e.cmd /\ x.on = decided[e.cmd].on /\ x.n = e.n
      BY <1>3, <3>1
    <3>3. x \in Executions
      BY <2>1, <3>1 DEF Executions
    <3>4. QED
      BY <3>2, <3>3
  <2>3. state[i] = x.on \o One!Batch(x.cmd, x.n)
    BY <1>3, <2>2, BatchIs
  <2>4. One!ReplyToWrite(x)
    BY <1>2, <1>4, <1>5, <2>2, <2>3 DEF One!ReplyToWrite
  <2>5. QED
    BY <2>4 DEF One!Next
<1>8. QED
  BY <1>6, <1>7

LEMMA NextRefines == Inv /\ OnceInv /\ [Next]_vars => [One!Next]_One!vars
<1> SUFFICES ASSUME Inv, OnceInv, [Next]_vars PROVE One!Next \/ UNCHANGED One!vars
  OBVIOUS
<1> USE DEF storeVars, actorVars, ghostVars
<1>1. ASSUME UNCHANGED <<log, decided, continued>> PROVE UNCHANGED One!vars
  BY <1>1 DEF One!vars, Executions, Stored
<1>2. CASE UNCHANGED vars
  BY <1>1, <1>2 DEF vars
<1>3. CASE Stores
  <2>1. ASSUME NEW s \in saves, StoreSave(s) PROVE UNCHANGED One!vars
    BY <1>1, <2>1 DEF StoreSave
  <2>2. QED
    BY <1>3, <2>1, StoreAppendRefines DEF Stores
<1>4. ASSUME NEW i \in Incarnations, Recover(i) \/ Leave(i) \/ Fail(i) PROVE UNCHANGED One!vars
  BY <1>1, <1>4 DEF Recover, Leave, Fail
<1>5. ASSUME NEW i \in Incarnations, Supervision(i) PROVE UNCHANGED One!vars
  BY <1>1, <1>4, <1>5
  DEF Supervision, Spawn, Restart, GiveUp, StoppedByParent, Crash, StopByParent
<1>6. ASSUME NEW i \in Incarnations, Recovery(i) PROVE UNCHANGED One!vars
  BY <1>1, <1>4, <1>6 DEF Recovery, RecoverFails, LoadSnapshot, ReplayPage
<1>7. ASSUME NEW i \in Incarnations, Commands(i) PROVE One!Next \/ UNCHANGED One!vars
  <2>1. CASE AppendOk(i) \/ AppendConflict(i) \/ SaveOk(i) \/ SaveFails(i)
    BY <1>1, <2>1 DEF AppendOk, AppendConflict, SaveOk, SaveFails
  <2>2. CASE HandleFails(i) \/ AppendFails(i) \/ ContinueFails(i)
    BY <1>4, <2>2 DEF HandleFails, AppendFails, ContinueFails
  <2>3. QED
    BY <1>7, <2>1, <2>2, HandleRefines, ContinueRefines DEF Commands, Settle
<1>8. QED
  BY <1>2, <1>3, <1>5, <1>6, <1>7 DEF Next

(* A command is settled by one incarnation, and what it leaves under way   *)
(* is neither stored nor answered before.                                  *)
THEOREM CommandsSettleOnce == Spec => []OnceInv
<1>1. Init => OnceInv
  BY SMT DEF Init, OnceInv, Settling
<1>2. QED
  BY <1>1, OnceNext, EventSourcedInvariant, PTL DEF Spec

(* Any number of incarnations of a persistence id, on top of conditional   *)
(* appends alone, are one entity that executes commands atomically and at  *)
(* most once: the fencing of settle, recover and append.                   *)
THEOREM IncarnationsActAsOne == Spec => ActsAsOne
<1>1. Init => One!Init
  BY SMT DEF Init, One!Init, Executions, Stored
<1>2. Inv /\ OnceInv /\ [Next]_vars => [One!Next]_One!vars
  BY NextRefines
<1>3. QED
  BY <1>1, <1>2, EventSourcedInvariant, CommandsSettleOnce, PTL DEF Spec, ActsAsOne, One!Spec
=============================================================================
