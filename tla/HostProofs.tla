---------------------------- MODULE HostProofs ----------------------------
(***************************************************************************)
(* A host has at most one incarnation of each entity, its tables agree     *)
(* with each other and with its children, and a passivation loses no       *)
(* message, for any keys, buffer, capacity, messages, stops and failures.  *)
(***************************************************************************)
EXTENDS Host, TLAPS

USE Zenon

Entry == [kind : {"vacant", "live", "stopping"}, actor : Actors \cup {None},
          buffered : Seq(Message)]

TableType ==
    /\ pc \in {"starting", "ready", "delivering"}
    /\ entries \in [Keys -> Entry]
    /\ keys \in [Actors -> Keys \cup {None}]
    /\ ticker \in Actors \cup {None}
    /\ fresh \in [key : Keys \cup {None}, actor : Actors \cup {None}, rest : Seq(Message)]
    /\ incoming \in Seq(Incoming)
    /\ life \in [Actors -> Life]
    /\ owner \in [Actors -> Keys \cup {None}]
    /\ sent \in [Keys -> 0 .. MaxMessages]

(* A child has a signal under way from its end until it is forgotten, and  *)
(* then one.                                                               *)
SignalInv ==
    /\ \A i \in DOMAIN incoming :
         incoming[i].actor # None => life[incoming[i].actor] = "ended"
    /\ \A i, j \in DOMAIN incoming :
         incoming[i].actor # None /\ incoming[i].actor = incoming[j].actor => i = j

(* Only a child that has not ended is the entity of a key.                 *)
OwnerInv == \A a \in Actors : owner[a] # None => life[a] \notin {"none", "ended"}

(* Entries and keys are inverse to each other.                             *)
EntryOk(k) ==
    /\ entries[k].kind = "vacant" => entries[k].actor = None
    /\ entries[k].kind # "vacant" => entries[k].actor \in Actors /\ keys[entries[k].actor] = k

KeyOk(a) ==
    keys[a] # None =>
      /\ entries[keys[a]].actor = a /\ entries[keys[a]].kind # "vacant"
      /\ life[a] # "none" /\ owner[a] \in {None, keys[a]}

EntryInv == (\A k \in Keys : EntryOk(k)) /\ (\A a \in Actors : KeyOk(a))

(* While the host has a state, it knows its ticker and each entity, be it  *)
(* the one it is about to remember.                                        *)
StartingOk == pc = "starting" => ticker = None /\ \A a \in Actors : keys[a] = None

TickerOk ==
    pc # "starting" =>
      ticker \in Actors /\ life[ticker] # "none" /\ owner[ticker] = None /\ keys[ticker] = None

ChildOk(a) ==
    pc # "starting" /\ life[a] \notin {"none", "ended"} =>
      \/ a = ticker
      \/ keys[a] # None /\ owner[a] = keys[a]
      \/ pc = "delivering" /\ a = fresh.actor /\ owner[a] = fresh.key

FreshOk ==
    pc = "delivering" =>
      /\ fresh.key \in Keys /\ fresh.actor \in Actors
      /\ entries[fresh.key].kind = "vacant"
      /\ life[fresh.actor] # "none" /\ keys[fresh.actor] = None
      /\ fresh.actor # ticker
      /\ owner[fresh.actor] \in {None, fresh.key}

KnownInv == StartingOk /\ TickerOk /\ FreshOk /\ \A a \in Actors : ChildOk(a)

Inv == TableType /\ SignalInv /\ OwnerInv /\ EntryInv /\ KnownInv /\ OneIncarnation

tables == <<pc, state, fresh, owner>>

----------------------------------------------------------------------------
LEMMA Constants == None \notin Keys /\ None \notin Actors /\ MaxMessages \in Nat
BY KeysAssumption, ActorsAssumption, BoundsAssumption DEF None

LEMMA FreshIdIsFree ==
    ASSUME Free # {}
    PROVE  FreshId \in Actors /\ life[FreshId] = "none"
<1>1. FreshId \in Free
  BY DEF FreshId
<1>2. QED
  BY <1>1 DEF Free

LEMMA EntryType == Vacant \in Entry /\ \A a \in Actors : Live(a) \in Entry
<1>1. <<>> \in Seq(Message)
  BY SMT
<1>2. QED
  BY <1>1 DEF Vacant, Live, Entry

LEMMA EntryFields ==
    /\ Vacant.kind = "vacant" /\ Vacant.actor = None
    /\ \A a : Live(a).kind = "live" /\ Live(a).actor = a
BY DEF Vacant, Live

LEMMA InitInv == Init => Inv
<1> SUFFICES ASSUME Init PROVE Inv
  OBVIOUS
<1>1. TableType
  <2>1. Vacant \in Entry
    BY EntryType
  <2>2. fresh \in [key : Keys \cup {None}, actor : Actors \cup {None}, rest : Seq(Message)]
    BY SMT DEF Init, NoEntity
  <2>3. sent \in [Keys -> 0 .. MaxMessages]
    BY Constants, SMT DEF Init
  <2>4. QED
    BY <2>1, <2>2, <2>3, SMT DEF Init, TableType, Life
<1>2. SignalInv
  BY SMT DEF Init, SignalInv
<1>3. OwnerInv /\ EntryInv /\ KnownInv /\ OneIncarnation
  BY DEF Init, OwnerInv, EntryInv, EntryOk, KeyOk, KnownInv, StartingOk, TickerOk, FreshOk,
         ChildOk, OneIncarnation, Vacant
<1>4. QED
  BY <1>1, <1>2, <1>3 DEF Inv

----------------------------------------------------------------------------
(* Signals.                                                                *)

LEMMA ReceiveTakes ==
    ASSUME Inv, NEW item, Receive(item)
    PROVE  /\ pc = "ready" /\ incoming' \in Seq(Incoming)
           /\ 1 \in DOMAIN incoming /\ incoming[1] = item
           /\ \A i \in DOMAIN incoming' :
                i + 1 \in DOMAIN incoming /\ incoming'[i] = incoming[i + 1] /\ i + 1 # 1
BY SMT DEF Inv, TableType, Receive

LEMMA SignalIsOfEnded ==
    ASSUME Inv, NEW a \in Actors, Receive(Terminated(a))
    PROVE  life[a] = "ended" /\ owner[a] = None
<1>1. incoming[1].actor = a /\ 1 \in DOMAIN incoming /\ a # None
  BY ReceiveTakes, Constants, SMT DEF Terminated
<1>2. QED
  BY <1>1 DEF Inv, SignalInv, OwnerInv

LEMMA SignalsKept ==
    ASSUME Inv, incoming' = incoming,
           \A b \in Actors : life[b] = "ended" => life'[b] = "ended"
    PROVE  SignalInv'
<1>1. \A i \in DOMAIN incoming : incoming[i].actor # None => incoming[i].actor \in Actors
  BY Constants, SMT DEF Inv, TableType, Incoming, Envelope, Terminated
<1>2. QED
  BY <1>1 DEF Inv, SignalInv

----------------------------------------------------------------------------
(* Every step keeps the invariant: the ones that leave the tables alone,   *)
(* those of the host, the signals it receives, and its failures, after     *)
(* which the tables are empty and init waits for the children.             *)
LEMMA NextInv ==
    ASSUME Inv, [Next]_vars
    PROVE  Inv'
<1>LifeStep. ASSUME UNCHANGED tables, TableType', SignalInv',
                    \A a \in Actors : life'[a] = life[a] \/ {life[a], life'[a]} \cap {"none", "ended"} = {}
             PROVE  Inv'
  <2> USE <1>LifeStep
  <2>1. OwnerInv'
    BY DEF Inv, OwnerInv, tables
  <2>2. UNCHANGED <<pc, entries, keys, ticker, fresh, owner>>
    BY DEF tables, state
  <2>3. \A a \in Actors : life'[a] = life[a] \/ (life[a] # "none" /\ life'[a] # "none" /\ life[a] # "ended")
    OBVIOUS
  <2>4. EntryInv'
    <3>1. ASSUME NEW q \in Keys, EntryOk(q) PROVE EntryOk(q)'
      BY <2>2, <3>1 DEF EntryOk
    <3>2. ASSUME NEW b \in Actors, KeyOk(b) PROVE KeyOk(b)'
      BY <2>2, <2>3, <3>2 DEF KeyOk
    <3>3. QED
      BY <3>1, <3>2 DEF Inv, EntryInv
  <2>5. KnownInv'
    <3>1. StartingOk' /\ TickerOk'
      BY <2>2, <2>3 DEF Inv, KnownInv, StartingOk, TickerOk
    <3>2. FreshOk'
      BY <2>2, <2>3 DEF Inv, KnownInv, FreshOk
    <3>3. ASSUME NEW b \in Actors, ChildOk(b) PROVE ChildOk(b)'
      BY <2>2, <2>3, <3>3 DEF ChildOk
    <3>4. QED
      BY <3>1, <3>2, <3>3 DEF Inv, KnownInv
  <2>6. OneIncarnation'
    BY <2>2 DEF Inv, OneIncarnation
  <2>7. QED
    BY <2>1, <2>4, <2>5, <2>6 DEF Inv
<1>1. CASE UNCHANGED vars
  <2>1. UNCHANGED <<pc, entries, keys, ticker, fresh, incoming, life, owner, sent>>
    BY <1>1 DEF vars, state
  <2>2. TableType'
    BY <2>1 DEF Inv, TableType
  <2>3. SignalInv'
    BY <2>1, SignalsKept
  <2>4. QED
    BY <2>1, <2>2, <2>3, <1>LifeStep DEF tables, state
<1>AppendItem. ASSUME NEW item \in Incoming, incoming' = Append(incoming, item)
               PROVE  /\ incoming' \in Seq(Incoming)
                      /\ Len(incoming) + 1 \in DOMAIN incoming' /\ incoming'[Len(incoming) + 1] = item
                      /\ \A i \in DOMAIN incoming' :
                           i = Len(incoming) + 1 \/ (i \in DOMAIN incoming /\ incoming'[i] = incoming[i])
  BY <1>AppendItem, SMT DEF Inv, TableType
<1>SendStep. ASSUME NEW k \in Keys, Send(k)
             PROVE  Inv'
  <2> USE <1>SendStep
  <2>1. sent' \in [Keys -> 0 .. MaxMessages] /\ Envelope(k, sent[k] + 1) \in Incoming
    <3>1. sent[k] + 1 \in Message
      BY Constants, SMT DEF Send, Inv, TableType, Message
    <3>2. sent' \in [Keys -> 0 .. MaxMessages]
      BY <3>1, Constants, SMT DEF Send, Inv, TableType, Message
    <3>3. Envelope(k, sent[k] + 1) \in Incoming
      BY <3>1, SMT DEF Incoming
    <3>4. QED
      BY <3>2, <3>3
  <2>2. TableType'
    BY <2>1, <1>AppendItem DEF Send, Inv, TableType, state
  <2>3. SignalInv'
    <3>1. Envelope(k, sent[k] + 1).actor = None
      BY DEF Envelope
    <3>2. QED
      BY <2>1, <3>1, <1>AppendItem, SMT DEF Send, Inv, SignalInv
  <2>4. QED
    BY <2>2, <2>3, <1>LifeStep DEF Send, tables
<1>2. ASSUME NEW k \in Keys, Send(k) PROVE Inv'
  BY <1>2, <1>SendStep
<1>SignalsTaken. ASSUME NEW item, Receive(item),
                        \A b \in Actors : life[b] = "ended" /\ b # item.actor => life'[b] = "ended"
                 PROVE  SignalInv'
  <2> USE <1>SignalsTaken
  <2>1. \A i \in DOMAIN incoming' :
          i + 1 \in DOMAIN incoming /\ incoming'[i] = incoming[i + 1] /\ i + 1 # 1 /\ i \in Int
    BY ReceiveTakes, SMT DEF Inv, TableType
  <2>2. 1 \in DOMAIN incoming /\ incoming[1] = item
    BY ReceiveTakes
  <2>3. \A i \in DOMAIN incoming : incoming[i].actor # None => incoming[i].actor \in Actors
    BY Constants, SMT DEF Inv, TableType, Incoming, Envelope, Terminated
  <2>4. ASSUME NEW i \in DOMAIN incoming', incoming'[i].actor # None
        PROVE  life'[incoming'[i].actor] = "ended"
    <3>1. incoming[i + 1].actor # item.actor
      BY <2>1, <2>2, <2>4 DEF Inv, SignalInv
    <3>2. QED
      BY <2>1, <2>3, <2>4, <3>1, SMT DEF Inv, SignalInv
  <2>5. ASSUME NEW i \in DOMAIN incoming', NEW j \in DOMAIN incoming',
               incoming'[i].actor # None, incoming'[i].actor = incoming'[j].actor
        PROVE  i = j
    <3>1. i + 1 = j + 1
      BY <2>1, <2>5, SMT DEF Inv, SignalInv
    <3>2. QED
      BY <2>1, <3>1, SMT
  <2>6. QED
    BY <2>4, <2>5 DEF SignalInv
<1>RouteLiveStep. ASSUME NEW k \in Keys, NEW n \in Message, RouteLive(k, n)
                  PROVE  Inv'
  <2> USE <1>RouteLiveStep
  <2>1. TableType'
    BY ReceiveTakes DEF RouteLive, Inv, TableType, state
  <2>2. SignalInv'
    BY <1>SignalsTaken DEF RouteLive
  <2>3. QED
    BY <2>1, <2>2, <1>LifeStep DEF RouteLive, tables
<1>HostInitStep. ASSUME HostInit
                 PROVE  Inv'
  <2> USE <1>HostInitStep
  <2>1. PICK t \in Actors :
          /\ t = FreshId /\ life[t] = "none" /\ ticker' = t
          /\ life' = [life EXCEPT ![t] = "running"] /\ owner' = [owner EXCEPT ![t] = None]
    BY FreshIdIsFree DEF HostInit, TickLater
  <2>2. /\ pc = "starting" /\ pc' = "ready" /\ UNCHANGED <<entries, keys, fresh, incoming, sent>>
        /\ \A a \in Actors : life[a] \in {"none", "ended"}
    BY DEF HostInit, ChildrenEnded
  <2>3. /\ life'[t] = "running" /\ owner'[t] = None
        /\ \A b \in Actors \ {t} : life'[b] = life[b] /\ owner'[b] = owner[b]
    BY <2>1 DEF Inv, TableType
  <2>4. TableType'
    BY <2>1, <2>2 DEF Inv, TableType, Life
  <2>5. SignalInv'
    BY <2>1, <2>2, <2>3, SignalsKept
  <2>6. OwnerInv' /\ OneIncarnation'
    BY <2>3 DEF Inv, OwnerInv, OneIncarnation
  <2>7. EntryInv'
    <3>1. ASSUME NEW q \in Keys, EntryOk(q) PROVE EntryOk(q)'
      BY <2>2, <3>1 DEF EntryOk
    <3>2. ASSUME NEW b \in Actors, KeyOk(b) PROVE KeyOk(b)'
      BY <2>1, <2>2, <2>3, <3>2 DEF KeyOk
    <3>3. QED
      BY <3>1, <3>2 DEF Inv, EntryInv
  <2>8. KnownInv'
    <3>1. StartingOk' /\ TickerOk'
      BY <2>1, <2>2, <2>3 DEF Inv, KnownInv, StartingOk, TickerOk
    <3>2. FreshOk'
      BY <2>2 DEF Inv, KnownInv, FreshOk
    <3>3. ASSUME NEW b \in Actors, ChildOk(b) PROVE ChildOk(b)'
      BY <2>1, <2>2, <2>3, <3>3 DEF ChildOk
    <3>4. QED
      BY <3>1, <3>2, <3>3 DEF Inv, KnownInv
  <2>9. QED
    BY <2>4, <2>5, <2>6, <2>7, <2>8 DEF Inv
<1>RouteStoppingStep. ASSUME NEW k \in Keys, NEW n \in Message, RouteStopping(k, n)
                      PROVE  Inv'
  <2> USE <1>RouteStoppingStep
  <2>1. /\ UNCHANGED <<pc, keys, ticker, fresh, life, owner, sent>>
        /\ \/ entries' = entries
           \/ entries' = [entries EXCEPT ![k].buffered = Append(@, n)]
    BY DEF RouteStopping, PushBack
  <2>2. /\ entries' \in [Keys -> Entry]
        /\ \A q \in Keys : entries'[q].kind = entries[q].kind /\ entries'[q].actor = entries[q].actor
    <3>1. entries[k].buffered \in Seq(Message)
      BY DEF Inv, TableType, Entry
    <3>2. Append(entries[k].buffered, n) \in Seq(Message)
      BY <3>1, SMT
    <3>3. CASE entries' = entries
      BY <3>3 DEF Inv, TableType
    <3>4. CASE entries' = [entries EXCEPT ![k].buffered = Append(@, n)]
      <4>1. /\ \A q \in Keys \ {k} : entries'[q] = entries[q]
            /\ entries'[k] = [entries[k] EXCEPT !.buffered = Append(@, n)]
        BY <3>4 DEF Inv, TableType
      <4>2. /\ entries'[k] \in Entry
            /\ entries'[k].kind = entries[k].kind /\ entries'[k].actor = entries[k].actor
        <5>1. PICK e \in Entry : e = entries[k]
          BY DEF Inv, TableType
        <5>2. PICK b \in Seq(Message) : entries'[k] = [e EXCEPT !.buffered = b]
          BY <5>1, <4>1, <3>2
        <5>3. QED
          BY <5>1, <5>2 DEF Entry
      <4>3. DOMAIN entries' = Keys /\ entries' = [q \in Keys |-> entries'[q]]
        BY <3>4 DEF Inv, TableType
      <4>4. QED
        BY <4>1, <4>2, <4>3 DEF Inv, TableType
    <3>5. QED
      BY <2>1, <3>3, <3>4
  <2>3. TableType'
    BY <2>1, <2>2, ReceiveTakes DEF RouteStopping, Inv, TableType
  <2>4. SignalInv'
    BY <2>1, <1>SignalsTaken DEF RouteStopping
  <2>5. OwnerInv' /\ OneIncarnation'
    BY <2>1 DEF Inv, OwnerInv, OneIncarnation
  <2>6. EntryInv'
    <3>1. ASSUME NEW q \in Keys, EntryOk(q) PROVE EntryOk(q)'
      BY <2>1, <2>2, <3>1 DEF EntryOk
    <3>2. ASSUME NEW b \in Actors, KeyOk(b) PROVE KeyOk(b)'
      <4>1. keys[b] \in Keys \cup {None}
        BY DEF Inv, TableType
      <4>2. QED
        BY <2>1, <2>2, <3>2, <4>1 DEF KeyOk
    <3>3. QED
      BY <3>1, <3>2 DEF Inv, EntryInv
  <2>7. KnownInv'
    <3>1. StartingOk' /\ TickerOk'
      BY <2>1 DEF Inv, KnownInv, StartingOk, TickerOk
    <3>2. FreshOk'
      BY <2>1, <2>2 DEF Inv, KnownInv, FreshOk
    <3>3. ASSUME NEW b \in Actors, ChildOk(b) PROVE ChildOk(b)'
      BY <2>1, <3>3 DEF ChildOk
    <3>4. QED
      BY <3>1, <3>2, <3>3 DEF Inv, KnownInv
  <2>8. QED
    BY <2>3, <2>4, <2>5, <2>6, <2>7 DEF Inv
(* An entity is spawned for a key without an entry, and without an owner.  *)
<1>RouteVacantStep. ASSUME NEW k \in Keys, NEW n \in Message, RouteVacant(k, n)
                    PROVE  Inv'
  <2> USE <1>RouteVacantStep
  <2>1. PICK e \in Actors :
          /\ life[e] = "none"
          /\ life' = [life EXCEPT ![e] = "running"] /\ owner' = [owner EXCEPT ![e] = k]
          /\ fresh' = [key |-> k, actor |-> e, rest |-> <<n>>]
    BY FreshIdIsFree DEF RouteVacant, SpawnEntity
  <2>2. /\ Receive(Envelope(k, n)) /\ entries[k].kind = "vacant"
        /\ pc' = "delivering" /\ pc = "ready" /\ UNCHANGED <<entries, keys, ticker, sent>>
    BY DEF RouteVacant, SpawnEntity, Receive, state
  <2>3. /\ life'[e] = "running" /\ owner'[e] = k
        /\ \A b \in Actors \ {e} : life'[b] = life[b] /\ owner'[b] = owner[b]
    BY <2>1 DEF Inv, TableType
  <2>4. \A b \in Actors : owner[b] # k
    <3> SUFFICES ASSUME NEW b \in Actors, owner[b] = k PROVE FALSE
      OBVIOUS
    <3>1. life[b] \notin {"none", "ended"} /\ ChildOk(b) /\ KeyOk(b) /\ TickerOk
      BY Constants DEF Inv, KnownInv, EntryInv, OwnerInv
    <3>2. keys[b] = k
      BY <2>2, <3>1, Constants DEF ChildOk, TickerOk
    <3>3. QED
      BY <2>2, <3>1, <3>2, Constants DEF KeyOk
  <2>5. keys[e] = None /\ e # ticker /\ fresh'.key = k /\ fresh'.actor = e
    <3>1. KeyOk(e) /\ TickerOk
      BY DEF Inv, KnownInv, EntryInv
    <3>2. QED
      BY <2>1, <2>2, <3>1 DEF KeyOk, TickerOk
  <2>6. TableType'
    <3>1. fresh' \in [key : Keys \cup {None}, actor : Actors \cup {None}, rest : Seq(Message)]
      BY <2>1, SMT
    <3>2. QED
      BY <2>1, <2>2, <3>1, ReceiveTakes DEF Inv, TableType, Life
  <2>7. SignalInv'
    BY <2>1, <2>2, <2>3, <1>SignalsTaken
  <2>8. OwnerInv' /\ OneIncarnation'
    BY <2>3, <2>4, SMT DEF Inv, OwnerInv, OneIncarnation
  <2>9. EntryInv'
    <3>1. ASSUME NEW q \in Keys, EntryOk(q) PROVE EntryOk(q)'
      BY <2>2, <3>1 DEF EntryOk
    <3>2. ASSUME NEW b \in Actors, KeyOk(b) PROVE KeyOk(b)'
      BY <2>2, <2>3, <2>5, <3>2 DEF KeyOk
    <3>3. QED
      BY <3>1, <3>2 DEF Inv, EntryInv
  <2>10. KnownInv'
    <3>1. StartingOk' /\ TickerOk'
      BY <2>2, <2>3, <2>5 DEF Inv, KnownInv, StartingOk, TickerOk
    <3>2. FreshOk'
      BY <2>2, <2>3, <2>5 DEF Inv, KnownInv, FreshOk
    <3>3. ASSUME NEW b \in Actors, ChildOk(b) PROVE ChildOk(b)'
      BY <2>2, <2>3, <2>5, <3>3 DEF ChildOk
    <3>4. QED
      BY <3>1, <3>2, <3>3 DEF Inv, KnownInv
  <2>11. QED
    BY <2>6, <2>7, <2>8, <2>9, <2>10 DEF Inv
<1>DeliverStep. ASSUME Deliver
                PROVE  Inv'
  <2> USE <1>DeliverStep
  <2>1. /\ fresh' = [fresh EXCEPT !.rest = Tail(@)] /\ fresh.rest # <<>>
        /\ UNCHANGED <<pc, entries, keys, ticker, incoming, life, owner, sent>>
    BY DEF Deliver, state
  <2>2. /\ fresh' \in [key : Keys \cup {None}, actor : Actors \cup {None}, rest : Seq(Message)]
        /\ fresh'.key = fresh.key /\ fresh'.actor = fresh.actor
    <3>1. Tail(fresh.rest) \in Seq(Message)
      BY <2>1, SMT DEF Inv, TableType
    <3>2. QED
      BY <2>1, <3>1 DEF Inv, TableType
  <2>3. TableType'
    BY <2>1, <2>2 DEF Inv, TableType
  <2>4. SignalInv'
    BY <2>1, SignalsKept
  <2>5. OwnerInv' /\ OneIncarnation'
    BY <2>1 DEF Inv, OwnerInv, OneIncarnation
  <2>6. EntryInv'
    <3>1. ASSUME NEW q \in Keys, EntryOk(q) PROVE EntryOk(q)'
      BY <2>1, <3>1 DEF EntryOk
    <3>2. ASSUME NEW b \in Actors, KeyOk(b) PROVE KeyOk(b)'
      BY <2>1, <3>2 DEF KeyOk
    <3>3. QED
      BY <3>1, <3>2 DEF Inv, EntryInv
  <2>7. KnownInv'
    <3>1. StartingOk' /\ TickerOk'
      BY <2>1 DEF Inv, KnownInv, StartingOk, TickerOk
    <3>2. FreshOk'
      BY <2>1, <2>2 DEF Inv, KnownInv, FreshOk
    <3>3. ASSUME NEW b \in Actors, ChildOk(b) PROVE ChildOk(b)'
      BY <2>1, <2>2, <3>3 DEF ChildOk
    <3>4. QED
      BY <3>1, <3>2, <3>3 DEF Inv, KnownInv
  <2>8. QED
    BY <2>3, <2>4, <2>5, <2>6, <2>7 DEF Inv
<1>RememberStep. ASSUME Remember
                 PROVE  Inv'
  <2> USE <1>RememberStep
  <2>1. PICK a \in Actors, k \in Keys : a = fresh.actor /\ k = fresh.key
    BY DEF Remember, Inv, KnownInv, FreshOk
  <2>2. /\ pc = "delivering" /\ pc' = "ready" /\ fresh' = NoEntity
        /\ keys' = [keys EXCEPT ![a] = k] /\ entries' = [entries EXCEPT ![k] = Live(a)]
        /\ UNCHANGED <<ticker, incoming, life, owner, sent>>
    BY <2>1 DEF Remember, Remembered
  <2>3. /\ keys'[a] = k /\ \A b \in Actors \ {a} : keys'[b] = keys[b]
        /\ entries'[k].kind = "live" /\ entries'[k].actor = a
        /\ \A q \in Keys \ {k} : entries'[q] = entries[q]
    BY <2>2, EntryFields DEF Inv, TableType
  <2>4. /\ entries[k].kind = "vacant" /\ entries[k].actor = None /\ keys[a] = None
        /\ life[a] # "none" /\ a # ticker /\ owner[a] \in {None, k}
    <3>1. FreshOk /\ EntryOk(k)
      BY DEF Inv, KnownInv, EntryInv
    <3>2. QED
      BY <2>1, <2>2, <3>1 DEF FreshOk, EntryOk
  <2>5. TableType' /\ SignalInv'
    <3>1. entries' \in [Keys -> Entry]
      <4>1. Live(a) \in Entry
        BY EntryType
      <4>2. QED
        BY <2>2, <4>1 DEF Inv, TableType
    <3>2. keys' \in [Actors -> Keys \cup {None}]
      BY <2>2 DEF Inv, TableType
    <3>3. fresh' \in [key : Keys \cup {None}, actor : Actors \cup {None}, rest : Seq(Message)]
      BY <2>2, SMT DEF NoEntity
    <3>4. TableType'
      BY <2>2, <3>1, <3>2, <3>3 DEF Inv, TableType
    <3>5. QED
      BY <2>2, <3>4, SignalsKept
  <2>6. OwnerInv' /\ OneIncarnation'
    BY <2>2 DEF Inv, OwnerInv, OneIncarnation
  <2>7. EntryInv'
    <3>1. ASSUME NEW q \in Keys, EntryOk(q) PROVE EntryOk(q)'
      <4>1. CASE q = k
        BY <2>3, <4>1 DEF EntryOk
      <4>2. CASE q # k
        <5>1. entries'[q] = entries[q]
          BY <2>3, <4>2
        <5>2. CASE entries[q].kind = "vacant"
          BY <3>1, <5>1, <5>2 DEF EntryOk
        <5>3. CASE entries[q].kind # "vacant"
          <6>1. entries[q].actor \in Actors /\ keys[entries[q].actor] = q
            BY <3>1, <5>3 DEF EntryOk
          <6>2. entries[q].actor # a
            BY <2>4, <6>1, Constants
          <6>3. QED
            BY <2>3, <5>1, <5>3, <6>1, <6>2 DEF EntryOk
        <5>4. QED
          BY <5>2, <5>3
      <4>3. QED
        BY <4>1, <4>2
    <3>2. ASSUME NEW b \in Actors, KeyOk(b) PROVE KeyOk(b)'
      <4>1. CASE b = a
        BY <2>2, <2>3, <2>4, <4>1 DEF KeyOk
      <4>2. CASE b # a
        <5>1. keys[b] \in Keys \cup {None} /\ keys'[b] = keys[b]
          BY <2>3, <4>2 DEF Inv, TableType
        <5>2. QED
          BY <2>2, <2>3, <2>4, <3>2, <5>1, SMT DEF KeyOk
      <4>3. QED
        BY <4>1, <4>2
    <3>3. QED
      BY <3>1, <3>2 DEF Inv, EntryInv
  <2>8. KnownInv'
    <3>1. StartingOk' /\ TickerOk'
      BY <2>2, <2>3, <2>4 DEF Inv, KnownInv, StartingOk, TickerOk
    <3>2. FreshOk'
      BY <2>2 DEF FreshOk
    <3>3. ASSUME NEW b \in Actors, ChildOk(b) PROVE ChildOk(b)'
      BY <2>1, <2>2, <2>3, <2>4, <3>3, Constants, SMT DEF ChildOk
    <3>4. QED
      BY <3>1, <3>2, <3>3 DEF Inv, KnownInv
  <2>9. QED
    BY <2>5, <2>6, <2>7, <2>8 DEF Inv
(* The ticker is replaced, and some entities are asked to stop.            *)
<1>SweepStep. ASSUME NEW idle \in SUBSET LiveKeys, Sweep(idle)
              PROVE  Inv'
  <2> USE <1>SweepStep
  <2>1. /\ Receive(Terminated(ticker)) /\ pc = "ready" /\ pc' = pc
        /\ UNCHANGED <<keys, fresh, sent>>
    BY DEF Sweep, Receive
  <2>2. ticker \in Actors /\ life[ticker] = "ended" /\ owner[ticker] = None
    BY <2>1, SignalIsOfEnded DEF Inv, KnownInv, TickerOk
  <2>3. PICK t \in Actors :
          /\ life[t] = "none" /\ ticker' = t
          /\ life' = [[life EXCEPT ![ticker] = "none"] EXCEPT ![t] = "running"]
          /\ owner' = [owner EXCEPT ![t] = None]
    BY FreshIdIsFree DEF Sweep, NextTicker, TickLater, Forgotten
  <2>4. /\ t # ticker /\ life'[t] = "running" /\ life'[ticker] = "none" /\ owner'[t] = None
        /\ \A b \in Actors \ {t, ticker} : life'[b] = life[b]
        /\ \A b \in Actors \ {t} : owner'[b] = owner[b]
    BY <2>2, <2>3 DEF Inv, TableType
  <2>5. keys[t] = None /\ keys[ticker] = None
    BY <2>1, <2>3 DEF Inv, EntryInv, KeyOk, KnownInv, TickerOk
  <2>6. /\ entries' \in [Keys -> Entry]
        /\ \A q \in Keys : /\ entries'[q].actor = entries[q].actor
                           /\ entries'[q].kind = "vacant" <=> entries[q].kind = "vacant"
    <3>1. entries' = [q \in Keys |-> IF q \in Asked(idle) THEN Stopping(entries[q].actor)
                                                         ELSE entries[q]]
      BY DEF Sweep, Passivating
    <3>2. \A q \in Asked(idle) : entries[q].kind = "live"
      BY DEF Asked, LiveKeys
    <3>3. ASSUME NEW q \in Keys
          PROVE  /\ entries'[q] \in Entry /\ entries'[q].actor = entries[q].actor
                 /\ entries'[q].kind = "vacant" <=> entries[q].kind = "vacant"
      <4>1. entries[q] \in Entry /\ entries[q].actor \in Actors \cup {None}
        BY DEF Inv, TableType, Entry
      <4>2. CASE q \in Asked(idle)
        <5>1. entries'[q] = Stopping(entries[q].actor)
          BY <3>1, <4>2
        <5>2. QED
          BY <3>2, <4>1, <4>2, <5>1, SMT DEF Stopping, Entry
      <4>3. CASE q \notin Asked(idle)
        BY <3>1, <4>1, <4>3
      <4>4. QED
        BY <4>2, <4>3
    <3>4. entries' \in [Keys -> Entry]
      BY <3>1, <3>3
    <3>5. QED
      BY <3>3, <3>4
  <2>7. TableType'
    <3>1. life' \in [Actors -> Life] /\ owner' \in [Actors -> Keys \cup {None}]
      BY <2>2, <2>3 DEF Inv, TableType, Life
    <3>2. QED
      BY <2>1, <2>3, <2>6, <3>1, ReceiveTakes DEF Inv, TableType
  <2>8. SignalInv'
    <3>1. \A b \in Actors : life[b] = "ended" /\ b # Terminated(ticker).actor => life'[b] = "ended"
      BY <2>3, <2>4 DEF Terminated
    <3>2. QED
      BY <2>1, <3>1, <1>SignalsTaken
  <2>9. OwnerInv' /\ OneIncarnation'
    BY <2>2, <2>4 DEF Inv, OwnerInv, OneIncarnation
  <2>10. EntryInv'
    <3>1. ASSUME NEW q \in Keys, EntryOk(q) PROVE EntryOk(q)'
      BY <2>1, <2>6, <3>1 DEF EntryOk
    <3>2. ASSUME NEW b \in Actors, KeyOk(b) PROVE KeyOk(b)'
      <4>1. CASE keys[b] = None
        BY <2>1, <4>1 DEF KeyOk
      <4>2. CASE keys[b] # None
        <5>1. b # t /\ b # ticker /\ keys[b] \in Keys
          BY <2>5, <4>2 DEF Inv, TableType
        <5>2. QED
          BY <2>1, <2>4, <2>6, <3>2, <5>1 DEF KeyOk
      <4>3. QED
        BY <4>1, <4>2
    <3>3. QED
      BY <3>1, <3>2 DEF Inv, EntryInv
  <2>11. KnownInv'
    <3>1. StartingOk' /\ TickerOk'
      BY <2>1, <2>3, <2>4, <2>5 DEF Inv, KnownInv, StartingOk, TickerOk
    <3>2. FreshOk'
      BY <2>1 DEF Inv, KnownInv, FreshOk
    <3>3. ASSUME NEW b \in Actors, ChildOk(b) PROVE ChildOk(b)'
      BY <2>1, <2>3, <2>4, <2>5, <3>3 DEF ChildOk
    <3>4. QED
      BY <3>1, <3>2, <3>3 DEF Inv, KnownInv
  <2>12. QED
    BY <2>7, <2>8, <2>9, <2>10, <2>11 DEF Inv
<1>TerminatedUnknownStep. ASSUME NEW a \in Actors, TerminatedUnknown(a)
                          PROVE  Inv'
  <2> USE <1>TerminatedUnknownStep
  <2>1. /\ Receive(Terminated(a)) /\ a # ticker /\ keys[a] = None /\ pc = "ready"
        /\ life' = [life EXCEPT ![a] = "none"]
        /\ UNCHANGED <<pc, entries, keys, ticker, fresh, owner, sent>>
    BY DEF TerminatedUnknown, Receive, Forgotten, state
  <2>2. life[a] = "ended" /\ owner[a] = None
    BY <2>1, SignalIsOfEnded
  <2>3. life'[a] = "none" /\ \A b \in Actors \ {a} : life'[b] = life[b]
    BY <2>1 DEF Inv, TableType
  <2>4. TableType'
    BY <2>1, ReceiveTakes DEF Inv, TableType, Life
  <2>5. SignalInv'
    BY <2>1, <2>3, <1>SignalsTaken DEF Terminated
  <2>6. OwnerInv' /\ OneIncarnation'
    BY <2>1, <2>2, <2>3 DEF Inv, OwnerInv, OneIncarnation
  <2>7. EntryInv'
    <3>1. ASSUME NEW q \in Keys, EntryOk(q) PROVE EntryOk(q)'
      BY <2>1, <3>1 DEF EntryOk
    <3>2. ASSUME NEW b \in Actors, KeyOk(b) PROVE KeyOk(b)'
      BY <2>1, <2>3, <3>2 DEF KeyOk
    <3>3. QED
      BY <3>1, <3>2 DEF Inv, EntryInv
  <2>8. KnownInv'
    <3>1. StartingOk' /\ TickerOk'
      BY <2>1, <2>3 DEF Inv, KnownInv, StartingOk, TickerOk
    <3>2. FreshOk'
      BY <2>1 DEF Inv, KnownInv, FreshOk
    <3>3. ASSUME NEW b \in Actors, ChildOk(b) PROVE ChildOk(b)'
      BY <2>1, <2>3, <3>3 DEF ChildOk
    <3>4. QED
      BY <3>1, <3>2, <3>3 DEF Inv, KnownInv
  <2>9. QED
    BY <2>4, <2>5, <2>6, <2>7, <2>8 DEF Inv
(* Forget takes an id and the entry of its key away, and leaves no owner.  *)
<1>ForgetTakes. ASSUME NEW a \in Actors, Receive(Terminated(a)), a # ticker, keys[a] # None, Forget(a)
                PROVE  /\ keys' \in [Actors -> Keys \cup {None}]
                       /\ entries' \in [Keys -> Entry]
                       /\ keys[a] \in Keys
                       /\ keys'[a] = None /\ \A b \in Actors \ {a} : keys'[b] = keys[b] /\ keys[b] # keys[a]
                       /\ entries'[keys[a]].kind = "vacant" /\ entries'[keys[a]].actor = None
                       /\ \A q \in Keys \ {keys[a]} : entries'[q] = entries[q] /\ entries[q].actor # a
                       /\ \A b \in Actors : owner[b] # keys[a]
  <2> USE <1>ForgetTakes
  <2>1. life[a] = "ended" /\ owner[a] = None /\ pc = "ready" /\ keys[a] \in Keys
    BY SignalIsOfEnded, ReceiveTakes DEF Inv, TableType
  <2>2. /\ keys' = [keys EXCEPT ![a] = None] /\ entries' = [entries EXCEPT ![keys[a]] = Vacant]
    BY DEF Forget
  <2>3. /\ keys'[a] = None /\ \A b \in Actors \ {a} : keys'[b] = keys[b]
        /\ entries'[keys[a]] = Vacant /\ \A q \in Keys \ {keys[a]} : entries'[q] = entries[q]
        /\ keys' \in [Actors -> Keys \cup {None}]
    BY <2>1, <2>2 DEF Inv, TableType
  <2>4. ASSUME NEW b \in Actors \ {a} PROVE keys[b] # keys[a]
    <3>1. KeyOk(a) /\ KeyOk(b)
      BY DEF Inv, EntryInv
    <3>2. QED
      BY <3>1 DEF KeyOk
  <2>5. ASSUME NEW q \in Keys \ {keys[a]} PROVE entries[q].actor # a
    <3>1. EntryOk(q)
      BY DEF Inv, EntryInv
    <3>2. QED
      BY <3>1, Constants DEF EntryOk
  <2>6. ASSUME NEW b \in Actors, owner[b] = keys[a] PROVE FALSE
    <3>1. b # a /\ life[b] \notin {"none", "ended"} /\ ChildOk(b) /\ TickerOk
      BY <2>1, <2>6 DEF Inv, KnownInv, OwnerInv
    <3>2. QED
      BY <2>1, <2>4, <2>6, <3>1 DEF ChildOk, TickerOk
  <2>7. entries' \in [Keys -> Entry]
    <3>1. Vacant \in Entry
      BY EntryType
    <3>2. QED
      BY <2>2, <3>1 DEF Inv, TableType
  <2>8. entries'[keys[a]].kind = "vacant" /\ entries'[keys[a]].actor = None
    BY <2>3, EntryFields
  <2>9. QED
    BY <2>1, <2>3, <2>4, <2>5, <2>6, <2>7, <2>8
<1>TerminatedUnclaimedStep. ASSUME NEW a \in Actors, TerminatedUnclaimed(a)
                            PROVE  Inv'
  <2> USE <1>TerminatedUnclaimedStep
  <2>1. /\ Receive(Terminated(a)) /\ a # ticker /\ keys[a] # None /\ Forget(a) /\ pc = "ready"
        /\ life' = [life EXCEPT ![a] = "none"]
        /\ UNCHANGED <<pc, ticker, fresh, owner, sent>>
    BY DEF TerminatedUnclaimed, Receive, Forgotten
  <2>2. life[a] = "ended" /\ owner[a] = None
    BY <2>1, SignalIsOfEnded
  <2>3. life'[a] = "none" /\ \A b \in Actors \ {a} : life'[b] = life[b]
    BY <2>1 DEF Inv, TableType
  <2>4. TableType'
    <3>1. life' \in [Actors -> Life]
      BY <2>1 DEF Inv, TableType, Life
    <3>2. QED
      BY <2>1, <3>1, ReceiveTakes, <1>ForgetTakes DEF Inv, TableType
  <2>5. SignalInv'
    BY <2>1, <2>3, <1>SignalsTaken DEF Terminated
  <2>6. OwnerInv' /\ OneIncarnation'
    BY <2>1, <2>2, <2>3 DEF Inv, OwnerInv, OneIncarnation
  <2>7. EntryInv'
    <3>1. PICK k \in Keys : k = keys[a]
      BY <2>1, <1>ForgetTakes
    <3>2. ASSUME NEW q \in Keys, EntryOk(q) PROVE EntryOk(q)'
      <4>1. CASE q = k
        BY <2>1, <3>1, <4>1, <1>ForgetTakes DEF EntryOk
      <4>2. CASE q # k
        <5>1. entries'[q] = entries[q] /\ entries[q].actor # a
          BY <2>1, <3>1, <4>2, <1>ForgetTakes
        <5>2. \A b \in Actors \ {a} : keys'[b] = keys[b]
          BY <2>1, <1>ForgetTakes
        <5>3. QED
          BY <3>2, <5>1, <5>2 DEF EntryOk
      <4>3. QED
        BY <4>1, <4>2
    <3>3. ASSUME NEW b \in Actors, KeyOk(b), keys'[b] # None PROVE KeyOk(b)'
      <4>1. b # a /\ keys'[b] = keys[b] /\ keys[b] # k /\ keys[b] \in Keys
        BY <2>1, <3>1, <3>3, <1>ForgetTakes, SMT DEF Inv, TableType
      <4>2. entries'[keys[b]] = entries[keys[b]]
        BY <2>1, <3>1, <4>1, <1>ForgetTakes
      <4>3. QED
        BY <2>1, <2>3, <3>3, <4>1, <4>2 DEF KeyOk
    <3>4. ASSUME NEW b \in Actors, keys'[b] = None PROVE KeyOk(b)'
      BY <3>4 DEF KeyOk
    <3>5. QED
      BY <3>2, <3>3, <3>4 DEF Inv, EntryInv
  <2>8. KnownInv'
    <3>1. keys'[a] = None /\ \A b \in Actors \ {a} : keys'[b] = keys[b]
      BY <2>1, <1>ForgetTakes
    <3>2. StartingOk' /\ TickerOk'
      BY <2>1, <2>3, <3>1 DEF Inv, KnownInv, StartingOk, TickerOk
    <3>3. FreshOk'
      BY <2>1 DEF FreshOk
    <3>4. ASSUME NEW b \in Actors, ChildOk(b) PROVE ChildOk(b)'
      BY <2>1, <2>3, <3>1, <3>4 DEF ChildOk
    <3>5. QED
      BY <3>2, <3>3, <3>4 DEF Inv, KnownInv
  <2>9. QED
    BY <2>4, <2>5, <2>6, <2>7, <2>8 DEF Inv
(* The entity is replaced by one for what was buffered.                    *)
<1>TerminatedClaimedStep. ASSUME NEW a \in Actors, TerminatedClaimed(a)
                          PROVE  Inv'
  <2> USE <1>TerminatedClaimedStep
  <2>1. /\ Receive(Terminated(a)) /\ a # ticker /\ keys[a] # None /\ Forget(a) /\ pc = "ready"
        /\ pc' = "delivering" /\ UNCHANGED <<ticker, sent>>
    BY DEF TerminatedClaimed, SpawnEntity, Receive
  <2>2. life[a] = "ended" /\ owner[a] = None
    BY <2>1, SignalIsOfEnded
  <2>3. PICK e \in Actors, k \in Keys, rest \in Seq(Message) :
          /\ life[e] = "none" /\ k = keys[a]
          /\ life' = [[life EXCEPT ![a] = "none"] EXCEPT ![e] = "running"]
          /\ owner' = [owner EXCEPT ![e] = k]
          /\ fresh' = [key |-> k, actor |-> e, rest |-> rest]
    <3>1. PICK k \in Keys : k = keys[a]
      BY <2>1, <1>ForgetTakes
    <3>2. entries[k].buffered \in Seq(Message)
      BY DEF Inv, TableType, Entry
    <3>3. QED
      BY <3>1, <3>2, FreshIdIsFree DEF TerminatedClaimed, SpawnEntity, Forgotten
  <2>4. /\ e # a /\ life'[e] = "running" /\ life'[a] = "none" /\ owner'[e] = k
        /\ \A b \in Actors \ {e, a} : life'[b] = life[b]
        /\ \A b \in Actors \ {e} : owner'[b] = owner[b]
    BY <2>2, <2>3 DEF Inv, TableType
  <2>5. /\ keys'[a] = None /\ \A b \in Actors \ {a} : keys'[b] = keys[b] /\ keys[b] # k
        /\ entries'[k].kind = "vacant" /\ entries'[k].actor = None
        /\ \A q \in Keys \ {k} : entries'[q] = entries[q] /\ entries[q].actor # a
        /\ \A b \in Actors : owner[b] # k
    BY <2>1, <2>3, <1>ForgetTakes
  <2>6. keys'[e] = None /\ e # ticker /\ fresh'.key = k /\ fresh'.actor = e
    <3>1. KeyOk(e) /\ TickerOk
      BY DEF Inv, EntryInv, KnownInv
    <3>2. QED
      BY <2>1, <2>3, <2>4, <2>5, <3>1 DEF KeyOk, TickerOk
  <2>7. TableType'
    <3>1. /\ life' \in [Actors -> Life] /\ owner' \in [Actors -> Keys \cup {None}]
          /\ fresh' \in [key : Keys \cup {None}, actor : Actors \cup {None}, rest : Seq(Message)]
      <4>1. life' \in [Actors -> Life]
        BY <2>3 DEF Inv, TableType, Life
      <4>2. owner' \in [Actors -> Keys \cup {None}]
        BY <2>3 DEF Inv, TableType
      <4>3. QED
        BY <2>3, <4>1, <4>2
    <3>2. QED
      BY <2>1, <3>1, ReceiveTakes, <1>ForgetTakes DEF Inv, TableType
  <2>8. SignalInv'
    <3>1. \A b \in Actors : life[b] = "ended" /\ b # Terminated(a).actor => life'[b] = "ended"
      BY <2>3, <2>4 DEF Terminated
    <3>2. QED
      BY <2>1, <3>1, <1>SignalsTaken
  <2>9. OwnerInv' /\ OneIncarnation'
    <3>1. ASSUME NEW b \in Actors, owner'[b] # None PROVE life'[b] \notin {"none", "ended"}
      BY <2>2, <2>4, <3>1 DEF Inv, OwnerInv
    <3>2. OneIncarnation'
      <4>1. ASSUME NEW b \in Actors, NEW c \in Actors, owner'[b] # None, owner'[b] = owner'[c]
            PROVE  b = c
        <5>1. CASE b # e /\ c # e
          BY <2>4, <4>1, <5>1 DEF Inv, OneIncarnation
        <5>2. CASE b = e \/ c = e
          BY <2>4, <2>5, <4>1, <5>2, SMT
        <5>3. QED
          BY <5>1, <5>2
      <4>2. QED
        BY <4>1 DEF OneIncarnation
    <3>3. QED
      BY <3>1, <3>2 DEF OwnerInv
  <2>10. EntryInv'
    <3>1. ASSUME NEW q \in Keys, EntryOk(q) PROVE EntryOk(q)'
      <4>1. CASE q = k
        BY <2>5, <4>1 DEF EntryOk
      <4>2. CASE q # k
        BY <2>5, <3>1, <4>2 DEF EntryOk
      <4>3. QED
        BY <4>1, <4>2
    <3>2. ASSUME NEW b \in Actors, KeyOk(b), keys'[b] # None PROVE KeyOk(b)'
      <4>1. b # a /\ b # e /\ keys'[b] = keys[b] /\ keys[b] # k /\ keys[b] \in Keys
        BY <2>5, <2>6, <3>2 DEF Inv, TableType
      <4>2. entries'[keys[b]] = entries[keys[b]]
        BY <2>5, <4>1
      <4>3. QED
        BY <2>4, <3>2, <4>1, <4>2 DEF KeyOk
    <3>3. ASSUME NEW b \in Actors, keys'[b] = None PROVE KeyOk(b)'
      BY <3>3 DEF KeyOk
    <3>4. QED
      BY <3>1, <3>2, <3>3 DEF Inv, EntryInv
  <2>11. KnownInv'
    <3>1. StartingOk' /\ TickerOk'
      BY <2>1, <2>4, <2>5, <2>6 DEF Inv, KnownInv, StartingOk, TickerOk
    <3>2. FreshOk'
      BY <2>1, <2>4, <2>5, <2>6 DEF FreshOk
    <3>3. ASSUME NEW b \in Actors, ChildOk(b) PROVE ChildOk(b)'
      <4>1. CASE b = e
        BY <2>1, <2>4, <2>6, <4>1 DEF ChildOk
      <4>2. CASE b # e
        BY <2>1, <2>4, <2>5, <3>3, <4>2 DEF ChildOk
      <4>3. QED
        BY <4>1, <4>2
    <3>4. QED
      BY <3>1, <3>2, <3>3 DEF Inv, KnownInv
  <2>12. QED
    BY <2>7, <2>8, <2>9, <2>10, <2>11 DEF Inv
<1>3. CASE HostStep
  BY <1>3, <1>HostInitStep, <1>RouteLiveStep, <1>RouteStoppingStep, <1>RouteVacantStep, <1>DeliverStep,
     <1>RememberStep, <1>SweepStep, <1>TerminatedUnknownStep, <1>TerminatedUnclaimedStep,
     <1>TerminatedClaimedStep DEF HostStep
<1>FailureStep. ASSUME Failure
                PROVE  Inv'
  <2> USE <1>FailureStep
  <2>FailStep. ASSUME NEW lost, Fail(lost), NEW item, Receive(item),
                      \/ life' = life
                      \/ \E a \in Actors : item = Terminated(a) /\ life[a] = "ended" /\ life' = Forgotten(a)
               PROVE  Inv'
    <3> USE <2>FailStep
    <3>1. /\ pc' = "starting" /\ ticker' = None /\ UNCHANGED <<fresh, owner, sent>>
          /\ entries' = [k \in Keys |-> Vacant] /\ keys' = [a \in Actors |-> None]
      BY DEF Fail
    <3>2. \A b \in Actors :
            life'[b] = life[b] \/ (life[b] = "ended" /\ life'[b] = "none" /\ item.actor = b)
      BY SMT DEF Inv, TableType, Forgotten, Terminated
    <3>3. life' \in [Actors -> Life]
      BY DEF Inv, TableType, Forgotten, Life
    <3>4. TableType'
      <4>1. Vacant \in Entry
        BY EntryType
      <4>2. entries' \in [Keys -> Entry] /\ keys' \in [Actors -> Keys \cup {None}]
        BY <3>1, <4>1
      <4>3. QED
        BY <3>1, <3>3, <4>2, ReceiveTakes DEF Inv, TableType
    <3>5. SignalInv'
      BY <3>2, <1>SignalsTaken
    <3>6. OwnerInv' /\ OneIncarnation'
      BY <3>1, <3>2 DEF Inv, OwnerInv, OneIncarnation
    <3>7. EntryInv' /\ KnownInv'
      <4>1. ASSUME NEW q \in Keys PROVE EntryOk(q)'
        BY <3>1, EntryFields DEF EntryOk
      <4>2. ASSUME NEW b \in Actors PROVE KeyOk(b)' /\ ChildOk(b)'
        BY <3>1 DEF KeyOk, ChildOk
      <4>3. StartingOk' /\ TickerOk' /\ FreshOk'
        BY <3>1 DEF StartingOk, TickerOk, FreshOk
      <4>4. QED
        BY <4>1, <4>2, <4>3 DEF EntryInv, KnownInv
    <3>8. QED
      BY <3>4, <3>5, <3>6, <3>7 DEF Inv
  <2>1. ASSUME NEW k \in Keys, NEW n \in Message, RouteFails(k, n) PROVE Inv'
    <3>1. Fail(Lost(k, {n}, "host failed")) /\ Receive(Envelope(k, n)) /\ life' = life
      BY <2>1 DEF RouteFails
    <3>2. QED
      BY <3>1, <2>FailStep
  <2>2. ASSUME NEW a \in Actors, ReplaceFails(a) PROVE Inv'
    <3>1. Fail({}) /\ Receive(Terminated(a)) /\ life' = Forgotten(a)
      BY <2>2 DEF ReplaceFails
    <3>2. QED
      BY <3>1, <2>FailStep, SignalIsOfEnded
  <2>3. ASSUME NEW idle \in SUBSET LiveKeys, SweepFails(idle) PROVE Inv'
    <3>1. Fail({}) /\ Receive(Terminated(ticker)) /\ life' = Forgotten(ticker) /\ pc = "ready"
      BY <2>3 DEF SweepFails, Receive
    <3>2. ticker \in Actors
      BY <3>1 DEF Inv, KnownInv, TickerOk
    <3>3. QED
      BY <3>1, <3>2, <2>FailStep, SignalIsOfEnded
  <2>4. QED
    BY <2>1, <2>2, <2>3 DEF Failure
<1>4. CASE Failure
  BY <1>4, <1>FailureStep
<1>ChildStepKeeps. ASSUME NEW a \in Actors,
                          Handle(a) \/ HandlePassivate(a) \/ StopAlone(a) \/ StoppedByParent(a) \/ Close(a)
                   PROVE  Inv'
  <2> USE <1>ChildStepKeeps
  <2>1. UNCHANGED <<tables, incoming, sent>>
    BY DEF Handle, HandlePassivate, StopAlone, StoppedByParent, Close, tables
  <2>2. \/ life' = life
        \/ \E l \in {"passivated", "terminating", "closed"} :
             life' = [life EXCEPT ![a] = l] /\ life[a] \notin {"none", "ended"}
    BY DEF Handle, HandlePassivate, StopAlone, StoppedByParent, Close
  <2>3. life' \in [Actors -> Life]
    BY <2>2 DEF Inv, TableType, Life
  <2>4. TableType'
    BY <2>1, <2>3 DEF Inv, TableType, tables, state
  <2>5. \A b \in Actors : life'[b] = life[b] \/ {life[b], life'[b]} \cap {"none", "ended"} = {}
    BY <2>2 DEF Inv, TableType
  <2>6. SignalInv'
    BY <2>1, <2>5, SignalsKept
  <2>7. QED
    BY <2>1, <2>4, <2>5, <2>6, <1>LifeStep
<1>EndedStep. ASSUME NEW a \in Actors, End(a) \/ Tick(a)
              PROVE  Inv'
  <2> USE <1>EndedStep
  <2>1. /\ life[a] \notin {"none", "ended"}
        /\ life' = [life EXCEPT ![a] = "ended"]
        /\ owner' = [owner EXCEPT ![a] = None]
        /\ incoming' = Append(incoming, Terminated(a))
        /\ UNCHANGED <<pc, state, fresh, sent>>
    BY DEF End, Tick, Ended
  <2>2. Terminated(a) \in Incoming /\ Terminated(a).actor = a /\ a # None
    BY Constants, SMT DEF Incoming, Terminated
  <2>3. TableType'
    BY <2>1, <2>2, <1>AppendItem DEF Inv, TableType, Life, state
  <2>4. SignalInv'
    <3>1. \A i \in DOMAIN incoming : incoming[i].actor # a
      BY <2>1, <2>2 DEF Inv, SignalInv
    <3>2. \A i \in DOMAIN incoming : incoming[i].actor # None => incoming[i].actor \in Actors
      BY Constants, SMT DEF Inv, TableType, Incoming, Envelope, Terminated
    <3>3. life'[a] = "ended" /\ \A b \in Actors \ {a} : life'[b] = life[b]
      BY <2>1 DEF Inv, TableType
    <3>4. QED
      BY <2>1, <2>2, <3>1, <3>2, <3>3, <1>AppendItem, SMT DEF Inv, SignalInv
  <2>5. /\ life'[a] = "ended" /\ owner'[a] = None
        /\ \A b \in Actors \ {a} : life'[b] = life[b] /\ owner'[b] = owner[b]
    BY <2>1 DEF Inv, TableType
  <2>6. OwnerInv' /\ OneIncarnation'
    BY <2>5 DEF Inv, OwnerInv, OneIncarnation
  <2>7. UNCHANGED <<pc, entries, keys, ticker, fresh>>
    BY <2>1 DEF state
  <2>8. EntryInv'
    <3>1. ASSUME NEW q \in Keys, EntryOk(q) PROVE EntryOk(q)'
      BY <2>7, <3>1 DEF EntryOk
    <3>2. ASSUME NEW b \in Actors, KeyOk(b) PROVE KeyOk(b)'
      BY <2>5, <2>7, <3>2 DEF KeyOk
    <3>3. QED
      BY <3>1, <3>2 DEF Inv, EntryInv
  <2>9. KnownInv'
    <3>1. StartingOk' /\ TickerOk'
      BY <2>5, <2>7 DEF Inv, KnownInv, StartingOk, TickerOk
    <3>2. FreshOk'
      BY <2>5, <2>7 DEF Inv, KnownInv, FreshOk
    <3>3. ASSUME NEW b \in Actors, ChildOk(b) PROVE ChildOk(b)'
      BY <2>5, <2>7, <3>3 DEF ChildOk
    <3>4. QED
      BY <3>1, <3>2, <3>3 DEF Inv, KnownInv
  <2>10. QED
    BY <2>3, <2>4, <2>6, <2>8, <2>9 DEF Inv
<1>5. ASSUME NEW a \in Actors, StopAlone(a) \/ ChildStep(a) PROVE Inv'
  BY <1>5, <1>ChildStepKeeps, <1>EndedStep DEF ChildStep
<1>6. QED
  BY <1>1, <1>2, <1>3, <1>4, <1>5 DEF Next

(* The inductive invariant: the host's tables, the lives of its children   *)
(* and the signals under way fit together through route, terminated,       *)
(* passivate_idle and failures of the host.                                *)
THEOREM HostInvariant == Spec => []Inv
BY InitInv, NextInv, PTL DEF Spec

(* A key never has two entities, however passivations, stops and failures  *)
(* of the host interleave with messages: a replacement is spawned by       *)
(* terminated, or by route once the entry is gone.                         *)
THEOREM OneIncarnationPerKey == Spec => []OneIncarnation
<1>1. Inv => OneIncarnation
  BY DEF Inv
<1>2. QED
  BY <1>1, HostInvariant, PTL

(* entries and keys of HostState stay inverse to each other, and between   *)
(* two messages each child running is the ticker or in both.               *)
THEOREM TablesAlwaysAgree == Spec => []TablesAgree
<1>1. Inv => TablesAgree
  <2> SUFFICES ASSUME Inv PROVE TablesAgree
    OBVIOUS
  <2>1. \A k \in Keys : entries[k].kind # "vacant" =>
          keys[entries[k].actor] = k /\ life[entries[k].actor] # "none"
    BY Constants, SMT DEF Inv, EntryInv, EntryOk, KeyOk
  <2>2. \A a \in Actors : keys[a] # None => entries[keys[a]].actor = a
    BY DEF Inv, EntryInv, KeyOk
  <2>3. pc = "ready" => \A a \in Actors :
          life[a] \notin {"none", "ended"} => keys[a] # None \/ a = ticker
    BY DEF Inv, KnownInv, ChildOk
  <2>4. QED
    BY <2>1, <2>2, <2>3 DEF TablesAgree
<1>2. QED
  BY <1>1, HostInvariant, PTL

----------------------------------------------------------------------------
(* Passivations: what an entity asked to stop has in its mailbox.          *)

Item == Message \cup {Passivate}
HasPassivate(box) == \E i \in DOMAIN box : box[i] = Passivate
PassivateLast(box) == \A i \in DOMAIN box : box[i] = Passivate => i = Len(box)

(* The host may still tell a something.                                    *)
Reachable(a) ==
    \/ \E k \in Keys : entries[k].kind = "live" /\ entries[k].actor = a
    \/ pc = "delivering" /\ fresh.actor = a

Silent(a) == owner[a] = None \/ life[a] \in {"none", "passivated", "closed", "ended"}

(* A passivate message is the last one, since nothing is told an entity    *)
(* asked to stop; one that has taken it has nothing queued.                *)
BoxInv(a) ==
    /\ Silent(a) => mailbox[a] = <<>>
    /\ PassivateLast(mailbox[a])
    /\ life[a] = "passivated" \/ HasPassivate(mailbox[a]) => ~Reachable(a)

MailInv ==
    /\ mailbox \in [Actors -> Seq(Item)]
    /\ \A a \in Actors : BoxInv(a)
    /\ PassivationLossless

LEMMA BoxAppend ==
    ASSUME NEW box \in Seq(Item), NEW n \in Message, ~HasPassivate(box)
    PROVE  Append(box, n) \in Seq(Item) /\ ~HasPassivate(Append(box, n))
<1>1. n \in Item /\ n # Passivate
  BY SMT DEF Item, Message, Passivate
<1>2. QED
  <2>1. /\ Append(box, n) \in Seq(Item) /\ Len(box) \in Nat
        /\ \A i \in DOMAIN Append(box, n) :
             \/ i = Len(box) + 1 /\ Append(box, n)[i] = n
             \/ i \in DOMAIN box /\ Append(box, n)[i] = box[i]
    BY <1>1, SMT
  <2>2. QED
    BY <1>1, <2>1 DEF HasPassivate

LEMMA NoPassivateInEmpty == ~HasPassivate(<<>>) /\ PassivateLast(<<>>)
BY SMT DEF HasPassivate, PassivateLast

(* What the host may still tell something, if connected, is an entity.     *)
LEMMA ReachableIsEntity ==
    ASSUME Inv, NEW a \in Actors, Reachable(a), Connected(a)
    PROVE  owner[a] # None
<1>1. life[a] \notin {"none", "ended"}
  BY DEF Connected
<1>2. CASE pc = "delivering" /\ fresh.actor = a
  <2>1. FreshOk /\ ChildOk(a)
    BY DEF Inv, KnownInv
  <2>2. QED
    BY <1>1, <1>2, <2>1, Constants DEF FreshOk, ChildOk
<1>3. ASSUME NEW k \in Keys, entries[k].kind = "live", entries[k].actor = a PROVE owner[a] # None
  <2>1. keys[a] = k /\ k # None
    BY <1>3, Constants DEF Inv, EntryInv, EntryOk
  <2>2. StartingOk /\ TickerOk /\ FreshOk /\ ChildOk(a)
    BY DEF Inv, KnownInv
  <2>3. QED
    BY <1>1, <2>1, <2>2, Constants DEF StartingOk, TickerOk, FreshOk, ChildOk
<1>4. QED
  BY <1>2, <1>3 DEF Reachable

(* Steps that leave the mailboxes alone.                                   *)
LEMMA MailKept ==
    ASSUME MailInv, mailbox' = mailbox,
           \A a \in Actors : Silent(a)' => mailbox[a] = <<>>,
           \A a \in Actors : life'[a] = "passivated" => life[a] = "passivated",
           \A a \in Actors : Reachable(a)' =>
             Reachable(a) \/ (mailbox[a] = <<>> /\ life'[a] # "passivated"),
           \A r \in dropped' : r \in dropped \/ r.why # "passivated"
    PROVE  MailInv'
<1>1. ASSUME NEW a \in Actors PROVE BoxInv(a)'
  BY NoPassivateInEmpty DEF MailInv, BoxInv
<1>2. PassivationLossless'
  BY DEF MailInv, PassivationLossless
<1>3. QED
  BY <1>1, <1>2 DEF MailInv

LEMMA NextMail ==
    ASSUME Inv, MailInv, [Next]_vars
    PROVE  MailInv'
<1>1. CASE UNCHANGED vars
  <2>1. UNCHANGED <<mailbox, life, owner, entries, pc, fresh, dropped>>
    BY <1>1 DEF vars, state, ghosts
  <2>2. \A a \in Actors : (Silent(a)' => Silent(a)) /\ (Reachable(a)' => Reachable(a))
    BY <2>1 DEF Silent, Reachable
  <2>3. \A a \in Actors : Silent(a)' => mailbox[a] = <<>>
    BY <2>2 DEF MailInv, BoxInv
  <2>4. QED
    BY <2>1, <2>2, <2>3, MailKept
(* Steps of the host that neither spawn nor tell.                          *)
<1>QuietKeepsMail. ASSUME \/ \E k \in Keys : Send(k)
                          \/ HostInit \/ Remember
                          \/ \E k \in Keys, n \in Message : RouteStopping(k, n)
                          \/ \E a \in Actors : TerminatedUnknown(a) \/ TerminatedUnclaimed(a)
                   PROVE  MailInv'
  <2> USE <1>QuietKeepsMail
  <2>1. mailbox' = mailbox /\ dropped' = dropped
    BY DEF Send, HostInit, Remember, RouteStopping, TerminatedUnknown, TerminatedUnclaimed, ghosts
  <2>2. \A a \in Actors :
          \/ life'[a] = life[a] /\ owner'[a] = owner[a]
          \/ Silent(a) /\ life'[a] # "passivated"
    <3>1. CASE HostInit
      <4>1. PICK t \in Actors : /\ life[t] = "none" /\ life' = [life EXCEPT ![t] = "running"]
                                /\ owner' = [owner EXCEPT ![t] = None]
        BY <3>1, FreshIdIsFree DEF HostInit, TickLater
      <4>2. QED
        BY <4>1 DEF Inv, TableType, Silent
    <3>2. ASSUME NEW a \in Actors, TerminatedUnknown(a) \/ TerminatedUnclaimed(a)
          PROVE  /\ Silent(a) /\ life'[a] = "none" /\ owner' = owner
                 /\ \A b \in Actors \ {a} : life'[b] = life[b]
      <4>1. life[a] = "ended" /\ life' = [life EXCEPT ![a] = "none"] /\ owner' = owner
        BY <3>2, SignalIsOfEnded DEF TerminatedUnknown, TerminatedUnclaimed, Forgotten
      <4>2. QED
        BY <4>1 DEF Inv, TableType, Silent
    <3>3. CASE UNCHANGED <<life, owner>>
      BY <3>3
    <3>4. QED
      BY <3>1, <3>2, <3>3 DEF Send, Remember, RouteStopping
  <2>3. \A a \in Actors : Silent(a)' => mailbox[a] = <<>>
    BY <2>2 DEF Silent, MailInv, BoxInv
  <2>4. \A a \in Actors : Reachable(a)' => Reachable(a)
    <3>1. CASE UNCHANGED <<entries, pc, fresh>>
      BY <3>1 DEF Reachable
    <3>2. CASE HostInit
      BY <3>2 DEF HostInit, Reachable
    <3>3. CASE Remember
      <4>1. PICK k \in Keys : k = fresh.key
        BY <3>3 DEF Remember, Inv, KnownInv, FreshOk
      <4>2. /\ entries'[k] = Live(fresh.actor) /\ \A q \in Keys \ {k} : entries'[q] = entries[q]
            /\ pc = "delivering" /\ pc' = "ready"
        BY <3>3, <4>1 DEF Remember, Inv, TableType
      <4>3. ASSUME NEW a \in Actors, NEW q \in Keys, entries'[q].kind = "live", entries'[q].actor = a
            PROVE  Reachable(a)
        <5>1. CASE q = k
          <6>1. entries'[k].actor = fresh.actor
            BY <4>2, EntryFields
          <6>2. fresh.actor = a
            BY <4>3, <5>1, <6>1
          <6>3. QED
            BY <4>2, <6>2 DEF Reachable
        <5>2. CASE q # k
          BY <4>2, <4>3, <5>2 DEF Reachable
        <5>3. QED
          BY <5>1, <5>2
      <4>4. QED
        BY <4>2, <4>3 DEF Reachable
    <3>4. ASSUME NEW k \in Keys, NEW n \in Message, RouteStopping(k, n)
          PROVE  \A a \in Actors : Reachable(a)' => Reachable(a)
      <4>1. \A q \in Keys \ {k} : entries'[q] = entries[q]
        BY <3>4 DEF RouteStopping, Inv, TableType
      <4>2. entries'[k].kind = "stopping" /\ UNCHANGED <<pc, fresh>>
        <5>1. entries[k] \in Entry /\ entries[k].kind = "stopping"
          BY <3>4 DEF RouteStopping, Inv, TableType
        <5>2. entries'[k] = entries[k] \/ entries'[k] = [entries[k] EXCEPT !.buffered = PushBack(@, n)]
          BY <3>4 DEF RouteStopping, Inv, TableType
        <5>3. QED
          BY <3>4, <5>1, <5>2 DEF RouteStopping, Entry
      <4>3. QED
        BY <4>1, <4>2 DEF Reachable
    <3>5. ASSUME NEW a \in Actors, TerminatedUnclaimed(a)
          PROVE  \A b \in Actors : Reachable(b)' => Reachable(b)
      <4>1. PICK k \in Keys : k = keys[a]
        BY <3>5 DEF TerminatedUnclaimed, Inv, TableType
      <4>2. /\ entries'[k].kind = "vacant" /\ \A q \in Keys \ {k} : entries'[q] = entries[q]
            /\ UNCHANGED <<pc, fresh>>
        BY <3>5, <4>1 DEF TerminatedUnclaimed, Forget, Vacant, Inv, TableType
      <4>3. QED
        BY <4>2 DEF Reachable
    <3>6. QED
      BY <3>1, <3>2, <3>3, <3>4, <3>5 DEF Send, TerminatedUnknown, state
  <2>5. QED
    BY <2>1, <2>2, <2>3, <2>4, MailKept DEF Silent
<1>2. CASE \E k \in Keys : Send(k)
  BY <1>2, <1>QuietKeepsMail
(* Steps of one child, with its mailbox, and of the host telling one.      *)
<1>MailOfOne. ASSUME NEW a \in Actors, NEW box \in Seq(Item),
                     mailbox' = [mailbox EXCEPT ![a] = box],
                     \A b \in Actors \ {a} : life'[b] = life[b],
                     UNCHANGED owner, UNCHANGED entries, UNCHANGED pc, fresh'.actor = fresh.actor,
                     Silent(a)' => box = <<>>, PassivateLast(box),
                     life'[a] = "passivated" \/ HasPassivate(box) => ~Reachable(a),
                     PassivationLossless'
              PROVE  MailInv'
  <2> USE <1>MailOfOne
  <2>1. mailbox' \in [Actors -> Seq(Item)] /\ mailbox'[a] = box
    BY DEF MailInv
  <2>2. \A b \in Actors \ {a} : mailbox'[b] = mailbox[b]
    BY DEF MailInv
  <2>3. \A b \in Actors : Reachable(b)' <=> Reachable(b)
    BY DEF Reachable
  <2>4. BoxInv(a)'
    BY <2>1, <2>3 DEF BoxInv
  <2>5. ASSUME NEW b \in Actors \ {a} PROVE BoxInv(b)'
    BY <2>2, <2>3 DEF MailInv, BoxInv, Silent
  <2>6. QED
    BY <2>1, <2>4, <2>5 DEF MailInv
<1>ToldReachable. ASSUME NEW a \in Actors, NEW n \in Message, Reachable(a), Connected(a),
                         mailbox' = [mailbox EXCEPT ![a] = Append(@, n)],
                         UNCHANGED <<pc, entries, life, owner, dropped>>, fresh'.actor = fresh.actor
                  PROVE  MailInv'
  <2> USE <1>ToldReachable
  <2>1. BoxInv(a) /\ mailbox[a] \in Seq(Item)
    BY DEF MailInv
  <2>2. ~HasPassivate(mailbox[a]) /\ life[a] # "passivated"
    BY <2>1 DEF BoxInv
  <2>3. PICK box \in Seq(Item) : box = Append(mailbox[a], n) /\ ~HasPassivate(box)
    BY <2>1, <2>2, BoxAppend
  <2>4. ~Silent(a)'
    BY <2>2, ReachableIsEntity DEF Silent, Connected
  <2>5. mailbox' = [mailbox EXCEPT ![a] = box]
    BY <2>3
  <2>6. PassivateLast(box) /\ PassivationLossless'
    BY <2>3 DEF HasPassivate, PassivateLast, MailInv, PassivationLossless
  <2>7. QED
    BY <2>2, <2>3, <2>4, <2>5, <2>6, <1>MailOfOne
<1>RouteLiveKeepsMail. ASSUME NEW k \in Keys, NEW n \in Message, RouteLive(k, n)
                       PROVE  MailInv'
  <2> USE <1>RouteLiveKeepsMail
  <2>1. entries[k].kind = "live" /\ UNCHANGED <<pc, entries, fresh, life, owner, dropped>>
    BY DEF RouteLive, state
  <2>2. PICK a \in Actors : a = entries[k].actor
    BY <2>1 DEF Inv, EntryInv, EntryOk
  <2>3. CASE Accepts(a)
    <3>1. mailbox' = [mailbox EXCEPT ![a] = Append(@, n)] /\ Connected(a) /\ Reachable(a)
      BY <2>1, <2>2, <2>3 DEF RouteLive, Accepts, Reachable
    <3>2. QED
      BY <2>1, <3>1, <1>ToldReachable
  <2>4. CASE ~Accepts(a)
    <3>1. mailbox' = mailbox
      BY <2>2, <2>4 DEF RouteLive
    <3>2. \A b \in Actors : Silent(b)' => mailbox[b] = <<>>
      BY <2>1 DEF Silent, MailInv, BoxInv
    <3>3. \A b \in Actors : Reachable(b)' => Reachable(b)
      BY <2>1 DEF Reachable
    <3>4. QED
      BY <2>1, <3>1, <3>2, <3>3, MailKept
  <2>5. QED
    BY <2>3, <2>4
<1>DeliverKeepsMail. ASSUME Deliver
                     PROVE  MailInv'
  <2> USE <1>DeliverKeepsMail
  <2>1. /\ pc = "delivering" /\ UNCHANGED <<pc, entries, life, owner, dropped>>
        /\ fresh'.actor = fresh.actor /\ fresh.rest # <<>> /\ fresh.rest \in Seq(Message)
    BY DEF Deliver, state, Inv, TableType
  <2>2. PICK a \in Actors, n \in Message : a = fresh.actor /\ n = Head(fresh.rest)
    <3>1. fresh.actor \in Actors
      BY <2>1 DEF Inv, KnownInv, FreshOk
    <3>2. Head(fresh.rest) \in Message
      <4>1. PICK rest \in Seq(Message) : rest = fresh.rest
        BY <2>1
      <4>2. rest # <<>>
        BY <2>1, <4>1
      <4>3. Head(rest) \in Message
        BY <4>2, SMT
      <4>4. QED
        BY <4>1, <4>3
    <3>3. QED
      BY <3>1, <3>2
  <2>3. CASE AcceptsForced(a)
    <3>1. mailbox' = [mailbox EXCEPT ![a] = Append(@, n)] /\ Connected(a) /\ Reachable(a)
      BY <2>1, <2>2, <2>3 DEF Deliver, AcceptsForced, Reachable
    <3>2. QED
      BY <2>1, <3>1, <1>ToldReachable
  <2>4. CASE ~AcceptsForced(a)
    <3>1. mailbox' = mailbox
      BY <2>2, <2>4 DEF Deliver
    <3>2. \A b \in Actors : Silent(b)' => mailbox[b] = <<>>
      BY <2>1 DEF Silent, MailInv, BoxInv
    <3>3. \A b \in Actors : Reachable(b)' => Reachable(b)
      BY <2>1 DEF Reachable
    <3>4. QED
      BY <2>1, <3>1, <3>2, <3>3, MailKept
  <2>5. QED
    BY <2>3, <2>4
(* A new entity has an empty mailbox.                                      *)
<1>SpawnKeepsMail. ASSUME \/ \E k \in Keys, n \in Message : RouteVacant(k, n)
                          \/ \E a \in Actors : TerminatedClaimed(a)
                   PROVE  MailInv'
  <2> USE <1>SpawnKeepsMail
  <2>1. mailbox' = mailbox /\ dropped' = dropped
    BY DEF RouteVacant, TerminatedClaimed, ghosts
  <2>2. PICK e \in Actors :
          /\ life[e] = "none" /\ life'[e] = "running" /\ fresh'.actor = e
          /\ \A b \in Actors \ {e} : /\ owner'[b] = owner[b]
                                     /\ life'[b] = life[b] \/ (Silent(b) /\ life'[b] = "none")
          /\ \A q \in Keys : entries'[q] = entries[q] \/ entries'[q].kind = "vacant"
    <3>1. ASSUME NEW k \in Keys, NEW n \in Message, RouteVacant(k, n)
          PROVE  \E e \in Actors :
                   /\ life[e] = "none" /\ life'[e] = "running" /\ fresh'.actor = e
                   /\ \A b \in Actors \ {e} : owner'[b] = owner[b] /\ life'[b] = life[b]
                   /\ entries' = entries
      <4>1. PICK e \in Actors : /\ life[e] = "none" /\ life' = [life EXCEPT ![e] = "running"]
                                /\ owner' = [owner EXCEPT ![e] = k] /\ entries' = entries
                                /\ fresh'.actor = e
        BY <3>1, FreshIdIsFree DEF RouteVacant, SpawnEntity, state
      <4>2. QED
        BY <4>1 DEF Inv, TableType
    <3>2. ASSUME NEW a \in Actors, TerminatedClaimed(a)
          PROVE  \E e \in Actors :
                   /\ life[e] = "none" /\ life'[e] = "running" /\ fresh'.actor = e
                   /\ \A b \in Actors \ {e} : /\ owner'[b] = owner[b]
                                              /\ life'[b] = life[b] \/ (Silent(b) /\ life'[b] = "none")
                   /\ \A q \in Keys : entries'[q] = entries[q] \/ entries'[q].kind = "vacant"
      <4>1. PICK k \in Keys : k = keys[a]
        BY <3>2 DEF TerminatedClaimed, Inv, TableType
      <4>2. life[a] = "ended" /\ Silent(a)
        BY <3>2, SignalIsOfEnded DEF TerminatedClaimed, Silent
      <4>3. PICK e \in Actors :
              /\ life[e] = "none" /\ owner' = [owner EXCEPT ![e] = k] /\ fresh'.actor = e
              /\ life' = [[life EXCEPT ![a] = "none"] EXCEPT ![e] = "running"]
        BY <3>2, <4>1, FreshIdIsFree DEF TerminatedClaimed, SpawnEntity, Forgotten
      <4>4. \A q \in Keys : entries'[q] = entries[q] \/ entries'[q].kind = "vacant"
        BY <3>2, <4>1 DEF TerminatedClaimed, Forget, Vacant, Inv, TableType
      <4>5. /\ life'[e] = "running"
            /\ \A b \in Actors \ {e} : /\ owner'[b] = owner[b]
                                       /\ life'[b] = life[b] \/ (Silent(b) /\ life'[b] = "none")
        BY <4>2, <4>3 DEF Inv, TableType
      <4>6. QED
        BY <4>3, <4>4, <4>5
    <3>3. QED
      BY <3>1, <3>2
  <2>3. mailbox[e] = <<>>
    BY <2>2 DEF MailInv, BoxInv, Silent
  <2>4. \A a \in Actors : Silent(a)' => mailbox[a] = <<>>
    BY <2>2, <2>3, SMT DEF Silent, MailInv, BoxInv
  <2>5. \A a \in Actors : Reachable(a)' => Reachable(a) \/ a = e
    BY <2>2 DEF Reachable
  <2>6. QED
    BY <2>1, <2>2, <2>3, <2>4, <2>5, MailKept
(* Entities asked to stop, which the host has not asked before.            *)
<1>Asking. ASSUME NEW idle \in SUBSET LiveKeys, AskToStop(Asked(idle))
           PROVE  /\ mailbox' \in [Actors -> Seq(Item)]
                  /\ \A a \in Actors :
                       \/ mailbox'[a] = mailbox[a]
                       \/ /\ ~Silent(a) /\ PassivateLast(mailbox'[a])
                          /\ \E k \in Asked(idle) : entries[k].actor = a
  <2> USE <1>Asking
  <2>BoxAsk. ASSUME NEW box \in Seq(Item), ~HasPassivate(box)
             PROVE  Append(box, Passivate) \in Seq(Item) /\ PassivateLast(Append(box, Passivate))
    <3> USE <2>BoxAsk
    <3>1. Passivate \in Item
      BY DEF Item
    <3>2. QED
      BY <3>1, SMT DEF HasPassivate, PassivateLast
  <2>1. ASSUME NEW k \in Asked(idle), NEW a \in Actors, entries[k].actor = a
        PROVE  /\ ~Silent(a) /\ Append(mailbox[a], Passivate) \in Seq(Item)
               /\ PassivateLast(Append(mailbox[a], Passivate))
    <3>1. k \in Keys /\ Reachable(a) /\ Connected(a)
      BY <2>1 DEF Asked, LiveKeys, Reachable, Accepts
    <3>2. BoxInv(a) /\ mailbox[a] \in Seq(Item)
      BY DEF MailInv
    <3>3. ~HasPassivate(mailbox[a]) /\ life[a] # "passivated" /\ owner[a] # None
      BY <3>1, <3>2, ReachableIsEntity DEF BoxInv
    <3>4. ~Silent(a)
      BY <3>1, <3>3 DEF Silent, Connected
    <3>5. QED
      BY <3>2, <3>3, <3>4, <2>BoxAsk
  <2>2. ASSUME NEW a \in Actors
        PROVE  /\ mailbox'[a] \in Seq(Item)
               /\ \/ mailbox'[a] = mailbox[a]
                  \/ /\ ~Silent(a) /\ PassivateLast(mailbox'[a])
                     /\ \E k \in Asked(idle) : entries[k].actor = a
    <3>1. CASE \E k \in Asked(idle) : entries[k].actor = a
      <4>1. mailbox'[a] = Append(mailbox[a], Passivate)
        BY <3>1 DEF AskToStop
      <4>2. QED
        BY <2>1, <3>1, <4>1
    <3>2. CASE ~\E k \in Asked(idle) : entries[k].actor = a
      BY <3>2 DEF AskToStop, MailInv
    <3>3. QED
      BY <3>1, <3>2
  <2>3. mailbox' = [a \in Actors |-> mailbox'[a]]
    BY DEF AskToStop
  <2>4. QED
    BY <2>2, <2>3
<1>SweepKeepsMail. ASSUME NEW idle \in SUBSET LiveKeys, Sweep(idle)
                   PROVE  MailInv'
  <2> USE <1>SweepKeepsMail
  <2>1. pc = "ready" /\ pc' = pc /\ dropped' = dropped /\ ticker \in Actors
    BY DEF Sweep, Receive, ghosts, Inv, KnownInv, TickerOk
  <2>2. life[ticker] = "ended"
    BY <2>1, SignalIsOfEnded DEF Sweep
  <2>3. PICK t \in Actors :
          /\ life[t] = "none" /\ owner' = [owner EXCEPT ![t] = None]
          /\ life' = [[life EXCEPT ![ticker] = "none"] EXCEPT ![t] = "running"]
    BY FreshIdIsFree DEF Sweep, NextTicker, TickLater, Forgotten
  <2>4. \A a \in Actors : \/ life'[a] = life[a] /\ owner'[a] = owner[a]
                          \/ Silent(a) /\ life'[a] # "passivated"
    BY <2>2, <2>3 DEF Inv, TableType, Silent
  <2>5. \A q \in Keys : entries'[q].kind = "live" =>
          q \notin Asked(idle) /\ entries'[q] = entries[q]
    BY DEF Sweep, Passivating, Stopping
  <2>6. \A a \in Actors : Reachable(a)' => Reachable(a) /\ ~\E k \in Asked(idle) : entries[k].actor = a
    <3>1. \A p, q \in Keys : entries[p].kind = "live" /\ entries[q].kind = "live" =>
            (entries[p].actor = entries[q].actor => p = q)
      BY DEF Inv, EntryInv, EntryOk
    <3>2. \A q \in Asked(idle) : q \in Keys /\ entries[q].kind = "live"
      BY DEF Asked, LiveKeys
    <3>3. QED
      BY <2>1, <2>5, <3>1, <3>2 DEF Reachable
  <2>7. ASSUME NEW a \in Actors PROVE BoxInv(a)'
    <3>1. BoxInv(a)
      BY DEF MailInv
    <3>2. AskToStop(Asked(idle))
      BY DEF Sweep
    <3>3. CASE mailbox'[a] = mailbox[a]
      <4>1. Silent(a)' => mailbox[a] = <<>>
        BY <2>4, <3>1 DEF BoxInv, Silent
      <4>2. life'[a] = "passivated" => life[a] = "passivated"
        BY <2>4
      <4>3. QED
        BY <2>6, <3>1, <3>3, <4>1, <4>2 DEF BoxInv
    <3>4. CASE mailbox'[a] # mailbox[a]
      <4>1. ~Silent(a) /\ PassivateLast(mailbox'[a]) /\ \E k \in Asked(idle) : entries[k].actor = a
        BY <3>2, <3>4, <1>Asking
      <4>2. ~Silent(a)'
        BY <2>4, <4>1 DEF Silent
      <4>3. QED
        BY <2>6, <4>1, <4>2 DEF BoxInv
    <3>5. QED
      BY <3>3, <3>4
  <2>8. mailbox' \in [Actors -> Seq(Item)] /\ PassivationLossless'
    BY <2>1, <1>Asking DEF Sweep, MailInv, PassivationLossless
  <2>9. QED
    BY <2>7, <2>8 DEF MailInv
<1>3. CASE HostStep
  BY <1>3, <1>QuietKeepsMail, <1>RouteLiveKeepsMail, <1>DeliverKeepsMail, <1>SpawnKeepsMail, <1>SweepKeepsMail
     DEF HostStep
(* A host that fails tells nobody any more.                                *)
<1>LostHasReason. ASSUME NEW k, NEW messages, NEW why, NEW r \in Lost(k, messages, why)
                  PROVE  r.why = why
  <2>1. PICK n \in messages : r = [key |-> k, message |-> n, why |-> why]
    BY DEF Lost
  <2>2. QED
    BY <2>1
<1>FailureKeepsMail. ASSUME Failure
                     PROVE  MailInv'
  <2> USE <1>FailureKeepsMail
  <2>1. PICK lost :
          /\ Fail(lost) /\ \A r \in lost : r.why = "host failed"
          /\ \A a \in Actors : life'[a] = life[a] \/ (life[a] = "ended" /\ life'[a] = "none")
          /\ mailbox' = mailbox \/ \E idle \in SUBSET LiveKeys : AskToStop(Asked(idle))
    <3>1. ASSUME NEW k \in Keys, NEW n \in Message, RouteFails(k, n)
          PROVE  /\ Fail(Lost(k, {n}, "host failed")) /\ UNCHANGED <<life, mailbox>>
                 /\ \A r \in Lost(k, {n}, "host failed") : r.why = "host failed"
      BY <3>1, <1>LostHasReason DEF RouteFails
    <3>2. ASSUME NEW a \in Actors, ReplaceFails(a)
          PROVE  /\ Fail({}) /\ mailbox' = mailbox
                 /\ \A b \in Actors : life'[b] = life[b] \/ (life[b] = "ended" /\ life'[b] = "none")
      <4>1. life[a] = "ended" /\ life' = [life EXCEPT ![a] = "none"]
        BY <3>2, SignalIsOfEnded DEF ReplaceFails, Forgotten
      <4>2. QED
        BY <3>2, <4>1 DEF ReplaceFails, Inv, TableType
    <3>3. ASSUME NEW idle \in SUBSET LiveKeys, SweepFails(idle)
          PROVE  /\ Fail({}) /\ AskToStop(Asked(idle))
                 /\ \A b \in Actors : life'[b] = life[b] \/ (life[b] = "ended" /\ life'[b] = "none")
      <4>1. ticker \in Actors
        BY <3>3 DEF SweepFails, Receive, Inv, KnownInv, TickerOk
      <4>2. life[ticker] = "ended" /\ life' = [life EXCEPT ![ticker] = "none"]
        BY <3>3, <4>1, SignalIsOfEnded DEF SweepFails, Forgotten
      <4>3. QED
        BY <3>3, <4>1, <4>2 DEF SweepFails, Inv, TableType
    <3>4. QED
      BY <3>1, <3>2, <3>3 DEF Failure
  <2>2. \A a \in Actors : ~Reachable(a)'
    BY <2>1 DEF Fail, Reachable, Vacant
  <2>3. owner' = owner /\ mailbox' \in [Actors -> Seq(Item)]
    BY <2>1, <1>Asking DEF Fail, MailInv
  <2>4. ASSUME NEW a \in Actors PROVE BoxInv(a)'
    <3>1. mailbox'[a] = mailbox[a] \/ (~Silent(a) /\ PassivateLast(mailbox'[a]))
      BY <2>1, <1>Asking
    <3>2. Silent(a)' => Silent(a)
      BY <2>1, <2>3 DEF Silent
    <3>3. QED
      BY <2>2, <3>1, <3>2 DEF MailInv, BoxInv
  <2>5. PassivationLossless'
    <3>1. \A r \in dropped' : r \in dropped \/ r \in lost \/ r.why = "host failed"
      <4>1. ASSUME NEW r \in dropped', r \notin dropped, r \notin lost PROVE r.why = "host failed"
        <5>1. PICK k \in Keys : r \in Lost(k, Range(entries[k].buffered), "host failed")
          BY <2>1, <4>1 DEF Fail
        <5>2. QED
          BY <5>1, <1>LostHasReason
      <4>2. QED
        BY <4>1
    <3>2. QED
      BY <2>1, <3>1 DEF MailInv, PassivationLossless
  <2>6. QED
    BY <2>3, <2>4, <2>5 DEF MailInv
<1>4. CASE Failure
  BY <1>4, <1>FailureKeepsMail
<1>ChildrenKeepMail. ASSUME NEW a \in Actors,
                            Handle(a) \/ HandlePassivate(a) \/ StopAlone(a) \/ StoppedByParent(a) \/ Close(a)
                     PROVE  MailInv'
  <2> USE <1>ChildrenKeepMail
  <2>1. UNCHANGED <<pc, entries, fresh, owner>>
    BY DEF Handle, HandlePassivate, StopAlone, StoppedByParent, Close, state
  <2>2. BoxInv(a) /\ mailbox[a] \in Seq(Item)
    BY DEF MailInv
  <2>BoxTail. ASSUME NEW box \in Seq(Item), box # <<>>, PassivateLast(box)
              PROVE  /\ Tail(box) \in Seq(Item) /\ PassivateLast(Tail(box))
                     /\ HasPassivate(Tail(box)) => HasPassivate(box)
                     /\ Head(box) = Passivate => Tail(box) = <<>> /\ HasPassivate(box)
    <3> USE <2>BoxTail
    <3>1. /\ Tail(box) \in Seq(Item) /\ Len(Tail(box)) = Len(box) - 1 /\ Len(box) \in Nat
          /\ \A i \in DOMAIN Tail(box) : i \in Nat /\ i + 1 \in DOMAIN box /\ Tail(box)[i] = box[i + 1]
          /\ 1 \in DOMAIN box /\ Head(box) = box[1]
      BY SMT
    <3>2. PassivateLast(Tail(box)) /\ (HasPassivate(Tail(box)) => HasPassivate(box))
      BY <3>1, SMT DEF PassivateLast, HasPassivate
    <3>3. ASSUME Head(box) = Passivate PROVE Tail(box) = <<>> /\ HasPassivate(box)
      <4>1. Len(Tail(box)) = 0
        BY <3>1, <3>3, SMT DEF PassivateLast
      <4>2. Tail(box) = <<>>
        <5>1. PICK rest \in Seq(Item) : rest = Tail(box)
          BY <3>1
        <5>2. rest = <<>>
          BY <4>1, <5>1, SMT
        <5>3. QED
          BY <5>1, <5>2
      <4>3. QED
        BY <3>1, <3>3, <4>2 DEF HasPassivate
    <3>4. QED
      BY <3>1, <3>2, <3>3
  <2>3. CASE Handle(a)
    <3>1. PICK box \in Seq(Item) : box = Tail(mailbox[a])
      BY <2>2, <2>3, <2>BoxTail DEF Handle, BoxInv
    <3>2. PassivateLast(box) /\ (HasPassivate(box) => HasPassivate(mailbox[a]))
      BY <2>2, <2>3, <3>1, <2>BoxTail DEF Handle, BoxInv
    <3>3. /\ mailbox' = [mailbox EXCEPT ![a] = box] /\ UNCHANGED <<life, dropped>>
          /\ life[a] = "running" /\ ~Silent(a)
      BY <2>2, <2>3, <3>1 DEF Handle, BoxInv
    <3>4. PassivationLossless' /\ ~Silent(a)'
      BY <2>1, <3>3 DEF MailInv, PassivationLossless, Silent
    <3>5. QED
      BY <2>1, <2>2, <3>2, <3>3, <3>4, <1>MailOfOne DEF BoxInv
  <2>4. CASE HandlePassivate(a)
    <3>1. Tail(mailbox[a]) = <<>> /\ HasPassivate(mailbox[a]) /\ life[a] = "running"
      BY <2>2, <2>4, <2>BoxTail DEF HandlePassivate, BoxInv
    <3>2. mailbox' = [mailbox EXCEPT ![a] = <<>>] /\ <<>> \in Seq(Item)
      <4>1. mailbox' = [mailbox EXCEPT ![a] = Tail(mailbox[a])]
        BY <2>4 DEF HandlePassivate
      <4>2. <<>> \in Seq(Item)
        BY SMT
      <4>3. QED
        BY <3>1, <4>1, <4>2, Zenon
    <3>3. \A b \in Actors \ {a} : life'[b] = life[b]
      BY <2>4 DEF HandlePassivate, Inv, TableType
    <3>4. PassivationLossless'
      BY <2>4 DEF HandlePassivate, ghosts, MailInv, PassivationLossless
    <3>5. QED
      BY <2>1, <2>2, <3>1, <3>2, <3>3, <3>4, <1>MailOfOne, NoPassivateInEmpty DEF BoxInv
  <2>5. CASE StopAlone(a) \/ StoppedByParent(a)
    <3>1. /\ life' = [life EXCEPT ![a] = "terminating"] /\ life[a] = "running"
          /\ UNCHANGED <<mailbox, dropped>>
      BY <2>5 DEF StopAlone, StoppedByParent, ghosts
    <3>2. life'[a] = "terminating" /\ \A b \in Actors \ {a} : life'[b] = life[b]
      BY <3>1 DEF Inv, TableType
    <3>3. \A b \in Actors : Silent(b)' => Silent(b)
      BY <2>1, <3>1, <3>2 DEF Silent
    <3>4. \A b \in Actors : Reachable(b)' => Reachable(b)
      BY <2>1 DEF Reachable
    <3>5. \A b \in Actors : Silent(b)' => mailbox[b] = <<>>
      BY <3>3 DEF MailInv, BoxInv
    <3>6. QED
      BY <3>1, <3>2, <3>4, <3>5, MailKept
  <2>LostHasMessage. ASSUME NEW k, NEW messages, NEW why, NEW r \in Lost(k, messages \ {Passivate}, why)
                     PROVE  messages # {}
    BY DEF Lost
  <2>NothingInEmpty. Range(<<>>) = {}
    BY SMT DEF Range
  <2>6. CASE Close(a)
    <3>1. /\ life' = [life EXCEPT ![a] = "closed"] /\ mailbox' = [mailbox EXCEPT ![a] = <<>>]
          /\ life[a] \in {"passivated", "terminating"} /\ <<>> \in Seq(Item)
          /\ dropped' = dropped \cup Lost(owner[a], Range(mailbox[a]) \ {Passivate}, life[a])
      <4>1. <<>> \in Seq(Item)
        BY SMT
      <4>2. QED
        BY <2>6, <4>1, Zenon DEF Close
    <3>2. life'[a] = "closed" /\ \A b \in Actors \ {a} : life'[b] = life[b]
      BY <3>1 DEF Inv, TableType
    <3>3. ASSUME NEW r \in Lost(owner[a], Range(mailbox[a]) \ {Passivate}, life[a])
          PROVE  r.why # "passivated"
      <4>1. r.why = life[a] /\ Range(mailbox[a]) # {}
        BY <3>3, <1>LostHasReason, <2>LostHasMessage
      <4>2. mailbox[a] # <<>>
        BY <4>1, <2>NothingInEmpty
      <4>3. QED
        BY <2>2, <4>1, <4>2 DEF BoxInv, Silent
    <3>4. PassivationLossless'
      BY <3>1, <3>3 DEF MailInv, PassivationLossless
    <3>5. QED
      BY <2>1, <3>1, <3>2, <3>4, <1>MailOfOne, NoPassivateInEmpty
  <2>7. QED
    BY <2>3, <2>4, <2>5, <2>6
<1>EndKeepsMail. ASSUME NEW a \in Actors, End(a) \/ Tick(a)
                 PROVE  MailInv'
  <2> USE <1>EndKeepsMail
  <2>1. /\ life' = [life EXCEPT ![a] = "ended"] /\ owner' = [owner EXCEPT ![a] = None]
        /\ UNCHANGED <<pc, entries, fresh, mailbox, dropped>> /\ Silent(a)
    BY DEF End, Tick, Ended, state, ghosts, Silent
  <2>2. /\ life'[a] = "ended" /\ owner'[a] = None
        /\ \A b \in Actors \ {a} : life'[b] = life[b] /\ owner'[b] = owner[b]
    BY <2>1 DEF Inv, TableType
  <2>3. \A b \in Actors : Silent(b)' => mailbox[b] = <<>>
    BY <2>1, <2>2 DEF MailInv, BoxInv, Silent
  <2>4. \A b \in Actors : Reachable(b)' => Reachable(b)
    BY <2>1 DEF Reachable
  <2>5. QED
    BY <2>1, <2>2, <2>3, <2>4, MailKept
<1>5. ASSUME NEW a \in Actors, StopAlone(a) \/ ChildStep(a) PROVE MailInv'
  BY <1>5, <1>ChildrenKeepMail, <1>EndKeepsMail DEF ChildStep
<1>6. QED
  BY <1>1, <1>2, <1>3, <1>4, <1>5 DEF Next

LEMMA MailInvariant == Spec => []MailInv
<1>1. Init => MailInv
  <2> SUFFICES ASSUME Init PROVE MailInv
    OBVIOUS
  <2>1. mailbox \in [Actors -> Seq(Item)] /\ PassivationLossless
    BY SMT DEF Init, PassivationLossless
  <2>2. \A a \in Actors : BoxInv(a)
    BY NoPassivateInEmpty DEF Init, BoxInv
  <2>3. QED
    BY <2>1, <2>2 DEF MailInv
<1>2. QED
  BY <1>1, NextMail, HostInvariant, PTL DEF Spec

(* A passivation loses no message: passivate_idle takes the entry of an    *)
(* entity out of route's reach in the step that enqueues the passivate     *)
(* message, so that no message is behind it when the entity stops.         *)
THEOREM PassivationLosesNothing == Spec => []PassivationLossless
<1>1. MailInv => PassivationLossless
  BY DEF MailInv
<1>2. QED
  BY <1>1, MailInvariant, PTL

----------------------------------------------------------------------------
(* How long the buffers and the mailboxes get.                             *)

(* A mailbox has room for what the entity just spawned is still to be told.*)
LengthInv ==
    /\ \A k \in Keys : Len(entries[k].buffered) <= Buffer
    /\ \A a \in Actors : Len(mailbox[a]) <= Capacity + Buffer
    /\ pc = "delivering" => Len(mailbox[fresh.actor]) + Len(fresh.rest) <= Capacity + Buffer

LEMMA AppendParts ==
    ASSUME NEW S, NEW s \in Seq(S), NEW x
    PROVE  /\ Len(s) \in Nat /\ DOMAIN s = 1 .. Len(s)
           /\ Len(Append(s, x)) = Len(s) + 1 /\ DOMAIN Append(s, x) = 1 .. Len(s) + 1
           /\ Append(s, x)[Len(s) + 1] = x
           /\ \A i \in 1 .. Len(s) : Append(s, x)[i] = s[i]
BY SMT

LEMMA NextLengths ==
    ASSUME Inv, MailInv, LengthInv, [Next]_vars
    PROVE  LengthInv'
(* Nothing gets longer, and nothing is to be delivered that was not.       *)
<1>LengthsAreNat. /\ Buffer \in Nat \ {0} /\ Capacity \in Nat \ {0}
                  /\ \A k \in Keys : Len(entries[k].buffered) \in Nat
                  /\ \A a \in Actors : Len(mailbox[a]) \in Nat
                  /\ Len(fresh.rest) \in Nat
  <2>1. Buffer \in Nat \ {0} /\ Capacity \in Nat \ {0}
    BY LimitsAssumption
  <2>2. ASSUME NEW k \in Keys PROVE Len(entries[k].buffered) \in Nat
    BY SMT DEF Inv, TableType, Entry
  <2>3. ASSUME NEW a \in Actors PROVE Len(mailbox[a]) \in Nat
    BY SMT DEF MailInv
  <2>4. Len(fresh.rest) \in Nat
    BY SMT DEF Inv, TableType
  <2>5. QED
    BY <2>1, <2>2, <2>3, <2>4
<1>LengthsKept. ASSUME \A k \in Keys : entries'[k].buffered = entries[k].buffered \/ entries'[k].buffered = <<>>,
                       \A a \in Actors : Len(mailbox'[a]) \in Nat /\ Len(mailbox'[a]) <= Len(mailbox[a]),
                       pc' = "delivering" => pc = "delivering" /\ fresh' = fresh
                PROVE  LengthInv'
  <2> USE <1>LengthsKept
  <2>1. ASSUME NEW k \in Keys PROVE Len(entries'[k].buffered) <= Buffer
    <3>1. CASE entries'[k].buffered = entries[k].buffered
      BY <3>1 DEF LengthInv
    <3>2. CASE entries'[k].buffered = <<>>
      BY <3>2, <1>LengthsAreNat, SMT
    <3>3. QED
      BY <3>1, <3>2
  <2>2. ASSUME NEW a \in Actors PROVE Len(mailbox'[a]) <= Capacity + Buffer
    <3>1. Len(mailbox[a]) <= Capacity + Buffer
      BY DEF LengthInv
    <3>2. QED
      BY <3>1, <1>LengthsAreNat, SMT
  <2>3. ASSUME pc' = "delivering" PROVE Len(mailbox'[fresh'.actor]) + Len(fresh'.rest) <= Capacity + Buffer
    <3>1. pc = "delivering" /\ fresh' = fresh
      BY <2>3
    <3>2. fresh.actor \in Actors
      BY <3>1 DEF Inv, KnownInv, FreshOk
    <3>3. Len(mailbox[fresh.actor]) + Len(fresh.rest) <= Capacity + Buffer
      BY <3>1 DEF LengthInv
    <3>4. PICK old, new, rest : old = Len(mailbox[fresh.actor]) /\ new = Len(mailbox'[fresh.actor]) /\ rest = Len(fresh.rest)
      OBVIOUS
    <3>5. old \in Nat /\ new \in Nat /\ rest \in Nat /\ new <= old /\ old + rest <= Capacity + Buffer
      BY <3>2, <3>3, <3>4, <1>LengthsAreNat
    <3>6. new + rest <= Capacity + Buffer
      BY <3>5, <1>LengthsAreNat, SMT
    <3>7. QED
      BY <3>1, <3>4, <3>6
  <2>4. QED
    BY <2>1, <2>2, <2>3 DEF LengthInv
<1>QuietLengths. ASSUME \/ UNCHANGED vars
                        \/ \E k \in Keys : Send(k)
                        \/ HostInit \/ Remember
                        \/ \E a \in Actors : TerminatedUnknown(a) \/ TerminatedUnclaimed(a)
                        \/ \E k \in Keys, n \in Message : RouteFails(k, n)
                        \/ \E a \in Actors : ReplaceFails(a)
                        \/ \E a \in Actors : StopAlone(a) \/ StoppedByParent(a) \/ End(a) \/ Tick(a)
                 PROVE  LengthInv'
  <2> USE <1>QuietLengths
  <2>1. /\ mailbox' = mailbox
        /\ pc' = "delivering" => pc = "delivering" /\ fresh' = fresh
    BY DEF vars, state, Send, HostInit, Remember, TerminatedUnknown, TerminatedUnclaimed, RouteFails,
           ReplaceFails, Fail, StopAlone, StoppedByParent, End, Tick, Ended
  <2>2. \A a \in Actors : Len(mailbox'[a]) \in Nat /\ Len(mailbox'[a]) <= Len(mailbox[a])
    BY <2>1, <1>LengthsAreNat, SMT
  <2>3. \/ entries' = entries
        \/ entries' = [k \in Keys |-> Vacant]
        \/ \E j, a : entries' = [entries EXCEPT ![j] = Live(a)]
        \/ \E j : entries' = [entries EXCEPT ![j] = Vacant]
    BY DEF vars, state, Send, HostInit, Remember, TerminatedUnknown, TerminatedUnclaimed, Forget, RouteFails,
           ReplaceFails, Fail, StopAlone, StoppedByParent, End, Tick, Ended
  <2>4. ASSUME NEW k \in Keys
        PROVE  entries'[k].buffered = entries[k].buffered \/ entries'[k].buffered = <<>>
    <3>1. entries'[k] = entries[k] \/ entries'[k] = Vacant \/ \E a : entries'[k] = Live(a)
      BY <2>3 DEF Inv, TableType
    <3>2. Vacant.buffered = <<>> /\ \A a : Live(a).buffered = <<>>
      BY DEF Vacant, Live
    <3>3. QED
      BY <3>1, <3>2
  <2>5. QED
    BY <2>1, <2>2, <2>4, <1>LengthsKept
<1>1. CASE UNCHANGED vars \/ \E k \in Keys : Send(k)
  BY <1>1, <1>QuietLengths
<1>RouteLiveLengths. ASSUME NEW k \in Keys, NEW n \in Message, RouteLive(k, n)
                     PROVE  LengthInv'
  <2> USE <1>RouteLiveLengths
  <2>1. UNCHANGED <<entries, pc, fresh>> /\ pc = "ready" /\ entries[k].kind = "live"
    BY DEF RouteLive, state, Receive
  <2>2. PICK a \in Actors : a = entries[k].actor
    BY <2>1 DEF Inv, EntryInv, EntryOk
  <2>3. CASE Accepts(a)
    <3>1. PICK box : box \in Seq(Item) /\ box = mailbox[a] /\ Len(box) < Capacity
      BY <2>3 DEF MailInv, Accepts
    <3>2. mailbox'[a] = Append(box, n) /\ \A b \in Actors \ {a} : mailbox'[b] = mailbox[b]
      BY <2>2, <2>3, <3>1 DEF RouteLive, MailInv
    <3>3. Len(Append(box, n)) <= Capacity + Buffer
      <4>1. Len(Append(box, n)) = Len(box) + 1 /\ Len(box) \in Nat
        BY <3>1, AppendParts
      <4>2. QED
        BY <3>1, <4>1, <1>LengthsAreNat, SMT
    <3>4. QED
      BY <2>1, <3>2, <3>3 DEF LengthInv
  <2>4. CASE ~Accepts(a)
    <3>1. mailbox' = mailbox
      BY <2>2, <2>4 DEF RouteLive
    <3>2. QED
      BY <2>1, <3>1, <1>LengthsAreNat, <1>LengthsKept, SMT
  <2>5. QED
    BY <2>3, <2>4
<1>RouteStoppingLengths. ASSUME NEW k \in Keys, NEW n \in Message, RouteStopping(k, n)
                         PROVE  LengthInv'
  <2> USE <1>RouteStoppingLengths
  <2>1. UNCHANGED <<mailbox, pc, fresh>> /\ pc = "ready"
    BY DEF RouteStopping, Receive
  <2>2. CASE HasRoom(entries[k].buffered)
    <3>1. PICK buffered : buffered \in Seq(Message) /\ buffered = entries[k].buffered /\ Len(buffered) < Buffer
      BY <2>2 DEF HasRoom, Inv, TableType, Entry
    <3>2. entries'[k].buffered = Append(buffered, n) /\ \A j \in Keys \ {k} : entries'[j] = entries[j]
      BY <2>2, <3>1, SMT DEF RouteStopping, PushBack, Inv, TableType, Entry
    <3>3. Len(Append(buffered, n)) <= Buffer
      <4>1. Len(Append(buffered, n)) = Len(buffered) + 1 /\ Len(buffered) \in Nat
        BY <3>1, AppendParts
      <4>2. QED
        BY <3>1, <4>1, <1>LengthsAreNat, SMT
    <3>4. QED
      BY <2>1, <3>2, <3>3 DEF LengthInv
  <2>3. CASE ~HasRoom(entries[k].buffered)
    <3>1. entries' = entries
      BY <2>3 DEF RouteStopping
    <3>2. QED
      BY <2>1, <3>1, <1>LengthsAreNat, <1>LengthsKept, SMT
  <2>4. QED
    BY <2>2, <2>3
(* The mailbox of an entity just spawned is empty.                         *)
<1>SpawnLengths. ASSUME mailbox' = mailbox, NEW t \in Actors, Silent(t), fresh'.actor = t,
                        Len(fresh'.rest) \in Nat, Len(fresh'.rest) <= Capacity + Buffer,
                        \A k \in Keys : entries'[k].buffered = entries[k].buffered \/ entries'[k].buffered = <<>>
                 PROVE  LengthInv'
  <2> USE <1>SpawnLengths
  <2>1. ASSUME NEW k \in Keys PROVE Len(entries'[k].buffered) <= Buffer
    <3>1. CASE entries'[k].buffered = entries[k].buffered
      BY <3>1 DEF LengthInv
    <3>2. CASE entries'[k].buffered = <<>>
      BY <3>2, <1>LengthsAreNat, SMT
    <3>3. QED
      BY <3>1, <3>2
  <2>2. Len(mailbox'[t]) = 0
    BY SMT DEF MailInv, BoxInv
  <2>3. Len(mailbox'[fresh'.actor]) + Len(fresh'.rest) <= Capacity + Buffer
    BY <2>2, <1>LengthsAreNat, SMT
  <2>4. QED
    BY <2>1, <2>3 DEF LengthInv
<1>SpawningLengths. ASSUME \/ \E k \in Keys, n \in Message : RouteVacant(k, n)
                           \/ \E a \in Actors : TerminatedClaimed(a)
                    PROVE  LengthInv'
  <2> USE <1>SpawningLengths
  <2>1. ASSUME NEW k \in Keys, NEW n \in Message, RouteVacant(k, n) PROVE LengthInv'
    <3>1. /\ UNCHANGED <<entries, mailbox>> /\ Free # {}
          /\ fresh' = [key |-> k, actor |-> FreshId, rest |-> <<n>>]
      BY <2>1 DEF RouteVacant, SpawnEntity, state
    <3>2. PICK t \in Actors : t = FreshId /\ Silent(t)
      BY <3>1, FreshIdIsFree DEF Silent
    <3>3. fresh'.actor = t /\ Len(fresh'.rest) = 1
      BY <3>1, <3>2
    <3>4. 1 \in Nat /\ 1 <= Capacity + Buffer
      BY <1>LengthsAreNat, SMT
    <3>5. QED
      BY <3>1, <3>2, <3>3, <3>4, <1>SpawnLengths
  <2>2. ASSUME NEW a \in Actors, TerminatedClaimed(a) PROVE LengthInv'
    <3>1. PICK k \in Keys : k = keys[a]
      BY <2>2 DEF TerminatedClaimed, Inv, TableType
    <3>2. /\ mailbox' = mailbox /\ Free # {} /\ entries' = [entries EXCEPT ![k] = Vacant]
          /\ fresh' = [key |-> k, actor |-> FreshId, rest |-> entries[k].buffered]
      BY <2>2, <3>1 DEF TerminatedClaimed, SpawnEntity, Forget
    <3>3. PICK t \in Actors : t = FreshId /\ Silent(t)
      BY <3>2, FreshIdIsFree DEF Silent
    <3>4. fresh'.actor = t /\ fresh'.rest = entries[k].buffered
      BY <3>2, <3>3
    <3>5. Len(fresh'.rest) \in Nat /\ Len(fresh'.rest) <= Capacity + Buffer
      <4>1. Len(entries[k].buffered) \in Nat /\ Len(entries[k].buffered) <= Buffer
        BY <1>LengthsAreNat DEF LengthInv
      <4>2. QED
        BY <3>4, <4>1, <1>LengthsAreNat, SMT
    <3>6. \A j \in Keys : entries'[j] = IF j = k THEN Vacant ELSE entries[j]
      BY <3>2 DEF Inv, TableType
    <3>7. \A j \in Keys : entries'[j].buffered = entries[j].buffered \/ entries'[j].buffered = <<>>
      BY <3>6, SMT DEF Vacant
    <3>8. QED
      BY <3>2, <3>3, <3>4, <3>5, <3>7, <1>SpawnLengths
  <2>3. QED
    BY <2>1, <2>2
<1>DeliverLengths. ASSUME Deliver
                   PROVE  LengthInv'
  <2> USE <1>DeliverLengths
  <2>1. /\ UNCHANGED <<entries, pc>> /\ pc = "delivering" /\ fresh.rest # <<>>
        /\ fresh' = [fresh EXCEPT !.rest = Tail(fresh.rest)]
    BY DEF Deliver, state
  <2>2. PICK a \in Actors : a = fresh.actor
    BY <2>1 DEF Inv, KnownInv, FreshOk
  <2>3. PICK rest : rest \in Seq(Message) /\ rest = fresh.rest
    BY DEF Inv, TableType
  <2>4. fresh'.actor = a /\ fresh'.rest = Tail(rest)
    BY <2>1, <2>2, <2>3 DEF Inv, TableType
  <2>5. Len(Tail(rest)) = Len(rest) - 1 /\ Len(rest) \in Nat \ {0} /\ Len(Tail(rest)) \in Nat
    BY <2>1, <2>3, SMT
  <2>6. PICK box : box \in Seq(Item) /\ box = mailbox[a]
    BY DEF MailInv
  <2>7. Len(box) \in Nat /\ Len(box) + Len(rest) <= Capacity + Buffer
    <3>1. Len(mailbox[fresh.actor]) + Len(fresh.rest) <= Capacity + Buffer
      BY <2>1 DEF LengthInv
    <3>2. Len(box) \in Nat
      BY <2>6, SMT
    <3>3. QED
      BY <2>2, <2>3, <2>6, <3>1, <3>2
  <2>8. PICK told : /\ Len(told) \in Nat /\ Len(told) <= Len(box) + 1
                    /\ mailbox'[a] = told /\ \A b \in Actors \ {a} : mailbox'[b] = mailbox[b]
    <3>1. CASE Connected(a)
      <4>1. mailbox' = [mailbox EXCEPT ![a] = Append(box, Head(rest))]
        BY <2>2, <2>3, <2>6, <3>1 DEF Deliver, AcceptsForced
      <4>2. mailbox'[a] = Append(box, Head(rest)) /\ \A b \in Actors \ {a} : mailbox'[b] = mailbox[b]
        BY <4>1 DEF MailInv
      <4>3. Len(Append(box, Head(rest))) = Len(box) + 1
        BY <2>6, AppendParts
      <4>4. QED
        BY <2>7, <4>2, <4>3, SMT
    <3>2. CASE ~Connected(a)
      <4>1. mailbox' = mailbox
        BY <2>2, <3>2 DEF Deliver, AcceptsForced
      <4>2. QED
        BY <2>6, <2>7, <4>1, SMT
    <3>3. QED
      BY <3>1, <3>2
  <2>9. Len(told) + Len(Tail(rest)) <= Capacity + Buffer /\ Len(told) <= Capacity + Buffer
    <3>1. PICK l, m, n : l = Len(told) /\ m = Len(box) /\ n = Len(rest)
      OBVIOUS
    <3>2. /\ l \in Nat /\ m \in Nat /\ n \in Nat \ {0} /\ l <= m + 1 /\ m + n <= Capacity + Buffer
          /\ Len(Tail(rest)) = n - 1
      BY <2>5, <2>7, <2>8, <3>1
    <3>3. l + (n - 1) <= Capacity + Buffer /\ l <= Capacity + Buffer
      BY <3>2, <1>LengthsAreNat, SMT
    <3>4. QED
      BY <3>1, <3>2, <3>3
  <2>10. QED
    BY <2>1, <2>4, <2>8, <2>9 DEF LengthInv
<1>AskingLengths. ASSUME NEW idle, AskToStop(Asked(idle)), NEW a \in Actors
                  PROVE  Len(mailbox'[a]) <= Capacity + Buffer
  <2> USE <1>AskingLengths
  <2>1. PICK box : box \in Seq(Item) /\ box = mailbox[a] /\ Len(box) <= Capacity + Buffer
    BY DEF MailInv, LengthInv
  <2>2. CASE \E k \in Asked(idle) : entries[k].actor = a
    <3>1. mailbox'[a] = Append(box, Passivate)
      BY <2>1, <2>2 DEF AskToStop
    <3>2. Len(box) < Capacity
      BY <2>1, <2>2 DEF Asked, Accepts
    <3>3. Len(Append(box, Passivate)) = Len(box) + 1 /\ Len(box) \in Nat
      BY <2>1, AppendParts
    <3>4. QED
      BY <3>1, <3>2, <3>3, <1>LengthsAreNat, SMT
  <2>3. CASE ~\E k \in Asked(idle) : entries[k].actor = a
    BY <2>1, <2>3 DEF AskToStop
  <2>4. QED
    BY <2>2, <2>3
<1>SweepLengths. ASSUME NEW idle \in SUBSET LiveKeys, Sweep(idle) \/ SweepFails(idle)
                 PROVE  LengthInv'
  <2> USE <1>SweepLengths
  <2>1. AskToStop(Asked(idle)) /\ pc' # "delivering"
    BY DEF Sweep, SweepFails, Fail, Receive
  <2>2. ASSUME NEW k \in Keys PROVE Len(entries'[k].buffered) <= Buffer
    <3>1. entries'[k] = entries[k] \/ entries'[k] = Vacant \/ entries'[k] = Stopping(entries[k].actor)
      BY DEF Sweep, SweepFails, Fail, Passivating
    <3>2. Vacant.buffered = <<>> /\ Stopping(entries[k].actor).buffered = <<>>
      BY DEF Vacant, Stopping
    <3>3. Len(<<>>) <= Buffer
      BY <1>LengthsAreNat, SMT
    <3>4. Len(entries[k].buffered) <= Buffer
      BY DEF LengthInv
    <3>5. QED
      BY <3>1, <3>2, <3>3, <3>4
  <2>3. QED
    BY <2>1, <2>2, <1>AskingLengths DEF LengthInv
<1>2. CASE HostStep
  BY <1>2, <1>QuietLengths, <1>RouteLiveLengths, <1>RouteStoppingLengths, <1>SpawningLengths, <1>DeliverLengths,
     <1>SweepLengths DEF HostStep
<1>3. CASE Failure
  BY <1>3, <1>QuietLengths, <1>SweepLengths DEF Failure
<1>ChildLengths. ASSUME NEW a \in Actors, Handle(a) \/ HandlePassivate(a) \/ Close(a)
                 PROVE  LengthInv'
  <2> USE <1>ChildLengths
  <2>1. UNCHANGED <<entries, pc, fresh>>
    BY DEF Handle, HandlePassivate, Close, state
  <2>2. PICK box : box \in Seq(Item) /\ box = mailbox[a]
    BY DEF MailInv
  <2>3. PICK left : /\ mailbox' = [mailbox EXCEPT ![a] = left]
                    /\ left = <<>> \/ (left = Tail(box) /\ box # <<>>)
    BY <2>2 DEF Handle, HandlePassivate, Close
  <2>4. Len(left) \in Nat /\ Len(left) <= Len(box)
    BY <2>2, <2>3, SMT
  <2>5. mailbox'[a] = left /\ \A b \in Actors \ {a} : mailbox'[b] = mailbox[b]
    BY <2>3 DEF MailInv
  <2>6. \A b \in Actors : Len(mailbox'[b]) \in Nat /\ Len(mailbox'[b]) <= Len(mailbox[b])
    BY <2>2, <2>4, <2>5, <1>LengthsAreNat, SMT
  <2>7. QED
    BY <2>1, <2>6, <1>LengthsKept
<1>4. ASSUME NEW a \in Actors, StopAlone(a) \/ ChildStep(a) PROVE LengthInv'
  BY <1>4, <1>QuietLengths, <1>ChildLengths DEF ChildStep
<1>5. QED
  BY <1>1, <1>2, <1>3, <1>4 DEF Next

LEMMA LengthInvariant == Spec => []LengthInv
<1>1. Init => LengthInv
  BY LimitsAssumption, SMT DEF Init, LengthInv, Vacant
<1>2. QED
  BY <1>1, NextLengths, HostInvariant, MailInvariant, PTL DEF Spec

=============================================================================
