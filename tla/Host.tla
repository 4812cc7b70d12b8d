------------------------------- MODULE Host -------------------------------
(***************************************************************************)
(* A host: entities spawned on the first message for their key, passivated *)
(* when idle, replaced when messages came in while they stopped.           *)
(*   src/tellus/src/host.rs                                                *)
(*                                                                         *)
(* The host is one actor, its entities and tickers are its children.  What *)
(* Lifecycle shows of death watch is used here: an actor signals the       *)
(* watching host once, when it has ended, and a restart of the host waits  *)
(* for the end of all its children and keeps mailbox and watches.  Time is *)
(* left out: a live entity may or may not have been idle for long enough.  *)
(*                                                                         *)
(* A message is a number, those for one key counting up in the order in    *)
(* which one sender sent them.                                             *)
(***************************************************************************)
EXTENDS Naturals, Sequences, FiniteSets, Functions

CONSTANTS
    Keys,         \* keys of the entities
    Stubborn,     \* keys of entities that do not stop on their passivate message
    Actors,       \* actor ids, natural numbers from 1
    Buffer,       \* HostConfig::buffer
    Capacity,     \* mailbox capacity of the entities
    MaxMessages,  \* bound: messages sent per key
    MaxStops,     \* bound: entities stopping on their own
    MaxFailures   \* bound: panics of the functions given to the host

ASSUME KeysAssumption == Stubborn \subseteq Keys /\ 0 \notin Keys
ASSUME ActorsAssumption == Actors \subseteq Nat \ {0}
ASSUME LimitsAssumption == Buffer \in Nat \ {0} /\ Capacity \in Nat \ {0}
ASSUME BoundsAssumption == MaxMessages \in Nat /\ MaxStops \in Nat /\ MaxFailures \in Nat

VARIABLES
    pc,        \* what the host's task is doing
    entries,   \* State::entries
    keys,      \* State::keys
    ticker,    \* State::ticker
    fresh,     \* an entity just spawned, and what it is still to be told
    incoming,  \* the host's mailbox
    life,      \* life[a]: where the task of child a is
    owner,     \* owner[a]: the key child a is the entity of, None for a ticker
    mailbox,   \* mailbox[a]: the mailbox of entity a
    sent,      \* sent[k]: messages sent to the host for k
    handled,   \* handled[k]: messages entities of k have taken
    dead,      \* dead letters, and why they are
    dropped,   \* messages gone with the entity or the host which held them, and why
    accepted,  \* messages buffered by the host
    used       \* the bounded events so far

state == <<entries, keys, ticker>>
ghosts == <<handled, dead, dropped, accepted>>
vars == <<pc, state, fresh, incoming, life, owner, mailbox, sent, ghosts, used>>

None == 0
Passivate == 0
Message == 1 .. MaxMessages
Life == {"none", "running", "passivated", "terminating", "closed", "ended"}

Envelope(k, n) == [key |-> k, message |-> n, actor |-> None]
Terminated(a) == [key |-> None, message |-> None, actor |-> a]
Incoming == {Envelope(k, n) : k \in Keys, n \in Message} \cup {Terminated(a) : a \in Actors}

Vacant == [kind |-> "vacant", actor |-> None, buffered |-> <<>>]
Live(a) == [kind |-> "live", actor |-> a, buffered |-> <<>>]
Stopping(a) == [kind |-> "stopping", actor |-> a, buffered |-> <<>>]
NoEntity == [key |-> None, actor |-> None, rest |-> <<>>]

(* An id is given out again once nothing mentions its last holder; in the  *)
(* code ids are never reused.                                              *)
Free == {a \in Actors : life[a] = "none"}
FreshId == CHOOSE a \in Free : TRUE

Connected(a) == life[a] \in {"running", "passivated", "terminating"}

(* try_send_message: refused by a full mailbox ...                         *)
Accepts(a) == Connected(a) /\ Len(mailbox[a]) < Capacity

(* ... and try_send_forced_message: by no mailbox that is there.           *)
AcceptsForced(a) == Connected(a)

Why(a) == IF Connected(a) THEN "mailbox full" ELSE "entity terminated"
DeadLetter(k, n, why) == dead' = dead \cup {[key |-> k, message |-> n, why |-> why]}

Init ==
    /\ pc = "starting"
    /\ entries = [k \in Keys |-> Vacant]
    /\ keys = [a \in Actors |-> None]
    /\ ticker = None
    /\ fresh = NoEntity
    /\ incoming = <<>>
    /\ life = [a \in Actors |-> "none"]
    /\ owner = [a \in Actors |-> None]
    /\ mailbox = [a \in Actors |-> <<>>]
    /\ sent = [k \in Keys |-> 0]
    /\ handled = [k \in Keys |-> <<>>]
    /\ dead = {} /\ dropped = {} /\ accepted = {}
    /\ used = [stops |-> 0, failures |-> 0]

----------------------------------------------------------------------------
(* Senders.                                                                *)

Send(k) ==
    /\ sent[k] < MaxMessages
    /\ sent' = [sent EXCEPT ![k] = @ + 1]
    /\ incoming' = Append(incoming, Envelope(k, sent[k] + 1))
    /\ UNCHANGED <<pc, state, fresh, life, owner, mailbox, ghosts, used>>

----------------------------------------------------------------------------
(* The host.                                                               *)

(* The host's task takes the item at the head of its mailbox.              *)
Receive(item) ==
    /\ pc = "ready"
    /\ incoming # <<>>
    /\ item = Head(incoming)
    /\ incoming' = Tail(incoming)

(* tick_later, the ids in use being those of lives.                        *)
TickLater(lives) ==
    /\ Free # {}
    /\ life' = [lives EXCEPT ![FreshId] = "running"]
    /\ owner' = [owner EXCEPT ![FreshId] = None]
    /\ ticker' = FreshId

(* Faulty variant of ChildrenEnded: the barrier is not awaited.            *)
NoBarrier == TRUE

ChildrenEnded == \A a \in Actors : life[a] \in {"none", "ended"}

(* init, at first and, once the children have ended, after a failure.      *)
HostInit ==
    /\ pc = "starting"
    /\ ChildrenEnded
    /\ pc' = "ready"
    /\ TickLater(life)
    /\ UNCHANGED <<entries, keys, fresh, incoming, mailbox, sent, ghosts, used>>

(* route: a live entity is told.                                           *)
RouteLive(k, n) ==
    LET a == entries[k].actor
    IN  /\ Receive(Envelope(k, n))
        /\ entries[k].kind = "live"
        /\ IF Accepts(a)
             THEN mailbox' = [mailbox EXCEPT ![a] = Append(@, n)] /\ UNCHANGED dead
             ELSE DeadLetter(k, n, Why(a)) /\ UNCHANGED mailbox
        /\ UNCHANGED <<pc, state, fresh, life, owner, sent, handled, dropped, accepted, used>>

(* Faulty variant of PushBack: the newest first.                           *)
PushFront(buffered, n) == <<n>> \o buffered

HasRoom(buffered) == Len(buffered) < Buffer
PushBack(buffered, n) == Append(buffered, n)

(* route: a message for a stopping entity is buffered.                     *)
RouteStopping(k, n) ==
    /\ Receive(Envelope(k, n))
    /\ entries[k].kind = "stopping"
    /\ IF HasRoom(entries[k].buffered)
         THEN /\ entries' = [entries EXCEPT ![k].buffered = PushBack(@, n)]
              /\ accepted' = accepted \cup {<<k, n>>}
              /\ UNCHANGED dead
         ELSE /\ DeadLetter(k, n, "host buffer full")
              /\ UNCHANGED <<entries, accepted>>
    /\ UNCHANGED <<pc, keys, ticker, fresh, life, owner, mailbox, sent, handled, dropped, used>>

(* spawn_entity: the child runs while the host has yet to tell it          *)
(* anything.  Its mailbox is empty, so that what route tells it is taken   *)
(* like a forced message.                                                  *)
SpawnEntity(k, messages, lives) ==
    /\ Free # {}
    /\ pc' = "delivering"
    /\ life' = [lives EXCEPT ![FreshId] = "running"]
    /\ owner' = [owner EXCEPT ![FreshId] = k]
    /\ fresh' = [key |-> k, actor |-> FreshId, rest |-> messages]

(* route: the first message for a key spawns its entity.                   *)
RouteVacant(k, n) ==
    /\ Receive(Envelope(k, n))
    /\ entries[k].kind = "vacant"
    /\ SpawnEntity(k, <<n>>, life)
    /\ UNCHANGED <<state, mailbox, sent, ghosts, used>>

(* What came in before the entity, in order, and past its capacity.        *)
Deliver ==
    LET a == fresh.actor
        k == fresh.key
        n == Head(fresh.rest)
    IN  /\ pc = "delivering"
        /\ fresh.rest # <<>>
        /\ fresh' = [fresh EXCEPT !.rest = Tail(@)]
        /\ IF AcceptsForced(a)
             THEN mailbox' = [mailbox EXCEPT ![a] = Append(@, n)] /\ UNCHANGED dead
             ELSE DeadLetter(k, n, Why(a)) /\ UNCHANGED mailbox
        /\ UNCHANGED <<pc, state, incoming, life, owner, sent, handled, dropped, accepted, used>>


Remembered(a, k) == [keys EXCEPT ![a] = k]

(* remember, and the entry is live.                                        *)
Remember ==
    /\ pc = "delivering"
    /\ fresh.rest = <<>>
    /\ pc' = "ready"
    /\ fresh' = NoEntity
    /\ keys' = Remembered(fresh.actor, fresh.key)
    /\ entries' = [entries EXCEPT ![fresh.key] = Live(fresh.actor)]
    /\ UNCHANGED <<ticker, incoming, life, owner, mailbox, sent, ghosts, used>>

(* The id of a child is forgotten with its signal.                         *)
Forgotten(a) == [life EXCEPT ![a] = "none"]

(* Faulty variant of Passivating: the entry stays live.                    *)
StillLive(a) == Live(a)

(* An entity asked to stop is replaced in the entries.                     *)
Passivating(a) == Stopping(a)

(* passivate_idle: entities idle for long enough are asked to stop; those  *)
(* whose mailbox refuses stay live.                                        *)
Asked(idle) == {k \in idle : Accepts(entries[k].actor)}
LiveKeys == {k \in Keys : entries[k].kind = "live"}
AskToStop(asked) ==
    mailbox' = [a \in Actors |-> IF \E k \in asked : entries[k].actor = a
                                   THEN Append(mailbox[a], Passivate)
                                   ELSE mailbox[a]]

(* Faulty variant of NextTicker: the ticker is not replaced.               *)
NoTicker(a) ==
    /\ life' = Forgotten(a)
    /\ UNCHANGED <<ticker, owner>>

NextTicker(a) == TickLater(Forgotten(a))

(* terminated: the ticker.                                                 *)
Sweep(idle) ==
    /\ Receive(Terminated(ticker))
    /\ entries' = [k \in Keys |-> IF k \in Asked(idle) THEN Passivating(entries[k].actor)
                                                       ELSE entries[k]]
    /\ AskToStop(Asked(idle))
    /\ NextTicker(ticker)
    /\ UNCHANGED <<pc, keys, fresh, sent, ghosts, used>>

(* terminated: a child of before the last restart.                         *)
TerminatedUnknown(a) ==
    /\ Receive(Terminated(a))
    /\ a # ticker
    /\ keys[a] = None
    /\ life' = Forgotten(a)
    /\ UNCHANGED <<pc, state, fresh, owner, mailbox, sent, ghosts, used>>

(* Faulty variant of Forget: the entry stays.                              *)
ForgetId(a) ==
    /\ keys' = [keys EXCEPT ![a] = None]
    /\ UNCHANGED entries

(* The id and with it the entry of its key are removed.                    *)
Forget(a) ==
    /\ keys' = [keys EXCEPT ![a] = None]
    /\ entries' = [entries EXCEPT ![keys[a]] = Vacant]

(* Faulty variant of Unclaimed: the buffer is never looked at.             *)
AlwaysUnclaimed(entry) == TRUE

(* An entity which stopped on its own, or which nobody asked for since.    *)
Unclaimed(entry) == entry.kind # "stopping" \/ entry.buffered = <<>>

(* terminated: the entity is gone until it is messaged again.              *)
TerminatedUnclaimed(a) ==
    /\ Receive(Terminated(a))
    /\ a # ticker
    /\ keys[a] # None
    /\ Unclaimed(entries[keys[a]])
    /\ Forget(a)
    /\ life' = Forgotten(a)
    /\ UNCHANGED <<pc, ticker, fresh, owner, mailbox, sent, ghosts, used>>

(* terminated: what was buffered is for the next incarnation.              *)
TerminatedClaimed(a) ==
    /\ Receive(Terminated(a))
    /\ a # ticker
    /\ keys[a] # None
    /\ ~Unclaimed(entries[keys[a]])
    /\ Forget(a)
    /\ SpawnEntity(keys[a], entries[keys[a]].buffered, Forgotten(a))
    /\ UNCHANGED <<ticker, mailbox, sent, ghosts, used>>

----------------------------------------------------------------------------
(* Failure of the host: only the functions it was given can panic.  The    *)
(* state is dropped, the children are stopped, and the run loop waits for  *)
(* their end before it calls init again.                                   *)

Lost(k, messages, why) == {[key |-> k, message |-> n, why |-> why] : n \in messages}

Fail(lost) ==
    /\ used.failures < MaxFailures
    /\ used' = [used EXCEPT !.failures = @ + 1]
    /\ pc' = "starting"
    /\ entries' = [k \in Keys |-> Vacant]
    /\ keys' = [a \in Actors |-> None]
    /\ ticker' = None
    /\ dropped' = dropped \cup lost
                     \cup UNION {Lost(k, Range(entries[k].buffered), "host failed") : k \in Keys}
    /\ UNCHANGED <<fresh, owner, sent, handled, dead, accepted>>

(* spawn panics, called for a message or for a replacement ...             *)
RouteFails(k, n) ==
    /\ Receive(Envelope(k, n))
    /\ entries[k].kind = "vacant"
    /\ Fail(Lost(k, {n}, "host failed"))
    /\ UNCHANGED <<life, mailbox>>

ReplaceFails(a) ==
    /\ Receive(Terminated(a))
    /\ a # ticker
    /\ keys[a] # None
    /\ ~Unclaimed(entries[keys[a]])
    /\ Fail({})
    /\ life' = Forgotten(a)
    /\ UNCHANGED mailbox

(* ... and passivate, some entities having been asked already.             *)
SweepFails(idle) ==
    /\ Receive(Terminated(ticker))
    /\ idle # LiveKeys
    /\ Fail({})
    /\ AskToStop(Asked(idle))
    /\ life' = Forgotten(ticker)

----------------------------------------------------------------------------
(* The children, as Lifecycle has them.                                    *)

(* A message is taken by a running entity; if it fails on it, it restarts  *)
(* with its mailbox and goes on, or stops.                                 *)
Handle(a) ==
    /\ life[a] = "running"
    /\ mailbox[a] # <<>>
    /\ Head(mailbox[a]) # Passivate
    /\ mailbox' = [mailbox EXCEPT ![a] = Tail(@)]
    /\ handled' = [handled EXCEPT ![owner[a]] = Append(@, Head(mailbox[a]))]
    /\ UNCHANGED <<pc, state, fresh, incoming, life, owner, sent, dead, dropped, accepted, used>>

HandlePassivate(a) ==
    /\ life[a] = "running"
    /\ mailbox[a] # <<>>
    /\ Head(mailbox[a]) = Passivate
    /\ mailbox' = [mailbox EXCEPT ![a] = Tail(@)]
    /\ life' = IF owner[a] \in Stubborn THEN life ELSE [life EXCEPT ![a] = "passivated"]
    /\ UNCHANGED <<pc, state, fresh, incoming, owner, sent, ghosts, used>>

(* An entity fails to initialize, stops or fails for good.                 *)
StopAlone(a) ==
    /\ life[a] = "running"
    /\ owner[a] # None
    /\ used.stops < MaxStops
    /\ used' = [used EXCEPT !.stops = @ + 1]
    /\ life' = [life EXCEPT ![a] = "terminating"]
    /\ UNCHANGED <<pc, state, fresh, incoming, owner, mailbox, sent, ghosts>>

StoppedByParent(a) ==
    /\ life[a] = "running"
    /\ owner[a] # None
    /\ pc = "starting"
    /\ life' = [life EXCEPT ![a] = "terminating"]
    /\ UNCHANGED <<pc, state, fresh, incoming, owner, mailbox, sent, ghosts, used>>

(* terminate: what is queued until the receiver is dropped goes with it.   *)
Close(a) ==
    /\ life[a] \in {"passivated", "terminating"}
    /\ life' = [life EXCEPT ![a] = "closed"]
    /\ mailbox' = [mailbox EXCEPT ![a] = <<>>]
    /\ dropped' = dropped \cup Lost(owner[a], Range(mailbox[a]) \ {Passivate}, life[a])
    /\ UNCHANGED <<pc, state, fresh, incoming, owner, sent, handled, dead, accepted, used>>

(* The host is signalled last.                                             *)
Ended(a) ==
    /\ life' = [life EXCEPT ![a] = "ended"]
    /\ owner' = [owner EXCEPT ![a] = None]
    /\ incoming' = Append(incoming, Terminated(a))
    /\ UNCHANGED <<pc, state, fresh, mailbox, sent, ghosts, used>>

End(a) == life[a] = "closed" /\ Ended(a)

(* The ticker stops when its sleep is over, or earlier with the host.      *)
Tick(a) == life[a] = "running" /\ owner[a] = None /\ Ended(a)

----------------------------------------------------------------------------
HostStep ==
    \/ HostInit
    \/ \E k \in Keys, n \in Message : RouteLive(k, n) \/ RouteStopping(k, n) \/ RouteVacant(k, n)
    \/ Deliver
    \/ Remember
    \/ \E idle \in SUBSET LiveKeys : Sweep(idle)
    \/ \E a \in Actors : TerminatedUnknown(a) \/ TerminatedUnclaimed(a) \/ TerminatedClaimed(a)

Failure ==
    \/ \E k \in Keys, n \in Message : RouteFails(k, n)
    \/ \E a \in Actors : ReplaceFails(a)
    \/ \E idle \in SUBSET LiveKeys : SweepFails(idle)

ChildStep(a) ==
    Handle(a) \/ HandlePassivate(a) \/ StoppedByParent(a) \/ Close(a) \/ End(a) \/ Tick(a)

Next ==
    \/ \E k \in Keys : Send(k)
    \/ HostStep
    \/ Failure
    \/ \E a \in Actors : StopAlone(a) \/ ChildStep(a)

Spec == Init /\ [][Next]_vars

(* Every task that can go on does: the host's and its children's.          *)
FairSpec == Spec /\ WF_vars(HostStep) /\ \A a \in Actors : WF_vars(ChildStep(a))

----------------------------------------------------------------------------
(* What the host promises.                                                 *)

(* At most one incarnation of an entity exists at any time, whether it     *)
(* runs or stops, across passivation, stops of its own and restarts of the *)
(* host: route and terminated spawn a replacement only after the signal.   *)
OneIncarnation ==
    \A a, b \in Actors : owner[a] # None /\ owner[a] = owner[b] => a = b

(* Entries and keys are inverse to each other and mention children whose   *)
(* signal is still to be handled; between two messages every child running *)
(* is known, by its key or as the ticker, so that none is out of reach of  *)
(* senders and sweeps.                                                     *)
TablesAgree ==
    /\ \A k \in Keys : entries[k].kind # "vacant" =>
         keys[entries[k].actor] = k /\ life[entries[k].actor] # "none"
    /\ \A a \in Actors : keys[a] # None => entries[keys[a]].actor = a
    /\ pc = "ready" => \A a \in Actors :
         life[a] \notin {"none", "ended"} => keys[a] # None \/ a = ticker

(* Entities of one key take one sender's messages in the order sent, also  *)
(* across a passivation: the buffer is delivered in order and before the   *)
(* host takes its next message.                                            *)
SenderOrder ==
    \A k \in Keys : \A i, j \in DOMAIN handled[k] : i < j => handled[k][i] < handled[k][j]

(* Each message is in one place: with the host, in its buffer, with an     *)
(* entity, taken, reported as a dead letter, or gone with what held it.    *)
Occurrences(seq, x) == Cardinality({i \in DOMAIN seq : seq[i] = x})
OnRecord(log, k, n) == Cardinality({r \in log : r.key = k /\ r.message = n})
Accounted ==
    \A k \in Keys : \A n \in 1 .. sent[k] :
      1 = Occurrences(incoming, Envelope(k, n)) + Occurrences(entries[k].buffered, n)
            + (IF fresh.key = k THEN Occurrences(fresh.rest, n) ELSE 0)
            + Cardinality({a \in Actors : owner[a] = k /\ n \in Range(mailbox[a])})
            + Occurrences(handled[k], n) + OnRecord(dead, k, n) + OnRecord(dropped, k, n)

(* A passivation loses nothing: an entity stopping on its passivate        *)
(* message has nothing queued behind it and is told nothing any more.      *)
PassivationLossless == \A r \in dropped : r.why # "passivated"

(* A buffer is never longer than configured, and what is in it is enqueued *)
(* to the next incarnation whatever its mailbox capacity, unless that has  *)
(* terminated: a mailbox is longer than its capacity by the buffer only.   *)
BufferKept ==
    /\ \A k \in Keys : Len(entries[k].buffered) <= Buffer
    /\ \A a \in Actors : Len(mailbox[a]) <= Capacity + Buffer
    /\ \A r \in dead : <<r.key, r.message>> \in accepted => r.why = "entity terminated"


(* The host never stops sweeping, across restarts too: each ticker's       *)
(* signal leaves a ticker behind.                                          *)
SweepsForever == []<><<\E idle \in SUBSET LiveKeys : Sweep(idle)>>_vars
=============================================================================
