------------------------------ MODULE Mailbox ------------------------------
(***************************************************************************)
(* One mailbox: the quota (src/tellus/src/quota.rs) in front of an         *)
(* unbounded FIFO channel, and the receiving half owned by the actor's     *)
(* run loop (src/tellus/src/mailbox.rs).                                   *)
(*                                                                         *)
(* Senders run on any thread.  A counted send is three steps: reserve      *)
(* capacity, send on the channel, commit or drop the reservation.  The     *)
(* receiver dequeues and then releases the reservation.  Termination       *)
(* drains the channel and then drops the receiver, so a send can slip in   *)
(* between.                                                                *)
(*                                                                         *)
(* The channel is flume's: a send either appends under the channel's lock  *)
(* or fails because the receiver is gone.                                  *)
(***************************************************************************)
EXTENDS Integers, Sequences, FiniteSets

CONSTANTS
    Senders,      \* threads holding a clone of the mailbox handle
    Capacities,   \* capacities the mailbox may be made with; 0 is Unbounded
    MaxSends      \* bound: send calls per sender

ASSUME SendersAssumption == IsFiniteSet(Senders)
ASSUME CapacitiesAssumption == Capacities \subseteq Nat
ASSUME MaxSendsAssumption == MaxSends \in Nat

VARIABLES
    capacity,    \* NonZeroUsize, hence 0 is free to stand for Unbounded
    count,       \* the quota's shared count
    queue,       \* the channel
    connected,   \* the receiver has not been dropped
    pc,          \* pc[s]: progress of the send call of s
    how,         \* how[s]: which of the three send calls s makes
    result,      \* result[s]: what the last send call of s returned
    sent,        \* sent[s]: send calls begun by s
    late,        \* late[s]: the last call of s began after the receiver was dropped
    maybeFull,   \* maybeFull[s]: a full count may still be visible to s
    rpc,         \* progress of the receiver
    inHand,      \* dequeued item whose reservation is not released yet
    drained      \* items moved out of the channel by termination

senderVars == <<pc, how, result, sent, late>>
receiverVars == <<rpc, inHand, drained>>
vars == <<capacity, count, queue, connected, senderVars, maybeFull, receiverVars>>

Counted == "counted"      \* Incoming::Message via try_send_counted
Forced == "forced"        \* Incoming::Message via try_send_forced
Uncounted == "uncounted"  \* Incoming::Terminated via try_send_uncounted
Message == {Counted, Forced}

Item == [from : Senders, no : Nat, how : Message \cup {Uncounted}]

Bounded == capacity # 0
NewItem(s) == [from |-> s, no |-> sent[s], how |-> how[s]]

(* Messages and signals ride the same FIFO channel.                        *)
Push(item) == queue' = Append(queue, item)

(* Faulty variant of OwesRelease: nothing is released.                     *)
OwesNever(item) == FALSE

(* Only a message holds a reservation.                                     *)
OwesRelease(item) == item.how \in Message

----------------------------------------------------------------------------
(* The count.  A relaxed load may return an older value, so a sender that  *)
(* has not touched the count since it was at or above the capacity may     *)
(* still see it there; a read-modify-write always sees the newest value.   *)

UpdateCount(new, accessors) ==
    /\ count' = IF Bounded THEN new ELSE count
    /\ maybeFull' = [s \in Senders |->
                       Bounded /\ \/ new >= capacity
                                  \/ s \notin accessors /\ maybeFull[s]]

(* Faulty variant of HasRoom: off by one.                                  *)
HasRoomForOneMore == Bounded => count <= capacity

HasRoom == Bounded => count < capacity

----------------------------------------------------------------------------
Init ==
    /\ capacity \in Capacities
    /\ count = 0
    /\ queue = <<>>
    /\ connected = TRUE
    /\ pc = [s \in Senders |-> "idle"]
    /\ how = [s \in Senders |-> Counted]
    /\ result = [s \in Senders |-> "none"]
    /\ sent = [s \in Senders |-> 0]
    /\ late = [s \in Senders |-> FALSE]
    /\ maybeFull = [s \in Senders |-> FALSE]
    /\ rpc = "recv"
    /\ inHand = "none"
    /\ drained = <<>>

(* A send call of s starts.                                                *)
Call(s, h) ==
    /\ pc[s] = "idle"
    /\ sent[s] < MaxSends
    /\ sent' = [sent EXCEPT ![s] = @ + 1]
    /\ how' = [how EXCEPT ![s] = h]
    /\ late' = [late EXCEPT ![s] = ~connected]

Return(s, r) ==
    /\ pc' = [pc EXCEPT ![s] = "idle"]
    /\ result' = [result EXCEPT ![s] = r]

(* Quota::reserve succeeds: the update sees the newest count.              *)
Reserve(s) ==
    /\ Call(s, Counted)
    /\ HasRoom
    /\ UpdateCount(count + 1, {s})
    /\ pc' = [pc EXCEPT ![s] = "reserved"]
    /\ UNCHANGED <<capacity, queue, connected, result, receiverVars>>

(* Quota::reserve fails on a count, possibly a stale one, at capacity.     *)
ReserveFull(s) ==
    /\ Call(s, Counted)
    /\ Bounded /\ maybeFull[s]
    /\ pc' = [pc EXCEPT ![s] = "full"]
    /\ UNCHANGED <<capacity, count, queue, connected, result, maybeFull, receiverVars>>

(* Quota::reserve_forced takes a reservation past the capacity.            *)
ReserveForced(s) ==
    /\ Call(s, Forced)
    /\ UpdateCount(count + 1, {s})
    /\ pc' = [pc EXCEPT ![s] = "reserved"]
    /\ UNCHANGED <<capacity, queue, connected, result, receiverVars>>

(* The item enters the channel and the reservation is committed, which     *)
(* hands its release over to the receiver and leaves the count alone.      *)
SendOk(s) ==
    /\ pc[s] = "reserved"
    /\ connected
    /\ Push(NewItem(s))
    /\ Return(s, "ok")
    /\ UNCHANGED <<capacity, count, connected, how, sent, late, maybeFull, receiverVars>>

(* The receiver is gone: the send fails with the reservation still held.   *)
SendRefused(s) ==
    /\ pc[s] = "reserved"
    /\ ~connected
    /\ pc' = [pc EXCEPT ![s] = "refused"]
    /\ UNCHANGED <<capacity, count, queue, connected, how, result, sent, late, maybeFull,
                   receiverVars>>

(* Faulty variant of DropReservation: committed although the send failed.  *)
CommitRefused(s) ==
    /\ pc[s] = "refused"
    /\ Return(s, "disconnected")
    /\ UNCHANGED <<capacity, count, queue, connected, how, sent, late, maybeFull, receiverVars>>

(* Dropping the uncommitted reservation releases it.                       *)
DropReservation(s) ==
    /\ pc[s] = "refused"
    /\ UpdateCount(count - 1, {s})
    /\ Return(s, "disconnected")
    /\ UNCHANGED <<capacity, queue, connected, how, sent, late, receiverVars>>

(* Faulty variant of FullError: the disconnect is not probed.              *)
AlwaysFull == "full"

(* A full quota reports Full only if the receiver is still there, since    *)
(* after termination nothing releases the reservations of drained items.   *)
FullError == IF connected THEN "full" ELSE "disconnected"

ReportFull(s) ==
    /\ pc[s] = "full"
    /\ Return(s, FullError)
    /\ UNCHANGED <<capacity, count, queue, connected, how, sent, late, maybeFull, receiverVars>>

(* A terminated signal: the same channel, no reservation.                  *)
SendUncounted(s) ==
    /\ Call(s, Uncounted)
    /\ IF connected
         THEN Push([from |-> s, no |-> sent'[s], how |-> Uncounted])
         ELSE UNCHANGED queue
    /\ Return(s, IF connected THEN "ok" ELSE "disconnected")
    /\ UNCHANGED <<capacity, count, connected, maybeFull, receiverVars>>

(* Mailbox::recv takes the first item ...                                  *)
Recv ==
    /\ rpc = "recv"
    /\ queue # <<>>
    /\ queue' = Tail(queue)
    /\ IF OwesRelease(Head(queue))
         THEN rpc' = "release" /\ inHand' = Head(queue).how
         ELSE UNCHANGED <<rpc, inHand>>
    /\ UNCHANGED <<capacity, count, connected, senderVars, maybeFull, drained>>

(* ... and then releases its reservation if it is a message.               *)
Unreserve ==
    /\ rpc = "release"
    /\ UpdateCount(count - 1, {})
    /\ rpc' = "recv"
    /\ inHand' = "none"
    /\ UNCHANGED <<capacity, queue, connected, senderVars, drained>>

(* Termination moves the queued items out, releasing no reservation ...    *)
Drain ==
    /\ rpc = "recv"
    /\ rpc' = "drained"
    /\ drained' = queue
    /\ queue' = <<>>
    /\ UNCHANGED <<capacity, count, connected, senderVars, maybeFull, inHand>>

(* ... and then drops the receiver.  What was sent in between stays in the *)
(* channel.                                                                *)
DropReceiver ==
    /\ rpc = "drained"
    /\ rpc' = "closed"
    /\ connected' = FALSE
    /\ UNCHANGED <<capacity, count, queue, senderVars, maybeFull, inHand, drained>>

----------------------------------------------------------------------------
FinishCall(s) == SendOk(s) \/ SendRefused(s) \/ DropReservation(s) \/ ReportFull(s)

Sender(s) ==
    \/ Reserve(s) \/ ReserveFull(s) \/ ReserveForced(s) \/ SendUncounted(s)
    \/ FinishCall(s)

Receiver == Recv \/ Unreserve \/ Drain \/ DropReceiver

Next == Receiver \/ \E s \in Senders : Sender(s)

(* Send calls never wait, so a begun call goes on; the run loop keeps      *)
(* receiving and finishes what it began.  Nobody has to call or terminate. *)
Fairness ==
    /\ \A s \in Senders : WF_vars(FinishCall(s))
    /\ WF_vars(Recv)
    /\ WF_vars(Unreserve)
    /\ WF_vars(DropReceiver)

Spec == Init /\ [][Next]_vars

FairSpec == Spec /\ Fairness

----------------------------------------------------------------------------
TypeOK ==
    /\ capacity \in Nat
    /\ count \in Int
    /\ queue \in Seq(Item)
    /\ connected \in BOOLEAN
    /\ pc \in [Senders -> {"idle", "reserved", "refused", "full"}]
    /\ how \in [Senders -> Message \cup {Uncounted}]
    /\ result \in [Senders -> {"none", "ok", "full", "disconnected"}]
    /\ sent \in [Senders -> Nat]
    /\ late \in [Senders -> BOOLEAN]
    /\ maybeFull \in [Senders -> BOOLEAN]
    /\ rpc \in {"recv", "release", "drained", "closed"}
    /\ inHand \in Message \cup {"none"}
    /\ drained \in Seq(Item)

(* Items of the kinds H in a sequence, senders holding a reservation of    *)
(* the kinds H, and altogether the reservations of those kinds which       *)
(* nobody has released.                                                    *)
Positions(q, H) == {i \in DOMAIN q : q[i].how \in H}
Holders(H) == {s \in Senders : pc[s] \in {"reserved", "refused"} /\ how[s] \in H}
Outstanding(H) ==
    Cardinality(Positions(queue, H)) + Cardinality(Positions(drained, H))
      + Cardinality(Holders(H)) + (IF inHand \in H THEN 1 ELSE 0)

(* The shared count is exactly the number of reservations nobody has       *)
(* released: held by a send in progress, by a queued message, by the       *)
(* message the receiver has just dequeued, or left behind by the drain.    *)
CountBalanced == count = IF Bounded THEN Outstanding(Message) ELSE 0

(* "the count never underflows" (quota.rs): whoever is about to release a  *)
(* reservation finds the count positive, the debug_assert of unreserve.    *)
NoUnderflow ==
    Bounded /\ (rpc = "release" \/ \E s \in Senders : pc[s] = "refused") => count > 0

(* Whatever senders interleave and however many forced messages are        *)
(* queued, ordinary messages never hold more than the capacity.            *)
CapacityRespected == Bounded => Outstanding({Counted}) <= capacity

(* A send which begins after the receiver was dropped is told so: never    *)
(* Ok, and never Full although the drained messages keep the quota full.   *)
TerminationReported ==
    \A s \in Senders : pc[s] = "idle" /\ late[s] => result[s] = "disconnected"

(* A full mailbox of a running actor gets room again: no path of a send or *)
(* of the receiver leaks a reservation.                                    *)
RoomAgain == Bounded /\ count >= capacity ~> count < capacity \/ rpc \in {"drained", "closed"}
=============================================================================
