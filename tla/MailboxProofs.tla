--------------------------- MODULE MailboxProofs ---------------------------
(***************************************************************************)
(* Proofs about Mailbox, for any finite set of senders, any capacity and   *)
(* any number of sends.                                                    *)
(***************************************************************************)
EXTENDS Mailbox, FiniteSetTheorems, TLAPS

USE Zenon

(* The positions of a queue's items of given kinds are finitely many.      *)
LEMMA PositionsFinite ==
    ASSUME NEW q \in Seq(Item), NEW H
    PROVE  /\ IsFiniteSet(Positions(q, H))
           /\ Cardinality(Positions(q, H)) \in Nat
<1>1. Positions(q, H) \in SUBSET (1 .. Len(q))
  BY SMT DEF Positions
<1>2. IsFiniteSet(1 .. Len(q))
  BY FS_Interval, SMT
<1>3. IsFiniteSet(Positions(q, H))
  BY <1>1, <1>2, FS_Subset
<1>. QED
  BY <1>3, FS_CardinalityType

(* Enqueueing an item adds one position if the item is of a kind counted.  *)
LEMMA PositionsAppend ==
    ASSUME NEW q \in Seq(Item), NEW e \in Item, NEW H
    PROVE  Cardinality(Positions(Append(q, e), H)) =
             Cardinality(Positions(q, H)) + (IF e.how \in H THEN 1 ELSE 0)
<1>1. CASE e.how \in H
  <2>1. Positions(Append(q, e), H) = Positions(q, H) \cup {Len(q) + 1}
    BY <1>1, SMT DEF Positions
  <2>2. Len(q) + 1 \notin Positions(q, H)
    BY SMT DEF Positions
  <2>3. Cardinality(Positions(q, H) \cup {Len(q) + 1}) = Cardinality(Positions(q, H)) + 1
    BY <2>2, PositionsFinite, FS_AddElement
  <2>. QED
    BY <1>1, <2>1, <2>3
<1>2. CASE e.how \notin H
  <2>1. Positions(Append(q, e), H) = Positions(q, H)
    BY <1>2, SMT DEF Positions
  <2>. QED
    BY <1>2, <2>1, PositionsFinite, SMT
<1>. QED
  BY <1>1, <1>2

(* Dequeueing removes one position if the first item is of a kind counted: *)
(* the other positions move down by one.                                   *)
LEMMA PositionsTail ==
    ASSUME NEW q \in Seq(Item), q # <<>>, NEW H
    PROVE  Cardinality(Positions(q, H)) =
             Cardinality(Positions(Tail(q), H)) + (IF Head(q).how \in H THEN 1 ELSE 0)
<1> DEFINE rest == Positions(q, H) \ {1}
           down == [i \in rest |-> i - 1]
<1>1. Tail(q) \in Seq(Item)
  BY SMT
<1>2. \A i \in 1 .. Len(q) - 1 : Tail(q)[i] = q[i + 1]
  BY SMT
<1>3. Len(Tail(q)) = Len(q) - 1 /\ Len(q) \in Nat \ {0}
  BY SMT
<1>4. rest = {i \in 2 .. Len(q) : q[i].how \in H}
  BY SMT DEF Positions
<1>5. Positions(Tail(q), H) = {i \in 1 .. Len(q) - 1 : q[i + 1].how \in H}
  BY <1>1, <1>2, <1>3, SMT DEF Positions
<1>6. down \in Bijection(rest, Positions(Tail(q), H))
  <2>1. down \in [rest -> Positions(Tail(q), H)]
    BY <1>3, <1>4, <1>5, SMT
  <2>2. \A i, j \in rest : down[i] = down[j] => i = j
    BY <1>4, SMT
  <2>3. \A t \in Positions(Tail(q), H) : \E i \in rest : down[i] = t
    <3>1. SUFFICES ASSUME NEW t \in Positions(Tail(q), H)
                   PROVE  t + 1 \in rest /\ down[t + 1] = t
      OBVIOUS
    <3>2. t + 1 \in rest
      BY <1>3, <1>4, <1>5, SMT
    <3>. QED
      BY <3>2, <1>4, <1>5, SMT
  <2>. QED
    BY <2>1, <2>2, <2>3 DEF Bijection, Injection, Surjection, IsInjective
<1>7. Cardinality(rest) = Cardinality(Positions(Tail(q), H))
  <2>1. IsFiniteSet(rest)
    BY PositionsFinite, FS_RemoveElement
  <2>2. ExistsBijection(rest, Positions(Tail(q), H))
    BY <1>6 DEF ExistsBijection
  <2>. QED
    BY <2>1, <2>2, FS_Bijection
<1>8. Cardinality(rest) = IF 1 \in Positions(q, H) THEN Cardinality(Positions(q, H)) - 1
                                                  ELSE Cardinality(Positions(q, H))
  BY PositionsFinite, FS_RemoveElement
<1>9. 1 \in Positions(q, H) <=> Head(q).how \in H
  BY <1>3, SMT DEF Positions
<1>. QED
  BY <1>7, <1>8, <1>9, PositionsFinite, SMT

----------------------------------------------------------------------------
(* The inductive invariant.  A reservation is held only by a call that     *)
(* sends a message, the receiver has an item in hand exactly while it owes *)
(* a release, and nothing is drained before termination.                   *)
CallInv == \A s \in Senders : pc[s] \in {"reserved", "refused"} => how[s] \in Message
HandInv == rpc = "release" <=> inHand # "none"
DrainInv == rpc \in {"recv", "release"} => drained = <<>>

IInv ==
    /\ TypeOK
    /\ CallInv
    /\ HandInv
    /\ DrainInv
    /\ CountBalanced
    /\ CapacityRespected

(* The senders holding a reservation of given kinds are finitely many,     *)
(* before and after a step.                                                *)
LEMMA HoldersFinite ==
    ASSUME NEW H
    PROVE  /\ IsFiniteSet(Holders(H)) /\ Cardinality(Holders(H)) \in Nat
           /\ IsFiniteSet(Holders(H)') /\ Cardinality(Holders(H)') \in Nat
<1>1. Holders(H) \in SUBSET Senders /\ Holders(H)' \in SUBSET Senders
  BY DEF Holders
<1>2. IsFiniteSet(Holders(H)) /\ IsFiniteSet(Holders(H)')
  BY <1>1, SendersAssumption, FS_Subset
<1>. QED
  BY <1>2, FS_CardinalityType

(* Quota::reserve and reserve_forced: the caller becomes a holder.         *)
LEMMA HoldersGrow ==
    ASSUME NEW s \in Senders, NEW H, TypeOK,
           pc[s] = "idle", pc' = [pc EXCEPT ![s] = "reserved"],
           NEW h \in Message, how' = [how EXCEPT ![s] = h]
    PROVE  Cardinality(Holders(H)') = Cardinality(Holders(H)) + (IF h \in H THEN 1 ELSE 0)
<1>1. s \notin Holders(H)
  BY DEF Holders
<1>2. Holders(H)' = IF h \in H THEN Holders(H) \cup {s} ELSE Holders(H)
  BY DEF Holders, TypeOK
<1>3. Cardinality(Holders(H) \cup {s}) = Cardinality(Holders(H)) + 1
  BY <1>1, HoldersFinite, FS_AddElement
<1>4. Cardinality(Holders(H)) \in Nat
  BY HoldersFinite
<1>5. CASE h \in H
  BY <1>2, <1>3, <1>5
<1>6. CASE h \notin H
  BY <1>2, <1>4, <1>6, SMT
<1>. QED
  BY <1>5, <1>6

(* A committed or dropped reservation: the caller is no longer a holder.   *)
LEMMA HoldersShrink ==
    ASSUME NEW s \in Senders, NEW H, TypeOK,
           pc[s] \in {"reserved", "refused"}, pc' = [pc EXCEPT ![s] = "idle"],
           how' = how
    PROVE  Cardinality(Holders(H)) =
             Cardinality(Holders(H)') + (IF how[s] \in H THEN 1 ELSE 0)
<1>1. Holders(H)' = Holders(H) \ {s}
  BY DEF Holders, TypeOK
<1>2. s \in Holders(H) <=> how[s] \in H
  BY DEF Holders
<1>3. Cardinality(Holders(H) \ {s}) = IF s \in Holders(H) THEN Cardinality(Holders(H)) - 1
                                                           ELSE Cardinality(Holders(H))
  BY HoldersFinite, FS_RemoveElement
<1>4. Cardinality(Holders(H)) \in Nat
  BY HoldersFinite
<1>5. CASE how[s] \in H
  BY <1>1, <1>2, <1>3, <1>4, <1>5, SMT
<1>6. CASE how[s] \notin H
  BY <1>1, <1>2, <1>3, <1>4, <1>6, SMT
<1>. QED
  BY <1>5, <1>6

(* A step which moves no sender between holding and not holding.           *)
LEMMA HoldersSame ==
    ASSUME NEW H,
           \A s \in Senders :
             (pc'[s] \in {"reserved", "refused"} /\ how'[s] \in H)
               <=> (pc[s] \in {"reserved", "refused"} /\ how[s] \in H)
    PROVE  Holders(H)' = Holders(H)
BY DEF Holders

(* Every number of reservations is a natural number.                       *)
LEMMA CardinalitiesNat ==
    ASSUME TypeOK, NEW H
    PROVE  /\ Cardinality(Positions(queue, H)) \in Nat
           /\ Cardinality(Positions(drained, H)) \in Nat
           /\ Cardinality(Holders(H)) \in Nat
           /\ Cardinality(Holders(H)') \in Nat
BY PositionsFinite, HoldersFinite DEF TypeOK

----------------------------------------------------------------------------
(* Every step keeps every variable in its type.                            *)
LEMMA TypeStep == TypeOK /\ [Next]_vars => TypeOK'
<1> SUFFICES ASSUME TypeOK, [Next]_vars
             PROVE  TypeOK'
  OBVIOUS
<1> USE DEF TypeOK, UpdateCount, Call, Return, Bounded, Counted, Forced, Uncounted, Message,
            senderVars, receiverVars
<1>1. ASSUME NEW s \in Senders, Reserve(s) PROVE TypeOK'
  BY <1>1, SMT DEF Reserve
<1>2. ASSUME NEW s \in Senders, ReserveFull(s) PROVE TypeOK'
  BY <1>2, SMT DEF ReserveFull
<1>3. ASSUME NEW s \in Senders, ReserveForced(s) PROVE TypeOK'
  BY <1>3, SMT DEF ReserveForced
<1>4. ASSUME NEW s \in Senders, SendOk(s) PROVE TypeOK'
  <2>1. NewItem(s) \in Item
    BY DEF NewItem, Item
  <2>. QED
    BY <1>4, <2>1, SMT DEF SendOk, Push
<1>5. ASSUME NEW s \in Senders, SendRefused(s) PROVE TypeOK'
  BY <1>5 DEF SendRefused
<1>6. ASSUME NEW s \in Senders, DropReservation(s) PROVE TypeOK'
  BY <1>6, SMT DEF DropReservation
<1>7. ASSUME NEW s \in Senders, ReportFull(s) PROVE TypeOK'
  BY <1>7 DEF ReportFull, FullError
<1>8. ASSUME NEW s \in Senders, SendUncounted(s) PROVE TypeOK'
  <2> DEFINE item == [from |-> s, no |-> sent'[s], how |-> Uncounted]
  <2>1. item \in Item
    BY <1>8, SMT DEF SendUncounted, Item
  <2>2. queue' = queue \/ queue' = Append(queue, item)
    BY <1>8 DEF SendUncounted, Push
  <2>. HIDE DEF item
  <2>3. Append(queue, item) \in Seq(Item)
    BY <2>1, SMT
  <2>4. queue' \in Seq(Item)
    BY <2>2, <2>3
  <2>. QED
    BY <1>8, <2>4, SMT DEF SendUncounted
<1>9. CASE Recv
  <2>1. Head(queue) \in Item /\ Tail(queue) \in Seq(Item)
    BY <1>9, SMT DEF Recv
  <2>2. Head(queue).how \in Message \cup {Uncounted}
    BY <2>1 DEF Item
  <2>3. rpc' \in {"recv", "release"} /\ inHand' \in Message \cup {"none"}
    BY <1>9, <2>2 DEF Recv, OwesRelease
  <2>. QED
    BY <1>9, <2>1, <2>3 DEF Recv
<1>10. CASE Unreserve
  BY <1>10, SMT DEF Unreserve
<1>11. CASE Drain
  BY <1>11, SMT DEF Drain
<1>12. CASE DropReceiver
  BY <1>12 DEF DropReceiver
<1>13. CASE UNCHANGED vars
  BY <1>13 DEF vars
<1>. QED
  BY <1>1, <1>2, <1>3, <1>4, <1>5, <1>6, <1>7, <1>8, <1>9, <1>10, <1>11, <1>12, <1>13
     DEF Next, Sender, FinishCall, Receiver

----------------------------------------------------------------------------
(* What a step does to the reservations: an action leaves their number     *)
(* alone, adds the reservation it takes or removes the one it releases.    *)

(* Taking a reservation, ordinary or forced.                               *)
LEMMA OutstandingReserve ==
    ASSUME IInv, NEW s \in Senders, NEW H \in SUBSET Message, NEW h \in Message,
           pc[s] = "idle", pc' = [pc EXCEPT ![s] = "reserved"],
           how' = [how EXCEPT ![s] = h], UNCHANGED <<queue, receiverVars>>
    PROVE  Outstanding(H)' = Outstanding(H) + (IF h \in H THEN 1 ELSE 0)
<1>1. Cardinality(Holders(H)') = Cardinality(Holders(H)) + (IF h \in H THEN 1 ELSE 0)
  BY HoldersGrow DEF IInv
<1>2. queue' = queue /\ drained' = drained /\ inHand' = inHand
  BY DEF receiverVars
<1>. QED
  BY <1>1, <1>2, CardinalitiesNat, SMT DEF Outstanding, IInv

(* Dropping an uncommitted reservation.                                    *)
LEMMA OutstandingRelease ==
    ASSUME IInv, NEW s \in Senders, NEW H \in SUBSET Message,
           pc[s] = "refused", pc' = [pc EXCEPT ![s] = "idle"],
           UNCHANGED <<how, queue, receiverVars>>
    PROVE  Outstanding(H) = Outstanding(H)' + (IF how[s] \in H THEN 1 ELSE 0)
<1>1. Cardinality(Holders(H)) = Cardinality(Holders(H)') + (IF how[s] \in H THEN 1 ELSE 0)
  BY HoldersShrink DEF IInv
<1>2. queue' = queue /\ drained' = drained /\ inHand' = inHand
  BY DEF receiverVars
<1>. QED
  BY <1>1, <1>2, CardinalitiesNat, SMT DEF Outstanding, IInv

(* A committed reservation moves from the sender to the queued item.       *)
LEMMA OutstandingCommit ==
    ASSUME IInv, NEW s \in Senders, NEW H \in SUBSET Message, SendOk(s)
    PROVE  Outstanding(H)' = Outstanding(H)
<1>1. Cardinality(Holders(H)) = Cardinality(Holders(H)') + (IF how[s] \in H THEN 1 ELSE 0)
  BY HoldersShrink DEF IInv, SendOk, Return
<1>2. NewItem(s) \in Item /\ NewItem(s).how = how[s]
  BY DEF NewItem, Item, IInv, TypeOK
<1>3. Cardinality(Positions(queue', H)) =
        Cardinality(Positions(queue, H)) + (IF how[s] \in H THEN 1 ELSE 0)
  BY <1>2, PositionsAppend, SMT DEF SendOk, Push, IInv, TypeOK
<1>4. inHand' = inHand /\ drained' = drained
  BY DEF SendOk, receiverVars
<1>. QED
  BY <1>1, <1>3, <1>4, CardinalitiesNat, SMT DEF Outstanding, IInv

(* A signal holds no reservation.                                          *)
LEMMA OutstandingUncounted ==
    ASSUME IInv, NEW s \in Senders, NEW H \in SUBSET Message, SendUncounted(s)
    PROVE  Outstanding(H)' = Outstanding(H)
<1> DEFINE item == [from |-> s, no |-> sent'[s], how |-> Uncounted]
<1>1. item \in Item /\ item.how \notin H
  <2>1. sent'[s] \in Nat
    BY SMT DEF SendUncounted, Call, IInv, TypeOK
  <2>. QED
    BY <2>1 DEF Item, Message, Counted, Forced, Uncounted
<1>2. Cardinality(Positions(queue', H)) = Cardinality(Positions(queue, H))
  <2>1. CASE connected
    <3>1. queue' = Append(queue, item)
      BY <2>1 DEF SendUncounted, Push
    <3>2. Cardinality(Positions(Append(queue, item), H)) =
            Cardinality(Positions(queue, H)) + (IF item.how \in H THEN 1 ELSE 0)
      BY <1>1, PositionsAppend, SMT DEF IInv, TypeOK
    <3>. HIDE DEF item
    <3>. QED
      BY <3>1, <3>2, <1>1, CardinalitiesNat, SMT DEF IInv
  <2>2. CASE ~connected
    BY <2>2 DEF SendUncounted
  <2>. QED
    BY <2>1, <2>2
<1>3. Holders(H)' = Holders(H)
  <2>1. /\ pc[s] = "idle" /\ pc' = [pc EXCEPT ![s] = "idle"]
        /\ how' = [how EXCEPT ![s] = Uncounted]
    BY DEF SendUncounted, Call, Return
  <2>. QED
    BY <2>1, HoldersSame DEF IInv, TypeOK
<1>4. drained' = drained /\ inHand' = inHand
  BY DEF SendUncounted, receiverVars
<1>. QED
  BY <1>2, <1>3, <1>4 DEF Outstanding

(* A dequeued message takes its reservation along into the receiver's hand. *)
LEMMA OutstandingRecv ==
    ASSUME IInv, NEW H \in SUBSET Message, Recv
    PROVE  Outstanding(H)' = Outstanding(H)
<1>1. queue \in Seq(Item) /\ queue # <<>> /\ queue' = Tail(queue)
  BY DEF Recv, IInv, TypeOK
<1>2. Cardinality(Positions(queue, H)) =
        Cardinality(Positions(queue', H)) + (IF Head(queue).how \in H THEN 1 ELSE 0)
  BY <1>1, PositionsTail
<1>3. queue' \in Seq(Item)
  BY <1>1, SMT
<1>4. Cardinality(Positions(queue', H)) \in Nat
  BY <1>3, PositionsFinite
<1>5. inHand = "none" /\ "none" \notin H
  BY DEF Recv, IInv, HandInv, Message, Counted, Forced
<1>6. (IF inHand' \in H THEN 1 ELSE 0) = (IF Head(queue).how \in H THEN 1 ELSE 0)
  BY <1>5 DEF Recv, OwesRelease
<1>7. Holders(H)' = Holders(H) /\ drained' = drained
  BY HoldersSame DEF Recv, senderVars
<1>. QED
  BY <1>2, <1>4, <1>5, <1>6, <1>7, CardinalitiesNat, SMT DEF Outstanding, IInv

(* The receiver releases the reservation of the message in its hand.       *)
LEMMA OutstandingUnreserve ==
    ASSUME IInv, NEW H \in SUBSET Message, Unreserve
    PROVE  Outstanding(H) = Outstanding(H)' + (IF inHand \in H THEN 1 ELSE 0)
<1>1. queue' = queue /\ drained' = drained /\ inHand' = "none" /\ "none" \notin H
  BY DEF Unreserve, Message, Counted, Forced
<1>2. Holders(H)' = Holders(H)
  BY HoldersSame DEF Unreserve, senderVars
<1>. QED
  BY <1>1, <1>2, CardinalitiesNat, SMT DEF Outstanding, IInv

(* The drain keeps the reservations of the items it moves.                 *)
LEMMA OutstandingDrain ==
    ASSUME IInv, NEW H \in SUBSET Message, Drain
    PROVE  Outstanding(H)' = Outstanding(H)
<1>1. drained = <<>> /\ drained' = queue /\ queue' = <<>> /\ inHand' = inHand
  BY DEF Drain, IInv, DrainInv
<1>2. Cardinality(Positions(<<>>, H)) = 0
  <2>1. Positions(<<>>, H) = {}
    BY SMT DEF Positions
  <2>. QED
    BY <2>1, FS_EmptySet
<1>3. Holders(H)' = Holders(H)
  BY HoldersSame DEF Drain, senderVars
<1>. QED
  BY <1>1, <1>2, <1>3, CardinalitiesNat, SMT DEF Outstanding, IInv

----------------------------------------------------------------------------
(* The control part of the invariant is kept by every step.                *)
LEMMA ControlStep ==
    IInv /\ [Next]_vars => CallInv' /\ HandInv' /\ DrainInv'
<1> SUFFICES ASSUME IInv, [Next]_vars
             PROVE  CallInv' /\ HandInv' /\ DrainInv'
  OBVIOUS
<1> USE DEF IInv, TypeOK, CallInv, HandInv, DrainInv, Call, Return, Counted, Forced, Uncounted,
            Message, senderVars, receiverVars
<1>1. ASSUME NEW s \in Senders, Sender(s)
      PROVE  CallInv' /\ HandInv' /\ DrainInv'
  BY <1>1, SMT DEF Sender, FinishCall, Reserve, ReserveFull, ReserveForced, SendOk, SendRefused,
              DropReservation, ReportFull, SendUncounted
<1>2. CASE Recv
  BY <1>2 DEF Recv, OwesRelease
<1>3. CASE Unreserve \/ Drain \/ DropReceiver
  BY <1>3 DEF Unreserve, Drain, DropReceiver
<1>4. CASE UNCHANGED vars
  BY <1>4 DEF vars
<1>. QED
  BY <1>1, <1>2, <1>3, <1>4 DEF Next, Receiver

(* A step which neither takes nor releases a reservation keeps the balance.*)
LEMMA BalanceSame ==
    ASSUME IInv, capacity' = capacity, count' = count,
           \A H \in SUBSET Message : Outstanding(H)' = Outstanding(H)
    PROVE  CountBalanced' /\ CapacityRespected'
<1>1. Outstanding(Message)' = Outstanding(Message)
  OBVIOUS
<1>2. Outstanding({Counted})' = Outstanding({Counted})
  BY DEF Message
<1>. QED
  BY <1>1, <1>2 DEF IInv, CountBalanced, CapacityRespected, Bounded

(* A step which releases one reservation keeps the balance if it takes one *)
(* off the count.                                                          *)
LEMMA BalanceRelease ==
    ASSUME IInv, capacity' = capacity, NEW h \in Message,
           count' = IF Bounded THEN count - 1 ELSE count,
           \A H \in SUBSET Message :
             Outstanding(H) = Outstanding(H)' + (IF h \in H THEN 1 ELSE 0),
           \A H \in SUBSET Message : Outstanding(H)' \in Int
    PROVE  CountBalanced' /\ CapacityRespected'
<1>1. Outstanding(Message) = Outstanding(Message)' + 1 /\ Outstanding(Message)' \in Int
  OBVIOUS
<1>2. {Counted} \in SUBSET Message
  BY DEF Message
<1>3. /\ Outstanding({Counted})' \in Int
      /\ \/ Outstanding({Counted}) = Outstanding({Counted})' + 1
         \/ Outstanding({Counted}) = Outstanding({Counted})'
  BY <1>2, SMT
<1>. QED
  BY <1>1, <1>3, CapacitiesAssumption, SMT DEF IInv, TypeOK, CountBalanced, CapacityRespected, Bounded

(* The number of outstanding reservations is a natural number, before and  *)
(* after a step.                                                           *)
LEMMA OutstandingNat ==
    ASSUME TypeOK, TypeOK', NEW H
    PROVE  Outstanding(H) \in Nat /\ Outstanding(H)' \in Nat
<1>1. /\ Cardinality(Positions(queue, H)) \in Nat
      /\ Cardinality(Positions(drained, H)) \in Nat
      /\ Cardinality(Positions(queue', H)) \in Nat
      /\ Cardinality(Positions(drained', H)) \in Nat
  BY PositionsFinite DEF TypeOK
<1>. QED
  BY <1>1, HoldersFinite, SMT DEF Outstanding

(* Ordinary reservations are among all reservations.                       *)
LEMMA CountedLeMessage ==
    ASSUME TypeOK
    PROVE  Outstanding({Counted}) <= Outstanding(Message)
<1>1. {Counted} \subseteq Message
  BY DEF Message
<1>2. /\ Positions(queue, {Counted}) \in SUBSET Positions(queue, Message)
      /\ Positions(drained, {Counted}) \in SUBSET Positions(drained, Message)
      /\ Holders({Counted}) \in SUBSET Holders(Message)
  BY <1>1 DEF Positions, Holders
<1>3. /\ Cardinality(Positions(queue, {Counted})) <= Cardinality(Positions(queue, Message))
      /\ Cardinality(Positions(drained, {Counted})) <= Cardinality(Positions(drained, Message))
      /\ Cardinality(Holders({Counted})) <= Cardinality(Holders(Message))
  BY <1>2, PositionsFinite, HoldersFinite, FS_Subset DEF TypeOK
<1>. QED
  BY <1>1, <1>3, CardinalitiesNat, SMT DEF Outstanding

(* The invariant is inductive.                                             *)
LEMMA IInvStep == IInv /\ [Next]_vars => IInv'
<1> SUFFICES ASSUME IInv, [Next]_vars
             PROVE  IInv'
  OBVIOUS
<1>1. TypeOK /\ TypeOK'
  BY TypeStep DEF IInv
<1>2. CallInv' /\ HandInv' /\ DrainInv'
  BY ControlStep
<1>3. \A H : Outstanding(H) \in Nat /\ Outstanding(H)' \in Nat
  BY <1>1, OutstandingNat
<1>4. {Counted} \in SUBSET Message /\ Counted \in Message /\ Forced \in Message
      /\ Forced \notin {Counted}
  BY DEF Message, Counted, Forced
<1>5. ASSUME NEW s \in Senders, Reserve(s)
      PROVE  CountBalanced' /\ CapacityRespected'
  <2>1. \A H \in SUBSET Message :
          Outstanding(H)' = Outstanding(H) + (IF Counted \in H THEN 1 ELSE 0)
    BY <1>4, <1>5, OutstandingReserve DEF Reserve, Call
  <2>2. /\ Outstanding(Message)' = Outstanding(Message) + 1
        /\ Outstanding({Counted})' = Outstanding({Counted}) + 1
    BY <1>4, <2>1
  <2>3. Bounded => Outstanding({Counted}) <= Outstanding(Message)
    BY <1>1, CountedLeMessage
  <2>4. PICK m, n : m = Outstanding(Message) /\ n = Outstanding({Counted})
    OBVIOUS
  <2>5. Outstanding(Message)' = m + 1 /\ Outstanding({Counted})' = n + 1
    BY <2>2, <2>4
  <2>. QED
    BY <1>1, <1>3, <1>5, <2>3, <2>4, <2>5, SMT
       DEF Reserve, HasRoom, UpdateCount, IInv, TypeOK, CountBalanced, CapacityRespected, Bounded
<1>6. ASSUME NEW s \in Senders, ReserveForced(s)
      PROVE  CountBalanced' /\ CapacityRespected'
  <2>1. \A H \in SUBSET Message :
          Outstanding(H)' = Outstanding(H) + (IF Forced \in H THEN 1 ELSE 0)
    BY <1>4, <1>6, OutstandingReserve DEF ReserveForced, Call
  <2>2. /\ Outstanding(Message)' = Outstanding(Message) + 1
        /\ Outstanding({Counted})' = Outstanding({Counted})
    BY <1>3, <1>4, <2>1, SMT
  <2>. QED
    BY <1>1, <1>3, <1>6, <2>2
       DEF ReserveForced, UpdateCount, IInv, TypeOK, CountBalanced, CapacityRespected, Bounded
<1>7. ASSUME NEW s \in Senders, SendOk(s)
      PROVE  CountBalanced' /\ CapacityRespected'
  <2>1. \A H \in SUBSET Message : Outstanding(H)' = Outstanding(H)
    BY <1>7, OutstandingCommit
  <2>. QED
    BY <1>7, <2>1, BalanceSame DEF SendOk
<1>8. ASSUME NEW s \in Senders, DropReservation(s)
      PROVE  CountBalanced' /\ CapacityRespected'
  <2>1. \A H \in SUBSET Message :
          Outstanding(H) = Outstanding(H)' + (IF how[s] \in H THEN 1 ELSE 0)
    BY <1>8, OutstandingRelease DEF DropReservation, Return
  <2>2. how[s] \in Message
    BY <1>8 DEF DropReservation, IInv, CallInv
  <2>. QED
    BY <1>3, <1>8, <2>1, <2>2, BalanceRelease, SMT DEF DropReservation, UpdateCount
<1>9. ASSUME NEW s \in Senders, SendUncounted(s)
      PROVE  CountBalanced' /\ CapacityRespected'
  <2>1. \A H \in SUBSET Message : Outstanding(H)' = Outstanding(H)
    BY <1>9, OutstandingUncounted
  <2>. QED
    BY <1>9, <2>1, BalanceSame DEF SendUncounted
<1>10. ASSUME NEW s \in Senders, ReserveFull(s) \/ SendRefused(s) \/ ReportFull(s)
       PROVE  CountBalanced' /\ CapacityRespected'
  <2>1. \A H \in SUBSET Message : Holders(H)' = Holders(H)
    BY <1>1, <1>10, HoldersSame
       DEF ReserveFull, SendRefused, ReportFull, Call, Return, TypeOK
  <2>2. UNCHANGED <<queue, drained, inHand, capacity, count>>
    BY <1>10 DEF ReserveFull, SendRefused, ReportFull, receiverVars
  <2>. QED
    BY <2>1, <2>2, BalanceSame DEF Outstanding
<1>11. CASE Recv
  <2>1. \A H \in SUBSET Message : Outstanding(H)' = Outstanding(H)
    BY <1>11, OutstandingRecv
  <2>. QED
    BY <1>1, <1>2, <1>11, <2>1, BalanceSame DEF Recv, IInv
<1>12. CASE Unreserve
  <2>1. inHand \in Message
    BY <1>1, <1>12 DEF Unreserve, IInv, HandInv, TypeOK
  <2>2. \A H \in SUBSET Message :
          Outstanding(H) = Outstanding(H)' + (IF inHand \in H THEN 1 ELSE 0)
    BY <1>12, OutstandingUnreserve
  <2>. QED
    BY <1>1, <1>2, <1>3, <1>12, <2>1, <2>2, BalanceRelease, SMT DEF Unreserve, UpdateCount, IInv
<1>13. CASE Drain
  <2>1. \A H \in SUBSET Message : Outstanding(H)' = Outstanding(H)
    BY <1>13, OutstandingDrain
  <2>. QED
    BY <1>1, <1>2, <1>13, <2>1, BalanceSame DEF Drain, IInv
<1>14. CASE DropReceiver \/ UNCHANGED vars
  <2>1. \A H \in SUBSET Message : Holders(H)' = Holders(H)
    BY <1>14, HoldersSame DEF DropReceiver, vars, senderVars
  <2>2. UNCHANGED <<queue, drained, inHand, capacity, count>>
    BY <1>14 DEF DropReceiver, vars, receiverVars
  <2>. QED
    BY <1>1, <1>2, <2>1, <2>2, BalanceSame DEF Outstanding, IInv
<1>. QED
  BY <1>1, <1>2, <1>5, <1>6, <1>7, <1>8, <1>9, <1>10, <1>11, <1>12, <1>13, <1>14
     DEF Next, Sender, FinishCall, Receiver, IInv

----------------------------------------------------------------------------
(* Every mailbox keeps its variables in their types.                       *)
THEOREM MailboxType == Spec => []TypeOK
<1>1. Init => TypeOK
  BY CapacitiesAssumption, SMT DEF Init, TypeOK, Message, Counted, Uncounted
<1>2. TypeOK /\ [Next]_vars => TypeOK'
  BY TypeStep
<1>. QED
  BY <1>1, <1>2, PTL DEF Spec

(* The inductive invariant holds of every mailbox: of quota.rs's count, of *)
(* mailbox.rs's receive and of the drain in actor_context.rs's terminate.  *)
THEOREM MailboxInvariant == Spec => []IInv
<1>1. Init => IInv
  <2> SUFFICES ASSUME Init PROVE IInv
    OBVIOUS
  <2>1. TypeOK
    BY CapacitiesAssumption, SMT DEF Init, TypeOK, Message, Counted, Uncounted
  <2>2. CallInv /\ HandInv /\ DrainInv
    BY DEF Init, CallInv, HandInv, DrainInv
  <2>3. ASSUME NEW H \in SUBSET Message PROVE Outstanding(H) = 0
    <3>1. Positions(queue, H) = {} /\ Positions(drained, H) = {} /\ Holders(H) = {}
      BY SMT DEF Init, Positions, Holders
    <3>2. inHand \notin H
      BY DEF Init, Message, Counted, Forced
    <3>3. Cardinality({}) = 0
      BY FS_EmptySet
    <3>. QED
      BY <3>1, <3>2, <3>3, SMT DEF Outstanding
  <2>4. Outstanding(Message) = 0 /\ Outstanding({Counted}) = 0
    BY <2>3 DEF Message
  <2>. QED
    BY <2>1, <2>2, <2>4, SMT DEF Init, IInv, CountBalanced, CapacityRespected, TypeOK
<1>2. IInv /\ [Next]_vars => IInv'
  BY IInvStep
<1>. QED
  BY <1>1, <1>2, PTL DEF Spec

(* The quota's count is exact: it equals the number of reservations nobody *)
(* has released, for any number of racing senders.                         *)
THEOREM QuotaIsExact == Spec => []CountBalanced
<1>1. IInv => CountBalanced
  BY DEF IInv
<1>. QED
  BY <1>1, MailboxInvariant, PTL

(* Ordinary messages never exceed the capacity, forced deliveries or not.  *)
THEOREM QuotaIsRespected == Spec => []CapacityRespected
<1>1. IInv => CapacityRespected
  BY DEF IInv
<1>. QED
  BY <1>1, MailboxInvariant, PTL

(* The debug_assert of Quota::unreserve never fires.                       *)
THEOREM QuotaNeverUnderflows == Spec => []NoUnderflow
<1>1. IInv => NoUnderflow
  <2> SUFFICES ASSUME IInv, Bounded,
                      rpc = "release" \/ \E s \in Senders : pc[s] = "refused"
               PROVE  count > 0
    BY DEF NoUnderflow
  <2>1. /\ Cardinality(Positions(queue, Message)) \in Nat
        /\ Cardinality(Positions(drained, Message)) \in Nat
        /\ Cardinality(Holders(Message)) \in Nat
    BY CardinalitiesNat DEF IInv
  <2>2. CASE rpc = "release"
    <3>1. inHand \in Message
      BY <2>2 DEF IInv, HandInv, TypeOK
    <3>. QED
      BY <2>1, <3>1, SMT DEF IInv, CountBalanced, Outstanding
  <2>3. CASE \E s \in Senders : pc[s] = "refused"
    <3>1. Holders(Message) # {}
      BY <2>3 DEF Holders, IInv, CallInv
    <3>2. Cardinality(Holders(Message)) # 0
      BY <3>1, HoldersFinite, FS_EmptySet
    <3>. QED
      BY <2>1, <3>2, SMT DEF IInv, CountBalanced, Outstanding
  <2>. QED
    BY <2>2, <2>3
<1>. QED
  BY <1>1, MailboxInvariant, PTL

(* A call that began after the receiver was dropped finds it dropped until *)
(* it returns.                                                             *)
LateInv == \A s \in Senders : late[s] => ~connected

ReportInv == TypeOK /\ LateInv /\ TerminationReported

LEMMA ReportNext ==
    ASSUME ReportInv, TypeOK', [Next]_vars
    PROVE  LateInv' /\ TerminationReported'
<1> USE DEF ReportInv, LateInv, TerminationReported
<1>1. ASSUME NEW s \in Senders, Reserve(s) \/ ReserveFull(s) \/ ReserveForced(s)
      PROVE  LateInv' /\ TerminationReported'
  <2>1. PICK p \in {"reserved", "full"} :
          /\ late' = [late EXCEPT ![s] = ~connected] /\ pc' = [pc EXCEPT ![s] = p]
          /\ UNCHANGED <<connected, result>>
    BY <1>1 DEF Reserve, ReserveFull, ReserveForced, Call
  <2>2. /\ late'[s] = ~connected /\ pc'[s] # "idle"
        /\ \A t \in Senders \ {s} : late'[t] = late[t] /\ pc'[t] = pc[t]
    BY <2>1, SMT DEF TypeOK
  <2>. QED
    BY <2>1, <2>2
<1>2. ASSUME NEW s \in Senders, SendUncounted(s)
      PROVE  LateInv' /\ TerminationReported'
  <2>1. /\ late' = [late EXCEPT ![s] = ~connected] /\ connected' = connected
        /\ pc' = [pc EXCEPT ![s] = "idle"]
        /\ result' = [result EXCEPT ![s] = IF connected THEN "ok" ELSE "disconnected"]
    BY <1>2 DEF SendUncounted, Call, Return
  <2>2. /\ late'[s] = ~connected /\ result'[s] = IF connected THEN "ok" ELSE "disconnected"
        /\ \A t \in Senders \ {s} : late'[t] = late[t] /\ pc'[t] = pc[t] /\ result'[t] = result[t]
    BY <2>1, SMT DEF TypeOK
  <2>. QED
    BY <2>1, <2>2
<1>3. ASSUME NEW s \in Senders, FinishCall(s)
      PROVE  LateInv' /\ TerminationReported'
  <2>1. CASE SendRefused(s)
    BY <2>1 DEF SendRefused, TypeOK
  <2>2. CASE ~SendRefused(s)
    <3>1. PICK r : /\ Return(s, r) /\ UNCHANGED <<connected, late>>
                   /\ late[s] => r = "disconnected"
      BY <1>3, <2>2 DEF FinishCall, SendOk, DropReservation, ReportFull, FullError
    <3>2. /\ result'[s] = r
          /\ \A t \in Senders \ {s} : pc'[t] = pc[t] /\ result'[t] = result[t]
      BY <3>1, SMT DEF Return, TypeOK
    <3>. QED
      BY <3>1, <3>2
  <2>. QED
    BY <2>1, <2>2
<1>4. CASE Receiver
  BY <1>4 DEF Receiver, Recv, Unreserve, Drain, DropReceiver, senderVars, TypeOK
<1>5. CASE UNCHANGED vars
  BY <1>5 DEF vars, senderVars
<1>. QED
  BY <1>1, <1>2, <1>3, <1>4, <1>5 DEF Next, Sender

(* Whoever sends after the receiver was dropped is told that it is gone,   *)
(* whatever the quota of the drained mailbox says: try_send_counted probes *)
(* the channel before it reports a full mailbox.                           *)
THEOREM TerminationIsReported == Spec => []TerminationReported
<1>1. Init => LateInv /\ TerminationReported
  BY DEF Init, LateInv, TerminationReported
<1>2. TypeOK /\ TypeOK' /\ LateInv /\ TerminationReported /\ [Next]_vars
        => LateInv' /\ TerminationReported'
  BY ReportNext DEF ReportInv
<1>3. IInv => TypeOK
  BY DEF IInv
<1>. QED
  BY <1>1, <1>2, <1>3, MailboxInvariant, PTL DEF Spec
=============================================================================
