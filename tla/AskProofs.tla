----------------------------- MODULE AskProofs -----------------------------
(***************************************************************************)
(* The outcome of an ask is true and a logged reply is lost, for any       *)
(* number of asks and any capacity of the responder's mailbox.             *)
(***************************************************************************)
EXTENDS Ask, TLAPS

USE Zenon

(* How far an ask, its ReplyTo and its channel can be apart.               *)
AskInv(a) ==
    /\ asker[a] = "idle" => replyTo[a] = "none" /\ outcome[a] = "none" /\ reply[a] = "empty"
    /\ asker[a] # "idle" => replyTo[a] # "none"
    /\ asker[a] \in {"pollReply", "pollTimer"} => outcome[a] = "none" /\ reply[a] # "closed"
    /\ asker[a] \in {"done", "cancelled"} => reply[a] = "closed"
    /\ reply[a] = "sent" => replyTo[a] = "replied"
    /\ replyTo[a] = "replied" => reply[a] # "empty"
    /\ outcome[a] = "reply" => replyTo[a] = "replied"
    /\ outcome[a] \in {"MailboxFull", "ActorTerminated", "NoReply"} => replyTo[a] = "dropped"
    /\ outcome[a] = "Timeout" => a \in elapsed
    /\ a \in deadLetters => replyTo[a] = "replied" /\ outcome[a] # "reply" /\ reply[a] = "closed"

(* What is queued is queued once.                                          *)
QueueInv ==
    /\ \A i \in DOMAIN queue : replyTo[queue[i]] = "mailbox"
    /\ \A i, j \in DOMAIN queue : queue[i] = queue[j] => i = j

Inv == TypeOK /\ QueueInv /\ \A a \in Asks : AskInv(a)

----------------------------------------------------------------------------
LEMMA InitInv == Init => Inv
BY CapacityAssumption, SMT DEF Init, Inv, TypeOK, QueueInv, AskInv, Errors

LEMMA NextInv == Inv /\ [Next]_vars => Inv'
<1> SUFFICES ASSUME Inv, [Next]_vars PROVE Inv'
  OBVIOUS
<1> USE DEF Errors
<1>1. CASE UNCHANGED vars
  BY <1>1, SMT DEF vars, Inv, TypeOK, QueueInv, AskInv
<1>2. ASSUME NEW a \in Asks, AskRefused(a) PROVE Inv'
  <2>1. a \notin {queue[i] : i \in DOMAIN queue}
    BY <1>2 DEF AskRefused, Inv, QueueInv, AskInv
  <2>2. TypeOK'
    BY <1>2 DEF AskRefused, Resolve, Inv, TypeOK
  <2>3. \A b \in Asks : AskInv(b)'
    BY <1>2, SMT DEF AskRefused, Resolve, Inv, TypeOK, AskInv
  <2>4. QueueInv'
    BY <1>2, <2>1, SMT DEF AskRefused, Inv, TypeOK, QueueInv
  <2>5. QED
    BY <2>2, <2>3, <2>4 DEF Inv
<1>3. ASSUME NEW a \in Asks, AskSent(a) PROVE Inv'
  <2>1. \A i \in DOMAIN queue : queue[i] # a
    BY <1>3 DEF AskSent, Inv, QueueInv, AskInv
  <2>2. TypeOK'
    BY <1>3, SMT DEF AskSent, Inv, TypeOK
  <2>3. \A b \in Asks : AskInv(b)'
    BY <1>3, SMT DEF AskSent, Inv, TypeOK, AskInv
  <2>4. QueueInv'
    <3>1. /\ DOMAIN queue' = 1 .. Len(queue) + 1 /\ DOMAIN queue = 1 .. Len(queue) /\ Len(queue) \in Nat
          /\ queue'[Len(queue) + 1] = a
          /\ \A i \in 1 .. Len(queue) : queue'[i] = queue[i]
      BY <1>3, SMT DEF AskSent, Inv, TypeOK
    <3>2. replyTo' = [replyTo EXCEPT ![a] = "mailbox"]
      BY <1>3 DEF AskSent
    <3>3. \A i \in DOMAIN queue' : replyTo'[queue'[i]] = "mailbox"
      BY <3>1, <3>2, <2>1, SMT DEF Inv, TypeOK, QueueInv
    <3>4. \A i, j \in DOMAIN queue' : queue'[i] = queue'[j] => i = j
      BY <3>1, <2>1, SMT DEF Inv, QueueInv
    <3>5. QED
      BY <3>3, <3>4 DEF QueueInv
  <2>5. QED
    BY <2>2, <2>3, <2>4 DEF Inv
<1>4. ASSUME NEW a \in Asks, PollReply(a) \/ PollTimer(a) \/ Elapse(a) \/ Cancel(a) PROVE Inv'
  <2>1. UNCHANGED <<replyTo, deadLetters, queue, life>>
    BY <1>4 DEF PollReply, PollTimer, Elapse, Cancel
  <2>2. QueueInv'
    BY <2>1 DEF Inv, QueueInv
  <2>3. TypeOK'
    BY <1>4, SMT DEF PollReply, PollTimer, Elapse, Cancel, Resolve, Inv, TypeOK
  <2>4. ASSUME NEW b \in Asks PROVE AskInv(b)'
    <3>1. CASE PollReply(a)
      BY <3>1, SMT DEF PollReply, NoSender, Resolve, Inv, TypeOK, AskInv
    <3>2. CASE PollTimer(a)
      BY <3>2, SMT DEF PollTimer, Expired, Resolve, Inv, TypeOK, AskInv
    <3>3. CASE Elapse(a) \/ Cancel(a)
      BY <3>3, SMT DEF Elapse, Cancel, Resolve, Inv, TypeOK, AskInv
    <3>4. QED
      BY <1>4, <3>1, <3>2, <3>3
  <2>5. QED
    BY <2>2, <2>3, <2>4 DEF Inv
<1>5. ASSUME NEW a \in Asks, HandOver(a) \/ Reply(a) \/ DropReplyTo(a) PROVE Inv'
  <2>1. /\ queue' = queue /\ replyTo[a] \in {"held", "elsewhere"}
        /\ \A b \in Asks : b # a => replyTo'[b] = replyTo[b]
    BY <1>5 DEF HandOver, Reply, DropReplyTo, Inv, TypeOK
  <2>2. QueueInv'
    BY <2>1, SMT DEF Inv, TypeOK, QueueInv
  <2>3. TypeOK'
    BY <1>5 DEF HandOver, Reply, LogUndelivered, DropReplyTo, Inv, TypeOK
  <2>4. ASSUME NEW b \in Asks PROVE AskInv(b)'
    BY <1>5, SMT DEF HandOver, Reply, LogUndelivered, DropReplyTo, Inv, TypeOK, AskInv
  <2>5. QED
    BY <2>2, <2>3, <2>4 DEF Inv
<1>6. CASE Recv
  <2>0. PICK h : h = Head(queue)
    OBVIOUS
  <2>1. /\ Len(queue) \in Nat \ {0} /\ h = queue[1] /\ h \in Asks
        /\ replyTo' = [replyTo EXCEPT ![h] = "held"]
        /\ DOMAIN queue = 1 .. Len(queue) /\ DOMAIN queue' = 1 .. Len(queue) - 1
        /\ \A i \in DOMAIN queue' : i + 1 \in DOMAIN queue /\ queue'[i] = queue[i + 1] /\ i + 1 # 1
        /\ UNCHANGED <<asker, outcome, reply, elapsed, deadLetters, life>>
    BY <1>6, <2>0, SMT DEF Recv, Inv, TypeOK
  <2>2. replyTo[h] = "mailbox"
    BY <2>1, SMT DEF Inv, QueueInv
  <2>3. \A i \in DOMAIN queue' : queue'[i] # h
    BY <2>1, SMT DEF Inv, QueueInv
  <2>4. QueueInv'
    <3>1. \A i \in DOMAIN queue' : replyTo'[queue'[i]] = "mailbox"
      BY <2>1, <2>3, SMT DEF Inv, TypeOK, QueueInv
    <3>2. \A i, j \in DOMAIN queue' : queue'[i] = queue'[j] => i = j
      BY <2>1, SMT DEF Inv, QueueInv
    <3>3. QED
      BY <3>1, <3>2 DEF QueueInv
  <2>5. TypeOK'
    BY <1>6, <2>0, <2>1, SMT DEF Recv, Inv, TypeOK
  <2>6. ASSUME NEW b \in Asks PROVE AskInv(b)'
    BY <2>1, <2>2, SMT DEF Inv, TypeOK, AskInv
  <2>7. QED
    BY <2>4, <2>5, <2>6 DEF Inv
<1>7. CASE Drain
  BY <1>7, SMT DEF Drain, Inv, TypeOK, QueueInv, AskInv
<1>8. CASE DropReceiver
  BY <1>8, SMT DEF DropReceiver, Inv, TypeOK, QueueInv, AskInv
<1>9. QED
  BY <1>1, <1>2, <1>3, <1>4, <1>5, <1>6, <1>7, <1>8 DEF Next, Poll

(* The inductive invariant: where the request, its reply and the oneshot   *)
(* of ask can be, through refusals, drains, replies and the timeout.       *)
THEOREM AskInvariant == Spec => []Inv
BY InitInv, NextInv, PTL DEF Spec

(* What an ask returns tells what became of the request.                   *)
THEOREM OutcomesAreTrue == Spec => []OutcomeIsTrue
<1>1. Inv => OutcomeIsTrue
  BY DEF Inv, AskInv, OutcomeIsTrue
<1>2. QED
  BY <1>1, AskInvariant, PTL

(* A reply reported as a dead letter has not been, and will not be, given  *)
(* to the asker.                                                           *)
THEOREM LoggedRepliesAreLost == Spec => []LoggedIsLost
<1>1. Inv => LoggedIsLost
  BY DEF Inv, TypeOK, AskInv, LoggedIsLost
<1>2. QED
  BY <1>1, AskInvariant, PTL
=============================================================================
