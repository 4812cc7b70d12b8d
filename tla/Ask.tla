--------------------------------- MODULE Ask ---------------------------------
(***************************************************************************)
(* ask: a request that carries a single-shot ReplyTo, and the wait for the *)
(* reply, bounded by a timeout.                                            *)
(*   src/tellus/src/actor_ref.rs, ask.rs                                   *)
(*                                                                         *)
(* Askers are tasks of their own, the responder is an actor; its user code *)
(* replies, drops a ReplyTo or hands it to another task.  tokio's timeout  *)
(* polls the reply first and the timer second, and replies arrive from     *)
(* other threads in between.                                               *)
(***************************************************************************)
EXTENDS Naturals, Sequences

CONSTANTS
    Asks,       \* asks of the responder, each made once
    Capacity    \* MailboxCapacity::Bounded of the responder

ASSUME CapacityAssumption == Capacity \in Nat \ {0}

VARIABLES
    asker,      \* asker[a]: where the future of ask a is
    outcome,    \* outcome[a]: what the asker got
    replyTo,    \* replyTo[a]: where the ReplyTo of a is, or what became of it
    reply,      \* reply[a]: the oneshot channel: empty, a reply in it, or no receiver
    elapsed,    \* the asks whose timer has fired
    deadLetters,\* the asks whose reply has been logged as a dead letter
    queue,      \* the responder's mailbox
    life        \* of the responder: running, drained (its receiver alive), terminated

vars == <<asker, outcome, replyTo, reply, elapsed, deadLetters, queue, life>>

Errors == {"MailboxFull", "ActorTerminated", "NoReply", "Timeout"}

(* A ReplyTo ends replied or dropped; in between it is in the mailbox, in  *)
(* the responder's hands or elsewhere.                                     *)
TypeOK ==
    /\ asker \in [Asks -> {"idle", "pollReply", "pollTimer", "done", "cancelled"}]
    /\ outcome \in [Asks -> {"none", "reply"} \cup Errors]
    /\ replyTo \in [Asks -> {"none", "mailbox", "held", "elsewhere", "replied", "dropped"}]
    /\ reply \in [Asks -> {"empty", "sent", "closed"}]
    /\ elapsed \subseteq Asks
    /\ deadLetters \subseteq Asks
    /\ queue \in Seq(Asks)
    /\ life \in {"running", "drained", "terminated"}

Init ==
    /\ asker = [a \in Asks |-> "idle"]
    /\ outcome = [a \in Asks |-> "none"]
    /\ replyTo = [a \in Asks |-> "none"]
    /\ reply = [a \in Asks |-> "empty"]
    /\ elapsed = {}
    /\ deadLetters = {}
    /\ queue = <<>>
    /\ life = "running"

----------------------------------------------------------------------------
(* The asker.                                                              *)

(* The future of a completes, or is dropped: the receiver is dropped.      *)
Resolve(a, pc, o) ==
    /\ asker' = [asker EXCEPT ![a] = pc]
    /\ outcome' = [outcome EXCEPT ![a] = o]
    /\ reply' = [reply EXCEPT ![a] = "closed"]

(* The quota of a drained mailbox may still be used up (see Mailbox).      *)
Full == Len(queue) >= Capacity \/ life = "drained"

AskRefused(a) ==
    /\ asker[a] = "idle"
    /\ \/ life = "terminated" /\ Resolve(a, "done", "ActorTerminated")
       \/ life # "terminated" /\ Full /\ Resolve(a, "done", "MailboxFull")
    /\ replyTo' = [replyTo EXCEPT ![a] = "dropped"]
    /\ UNCHANGED <<elapsed, deadLetters, queue, life>>

(* Also when the responder has drained its mailbox and not yet dropped its *)
(* receiver: then the request stays in the channel.                        *)
AskSent(a) ==
    /\ asker[a] = "idle"
    /\ life # "terminated"
    /\ Len(queue) < Capacity
    /\ queue' = Append(queue, a)
    /\ replyTo' = [replyTo EXCEPT ![a] = "mailbox"]
    /\ asker' = [asker EXCEPT ![a] = "pollReply"]
    /\ UNCHANGED <<outcome, reply, elapsed, deadLetters, life>>

(* A faulty variant of NoSender: an empty channel taken for a closed one.  *)
NoReplyYet(a) == reply[a] = "empty"

(* RecvError: the sender is gone and nothing was sent.                     *)
NoSender(a) == reply[a] = "empty" /\ replyTo[a] = "dropped"

PollReply(a) ==
    /\ asker[a] = "pollReply"
    /\ \/ reply[a] = "sent" /\ Resolve(a, "done", "reply")
       \/ NoSender(a) /\ Resolve(a, "done", "NoReply")
       \/ /\ reply[a] = "empty" /\ ~ NoSender(a)
          /\ asker' = [asker EXCEPT ![a] = "pollTimer"]
          /\ UNCHANGED <<outcome, reply>>
    /\ UNCHANGED <<replyTo, elapsed, deadLetters, queue, life>>

Elapse(a) ==
    /\ asker[a] \in {"pollReply", "pollTimer"}
    /\ a \notin elapsed
    /\ elapsed' = elapsed \cup {a}
    /\ UNCHANGED <<asker, outcome, replyTo, reply, deadLetters, queue, life>>

(* A faulty variant of Expired: an ask without a timeout.                  *)
NeverExpired(a) == FALSE

Expired(a) == a \in elapsed

PollTimer(a) ==
    /\ asker[a] = "pollTimer"
    /\ \/ Expired(a) /\ Resolve(a, "done", "Timeout")
       \/ /\ ~ Expired(a)
          /\ asker' = [asker EXCEPT ![a] = "pollReply"]
          /\ UNCHANGED <<outcome, reply>>
    /\ UNCHANGED <<replyTo, elapsed, deadLetters, queue, life>>

(* The asker drops the future.                                             *)
Cancel(a) ==
    /\ asker[a] \in {"pollReply", "pollTimer"}
    /\ Resolve(a, "cancelled", "none")
    /\ UNCHANGED <<replyTo, elapsed, deadLetters, queue, life>>

----------------------------------------------------------------------------
(* The responder.                                                          *)

Recv ==
    /\ life = "running"
    /\ queue # <<>>
    /\ replyTo' = [replyTo EXCEPT ![Head(queue)] = "held"]
    /\ queue' = Tail(queue)
    /\ UNCHANGED <<asker, outcome, reply, elapsed, deadLetters, life>>

(* The ReplyTo is moved to another actor or task.                          *)
HandOver(a) ==
    /\ replyTo[a] = "held"
    /\ replyTo' = [replyTo EXCEPT ![a] = "elsewhere"]
    /\ UNCHANGED <<asker, outcome, reply, elapsed, deadLetters, queue, life>>

(* A faulty variant of LogUndelivered: every reply is logged.              *)
LogAlways(a) == deadLetters' = deadLetters \cup {a}

LogUndelivered(a) ==
    deadLetters' = IF reply[a] = "closed" THEN deadLetters \cup {a} ELSE deadLetters

Reply(a) ==
    /\ replyTo[a] \in {"held", "elsewhere"}
    /\ replyTo' = [replyTo EXCEPT ![a] = "replied"]
    /\ reply' = [reply EXCEPT ![a] = IF @ = "closed" THEN @ ELSE "sent"]
    /\ LogUndelivered(a)
    /\ UNCHANGED <<asker, outcome, elapsed, queue, life>>

DropReplyTo(a) ==
    /\ replyTo[a] \in {"held", "elsewhere"}
    /\ replyTo' = [replyTo EXCEPT ![a] = "dropped"]
    /\ UNCHANGED <<asker, outcome, reply, elapsed, deadLetters, queue, life>>

(* Termination drops what is queued ...                                    *)
Drain ==
    /\ life = "running"
    /\ life' = "drained"
    /\ replyTo' = [a \in Asks |-> IF replyTo[a] = "mailbox" THEN "dropped" ELSE replyTo[a]]
    /\ queue' = <<>>
    /\ UNCHANGED <<asker, outcome, reply, elapsed, deadLetters>>

(* ... and then the receiver, but not what was sent in between.            *)
DropReceiver ==
    /\ life = "drained"
    /\ life' = "terminated"
    /\ UNCHANGED <<asker, outcome, replyTo, reply, elapsed, deadLetters, queue>>

----------------------------------------------------------------------------
Poll(a) == PollReply(a) \/ PollTimer(a)

Next ==
    \/ \E a \in Asks :
         \/ AskRefused(a) \/ AskSent(a) \/ Poll(a) \/ Elapse(a) \/ Cancel(a)
         \/ HandOver(a) \/ Reply(a) \/ DropReplyTo(a)
    \/ Recv \/ Drain \/ DropReceiver

(* The runtime fires timers and polls a task that one of them wakes; what  *)
(* the responder does is up to its user code.                              *)
Fairness == \A a \in Asks : WF_vars(Elapse(a)) /\ WF_vars(Poll(a))

Spec == Init /\ [][Next]_vars
FairSpec == Spec /\ Fairness

----------------------------------------------------------------------------
(* An outcome tells what became of the request, whatever the race of the   *)
(* reply, the drop of the ReplyTo, the timeout and the termination of the  *)
(* responder: MailboxFull and ActorTerminated of a request that was never  *)
(* queued, NoReply of one that nobody can reply to anymore.                *)
OutcomeIsTrue ==
    \A a \in Asks :
      /\ outcome[a] = "reply" => replyTo[a] = "replied"
      /\ outcome[a] \in {"MailboxFull", "ActorTerminated", "NoReply"} => replyTo[a] = "dropped"
      /\ outcome[a] = "Timeout" => a \in elapsed

(* A reply logged as a dead letter is one the asker never gets.            *)
LoggedIsLost ==
    \A a \in deadLetters : replyTo[a] = "replied" /\ outcome[a] # "reply" /\ reply[a] = "closed"

(* An ask resolves although the responder may keep the ReplyTo for good,   *)
(* or terminate with the request left in the channel behind the drain.     *)
AskResolves ==
    \A a \in Asks : asker[a] = "pollReply" ~> asker[a] \in {"done", "cancelled"}

(* ask.rs: of a Timeout, "a late reply is dropped and logged as a dead     *)
(* letter".                                                                *)
LateReplyLogged ==
    \A a \in Asks : outcome[a] = "Timeout" /\ replyTo[a] = "replied" => a \in deadLetters
=============================================================================
