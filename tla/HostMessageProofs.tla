------------------------- MODULE HostMessageProofs -------------------------
(***************************************************************************)
(* Every message sent to a host is in exactly one place, the messages of a *)
(* key pass through the places in the order in which they were sent, and a *)
(* buffered message is never refused by an entity that is there.           *)
(***************************************************************************)
EXTENDS HostProofs

USE Zenon

(* The places of a message for k: taken by an entity, in the mailbox of    *)
(* one, held by the host for the next one, in the mailbox of the host; a   *)
(* dead letter; dropped.                                                   *)
Taken(k) == Range(handled[k])
Mail(k) == {n \in Message : \E a \in Actors : owner[a] = k /\ n \in Range(mailbox[a])}
Rest(k) == {n \in Message : fresh.key = k /\ n \in Range(fresh.rest)}
Held(k) == Range(entries[k].buffered) \cup Rest(k)
Queue(k) == {n \in Message : Envelope(k, n) \in Range(incoming)}
OnLog(log, k) == {n \in Message : \E r \in log : r.key = k /\ r.message = n}

At(p, k, n) ==
    \/ p = 1 /\ n \in Taken(k)
    \/ p = 2 /\ n \in Mail(k)
    \/ p = 3 /\ n \in Held(k)
    \/ p = 4 /\ n \in Queue(k)
    \/ p = 5 /\ n \in OnLog(dead, k)
    \/ p = 6 /\ n \in OnLog(dropped, k)

(* A message further on was sent earlier; the messages sent are those that *)
(* are somewhere, and in one place.                                        *)
KeyInv(k) ==
    /\ \A p, q \in 1 .. 4 : \A m, n \in Message : p < q /\ At(p, k, m) /\ At(q, k, n) => m < n
    /\ \A n \in Message : n <= sent[k] <=> \E p \in 1 .. 6 : At(p, k, n)
    /\ \A p, q \in 1 .. 6 : \A n \in Message : At(p, k, n) /\ At(q, k, n) => p = q

Increasing(s) == \A i, j \in DOMAIN s : i < j => s[i] < s[j] \/ s[j] = Passivate

InOrder(s) ==
    \A i, j \in DOMAIN s : i < j /\ s[i].key = s[j].key /\ s[i].key # None =>
      s[i].message < s[j].message

FifoInv ==
    /\ \A k \in Keys : handled[k] \in Seq(Message) /\ Increasing(handled[k])
    /\ \A k \in Keys : Increasing(entries[k].buffered)
    /\ \A a \in Actors : Increasing(mailbox[a])
    /\ Increasing(fresh.rest)
    /\ InOrder(incoming)

(* Only the entry of a stopping entity has a buffer, and there is an       *)
(* entity to be told something while the host delivers.                    *)
HeldInv ==
    /\ \A k \in Keys : entries[k].buffered # <<>> => entries[k].kind = "stopping"
    /\ pc # "delivering" => fresh = NoEntity

Unique(log) == \A r, s \in log : r.key = s.key /\ r.message = s.message => r = s

MessageInv ==
    /\ handled = [k \in Keys |-> handled[k]]
    /\ FifoInv /\ HeldInv /\ Unique(dead) /\ Unique(dropped)
    /\ \A k \in Keys : KeyInv(k)

----------------------------------------------------------------------------
(* Sequences of messages.                                                  *)

LEMMA RangeOf == \A s : \A x : x \in Range(s) <=> \E i \in DOMAIN s : s[i] = x
BY DEF Range

LEMMA MessageIsNat == \A n \in Item : n \in Nat /\ (n # Passivate => n \in Message)
BY SMT DEF Item, Message, Passivate

LEMMA TailParts ==
    ASSUME NEW S, NEW s \in Seq(S), s # <<>>
    PROVE  /\ Len(s) \in Nat \ {0} /\ DOMAIN s = 1 .. Len(s) /\ Head(s) = s[1] /\ Head(s) \in S
           /\ Tail(s) \in Seq(S) /\ Len(Tail(s)) = Len(s) - 1 /\ DOMAIN Tail(s) = 1 .. Len(s) - 1
           /\ \A i \in 1 .. Len(s) - 1 : Tail(s)[i] = s[i + 1]
BY SMT

LEMMA RangeAppend ==
    ASSUME NEW S, NEW s \in Seq(S), NEW x
    PROVE  Range(Append(s, x)) = Range(s) \cup {x}
<1>1. PICK t, n : t = Append(s, x) /\ n = Len(s)
  OBVIOUS
<1>2. /\ n \in Nat /\ DOMAIN s = 1 .. n /\ DOMAIN t = 1 .. n + 1 /\ t[n + 1] = x
      /\ \A i \in 1 .. n : t[i] = s[i]
  BY <1>1, AppendParts, SMT
<1>3. \A y : y \in Range(t) <=> y \in Range(s) \/ y = x
  <2>1. ASSUME NEW y \in Range(t) PROVE y \in Range(s) \/ y = x
    <3>1. PICK i \in 1 .. n + 1 : t[i] = y
      BY <1>2, <2>1, RangeOf, SMT
    <3>2. i \in 1 .. n \/ i = n + 1
      BY <1>2, SMT
    <3>3. QED
      BY <1>2, <3>1, <3>2, RangeOf
  <2>2. ASSUME NEW y \in Range(s) PROVE y \in Range(t)
    <3>1. PICK i \in 1 .. n : s[i] = y
      BY <1>2, <2>2, RangeOf, SMT
    <3>2. i \in 1 .. n + 1
      BY <1>2, SMT
    <3>3. QED
      BY <1>2, <3>1, <3>2, RangeOf
  <2>3. x \in Range(t)
    <3>1. n + 1 \in 1 .. n + 1
      BY <1>2, SMT
    <3>2. QED
      BY <1>2, <3>1, RangeOf
  <2>4. QED
    BY <2>1, <2>2, <2>3
<1>4. QED
  BY <1>1, <1>3

LEMMA RangeTail ==
    ASSUME NEW S, NEW s \in Seq(S), s # <<>>
    PROVE  /\ Head(s) \in Range(s)
           /\ \A x : x \in Range(s) <=> x = Head(s) \/ x \in Range(Tail(s))
<1>1. PICK t, n : t = Tail(s) /\ n = Len(s)
  OBVIOUS
<1>2. /\ n \in Nat \ {0} /\ DOMAIN s = 1 .. n /\ Head(s) = s[1] /\ DOMAIN t = 1 .. n - 1
      /\ \A i \in 1 .. n - 1 : t[i] = s[i + 1]
  BY <1>1, TailParts
<1>3. Head(s) \in Range(s)
  <2>1. 1 \in 1 .. n
    BY <1>2, SMT
  <2>2. QED
    BY <1>2, <2>1, RangeOf
<1>4. ASSUME NEW x \in Range(s) PROVE x = Head(s) \/ x \in Range(t)
  <2>1. PICK i \in 1 .. n : s[i] = x
    BY <1>2, <1>4, RangeOf, SMT
  <2>2. i = 1 \/ (i - 1 \in 1 .. n - 1 /\ t[i - 1] = s[i])
    BY <1>2, SMT
  <2>3. QED
    BY <1>2, <2>1, <2>2, RangeOf
<1>5. ASSUME NEW x \in Range(t) PROVE x \in Range(s)
  <2>1. PICK i \in 1 .. n - 1 : t[i] = x
    BY <1>2, <1>5, RangeOf, SMT
  <2>2. i + 1 \in 1 .. n /\ t[i] = s[i + 1]
    BY <1>2, SMT
  <2>3. QED
    BY <1>2, <2>1, <2>2, RangeOf
<1>6. QED
  BY <1>1, <1>3, <1>4, <1>5

LEMMA IncreasingAppend ==
    ASSUME NEW s \in Seq(Item), NEW x \in Item, Increasing(s),
           x = Passivate \/ \A y \in Range(s) : y < x
    PROVE  Increasing(Append(s, x))
<1>1. PICK t, n : t = Append(s, x) /\ n = Len(s)
  OBVIOUS
<1>2. /\ n \in Nat /\ DOMAIN s = 1 .. n /\ DOMAIN t = 1 .. n + 1 /\ t[n + 1] = x
      /\ \A i \in 1 .. n : t[i] = s[i]
  BY <1>1, AppendParts, SMT
<1>3. ASSUME NEW i \in 1 .. n + 1, NEW j \in 1 .. n + 1, i < j
      PROVE  t[i] < t[j] \/ t[j] = Passivate
  <2>1. CASE j = n + 1
    <3>1. i \in 1 .. n
      BY <1>2, <1>3, <2>1, SMT
    <3>2. s[i] \in Range(s)
      BY <1>2, <3>1, RangeOf
    <3>3. QED
      BY <1>2, <2>1, <3>1, <3>2
  <2>2. CASE j # n + 1
    <3>1. i \in 1 .. n /\ j \in 1 .. n
      BY <1>2, <1>3, <2>2, SMT
    <3>2. s[i] < s[j] \/ s[j] = Passivate
      BY <1>2, <1>3, <3>1 DEF Increasing
    <3>3. QED
      BY <1>2, <3>1, <3>2
  <2>3. QED
    BY <2>1, <2>2
<1>4. Increasing(t)
  BY <1>2, <1>3 DEF Increasing
<1>5. QED
  BY <1>1, <1>4

(* The head is the least.                                                  *)
LEMMA IncreasingTail ==
    ASSUME NEW s \in Seq(Item), s # <<>>, Increasing(s)
    PROVE  /\ Increasing(Tail(s))
           /\ \A y \in Range(Tail(s)) : Head(s) < y \/ y = Passivate
<1>1. PICK t, n : t = Tail(s) /\ n = Len(s)
  OBVIOUS
<1>2. /\ n \in Nat \ {0} /\ DOMAIN s = 1 .. n /\ Head(s) = s[1] /\ DOMAIN t = 1 .. n - 1
      /\ \A i \in 1 .. n - 1 : t[i] = s[i + 1]
  BY <1>1, TailParts
<1>3. ASSUME NEW i \in 1 .. n - 1, NEW j \in 1 .. n - 1, i < j
      PROVE  t[i] < t[j] \/ t[j] = Passivate
  <2>1. i + 1 \in 1 .. n /\ j + 1 \in 1 .. n /\ i + 1 < j + 1
    BY <1>2, <1>3, SMT
  <2>2. s[i + 1] < s[j + 1] \/ s[j + 1] = Passivate
    BY <1>2, <2>1 DEF Increasing
  <2>3. QED
    BY <1>2, <2>2
<1>4. Increasing(t)
  BY <1>2, <1>3 DEF Increasing
<1>5. ASSUME NEW y \in Range(t) PROVE Head(s) < y \/ y = Passivate
  <2>1. PICK i \in 1 .. n - 1 : t[i] = y
    BY <1>2, <1>5, RangeOf, SMT
  <2>2. 1 \in 1 .. n /\ i + 1 \in 1 .. n /\ 1 < i + 1
    BY <1>2, SMT
  <2>3. s[1] < s[i + 1] \/ s[i + 1] = Passivate
    BY <1>2, <2>2 DEF Increasing
  <2>4. QED
    BY <1>2, <2>1, <2>3
<1>6. QED
  BY <1>1, <1>4, <1>5

LEMMA EmptySequence == <<>> \in Seq(Item) /\ Increasing(<<>>) /\ InOrder(<<>>) /\ Range(<<>>) = {}
BY SMT DEF Increasing, InOrder, Range

LEMMA OneMessage ==
    ASSUME NEW n
    PROVE  Increasing(<<n>>) /\ Range(<<n>>) = {n}
<1>1. Increasing(<<n>>)
  BY SMT DEF Increasing
<1>2. QED
  BY <1>1, SMT DEF Range

----------------------------------------------------------------------------
(* How messages of one key move.                                           *)

(* Nothing moves.                                                          *)
LEMMA Stayed ==
    ASSUME NEW k, KeyInv(k), sent'[k] = sent[k],
           \A p \in 1 .. 6 : \A n \in Message : At(p, k, n)' <=> At(p, k, n)
    PROVE  KeyInv(k)'
BY SMT DEF KeyInv

(* x moves on to place q, past places where there is nothing, and is the   *)
(* first to leave place p.                                                 *)
LEMMA Advanced ==
    ASSUME NEW k, KeyInv(k), sent'[k] = sent[k], NEW x \in Message,
           NEW p \in 1 .. 4, NEW q \in 1 .. 4, q < p, At(p, k, x),
           \A r \in q + 1 .. p - 1 : \A n \in Message : ~At(r, k, n),
           \A n \in Message \ {x} : At(p, k, n) => x < n,
           \A r \in 1 .. 6 : \A n \in Message :
             At(r, k, n)' <=> IF n = x THEN r = q ELSE At(r, k, n)
    PROVE  KeyInv(k)'
<1>1. ASSUME NEW r \in 1 .. 4, NEW s \in 1 .. 4, NEW m \in Message, NEW n \in Message,
             r < s, At(r, k, m)', At(s, k, n)'
      PROVE  m < n
  <2>1. CASE m # x /\ n # x
    BY <1>1, <2>1, SMT DEF KeyInv
  <2>2. CASE m = x /\ n # x
    <3>1. r = q /\ At(s, k, n)
      BY <1>1, <2>2, SMT
    <3>2. s = p \/ p < s
      BY <1>1, <3>1, SMT
    <3>3. QED
      BY <2>2, <3>1, <3>2, SMT DEF KeyInv
  <2>3. CASE m # x /\ n = x
    <3>1. s = q /\ At(r, k, m) /\ r < p
      BY <1>1, <2>3, SMT
    <3>2. QED
      BY <2>3, <3>1 DEF KeyInv
  <2>4. CASE m = x /\ n = x
    BY <1>1, <2>4, SMT
  <2>5. QED
    BY <2>1, <2>2, <2>3, <2>4
<1>2. ASSUME NEW n \in Message PROVE n <= sent'[k] <=> \E r \in 1 .. 6 : At(r, k, n)'
  <2>1. n <= sent[k] <=> \E r \in 1 .. 6 : At(r, k, n)
    BY DEF KeyInv
  <2>2. CASE n = x
    BY <2>1, <2>2, SMT
  <2>3. CASE n # x
    BY <2>1, <2>3
  <2>4. QED
    BY <2>2, <2>3
<1>3. ASSUME NEW r \in 1 .. 6, NEW s \in 1 .. 6, NEW n \in Message, At(r, k, n)', At(s, k, n)'
      PROVE  r = s
  BY <1>3 DEF KeyInv
<1>4. QED
  BY <1>1, <1>2, <1>3 DEF KeyInv

(* The messages of S, wherever they were, are recorded as dead letters or  *)
(* as dropped.                                                             *)
LEMMA Recorded ==
    ASSUME NEW k, KeyInv(k), sent'[k] = sent[k], NEW S, NEW q \in {5, 6},
           \A n \in S \cap Message : \E p \in 1 .. 4 : At(p, k, n),
           \A r \in 1 .. 6 : \A n \in Message :
             At(r, k, n)' <=> IF n \in S THEN r = q ELSE At(r, k, n)
    PROVE  KeyInv(k)'
<1>1. ASSUME NEW r \in 1 .. 4, NEW s \in 1 .. 4, NEW m \in Message, NEW n \in Message,
             r < s, At(r, k, m)', At(s, k, n)'
      PROVE  m < n
  <2>1. At(r, k, m) /\ At(s, k, n)
    BY <1>1, SMT
  <2>2. QED
    BY <1>1, <2>1 DEF KeyInv
<1>2. ASSUME NEW n \in Message PROVE n <= sent'[k] <=> \E r \in 1 .. 6 : At(r, k, n)'
  <2>1. n <= sent[k] <=> \E r \in 1 .. 6 : At(r, k, n)
    BY DEF KeyInv
  <2>2. CASE n \in S
    <3>1. \E r \in 1 .. 6 : At(r, k, n)
      BY <2>2, SMT
    <3>2. At(q, k, n)' /\ q \in 1 .. 6
      BY <2>2, SMT
    <3>3. QED
      BY <2>1, <3>1, <3>2
  <2>3. CASE n \notin S
    BY <2>1, <2>3
  <2>4. QED
    BY <2>2, <2>3
<1>3. ASSUME NEW r \in 1 .. 6, NEW s \in 1 .. 6, NEW n \in Message, At(r, k, n)', At(s, k, n)'
      PROVE  r = s
  BY <1>3 DEF KeyInv
<1>4. QED
  BY <1>1, <1>2, <1>3 DEF KeyInv

(* A message is sent.                                                      *)
LEMMA Entered ==
    ASSUME NEW k, KeyInv(k), sent[k] \in Nat, sent[k] + 1 \in Message, sent'[k] = sent[k] + 1,
           \A r \in 1 .. 6 : \A n \in Message :
             At(r, k, n)' <=> At(r, k, n) \/ (r = 4 /\ n = sent[k] + 1)
    PROVE  KeyInv(k)'
<1>0. PICK x : x = sent[k] + 1
  OBVIOUS
<1>1. /\ x \in Message /\ \A n \in Message : n \in Nat
      /\ \A r \in 1 .. 6 : \A n \in Message : At(r, k, n) => n < x
  BY <1>0, SMT DEF KeyInv, Message
<1>2. \A r \in 1 .. 6 : \A n \in Message : At(r, k, n)' <=> At(r, k, n) \/ (r = 4 /\ n = x)
  BY <1>0
<1>3. ASSUME NEW r \in 1 .. 4, NEW s \in 1 .. 4, NEW m \in Message, NEW n \in Message,
             r < s, At(r, k, m)', At(s, k, n)'
      PROVE  m < n
  <2>1. At(r, k, m) /\ (At(s, k, n) \/ n = x)
    BY <1>2, <1>3, SMT
  <2>2. QED
    BY <1>1, <1>3, <2>1, SMT DEF KeyInv
<1>4. ASSUME NEW n \in Message PROVE n <= sent'[k] <=> \E r \in 1 .. 6 : At(r, k, n)'
  <2>1. n <= sent[k] <=> \E r \in 1 .. 6 : At(r, k, n)
    BY DEF KeyInv
  <2>2. n <= sent'[k] <=> n <= sent[k] \/ n = x
    BY <1>0, <1>1, SMT
  <2>3. QED
    BY <1>2, <2>1, <2>2, SMT
<1>5. ASSUME NEW r \in 1 .. 6, NEW s \in 1 .. 6, NEW n \in Message, At(r, k, n)', At(s, k, n)'
      PROVE  r = s
  <2>1. ~(n < n)
    BY <1>1, SMT
  <2>2. QED
    BY <1>1, <1>2, <1>5, <2>1, SMT DEF KeyInv
<1>6. QED
  BY <1>3, <1>4, <1>5 DEF KeyInv

(* A step that leaves the places of k alone.                               *)
LEMMA PlacesSame ==
    ASSUME NEW k, KeyInv(k), sent'[k] = sent[k], Taken(k)' = Taken(k), Mail(k)' = Mail(k),
           Held(k)' = Held(k), Queue(k)' = Queue(k),
           OnLog(dead, k)' = OnLog(dead, k), OnLog(dropped, k)' = OnLog(dropped, k)
    PROVE  KeyInv(k)'
<1>1. \A p \in 1 .. 6 : \A n \in Message : At(p, k, n)' <=> At(p, k, n)
  BY SMT DEF At
<1>2. QED
  BY <1>1, Stayed

----------------------------------------------------------------------------
(* The mailbox of the host.                                                *)

LEMMA ItemsDiffer ==
    /\ \A j, m : Envelope(j, m).key = j /\ Envelope(j, m).message = m /\ Envelope(j, m).actor = None
    /\ \A a : Terminated(a).key = None
    /\ \A j, k, m, n : Envelope(j, m) = Envelope(k, n) => j = k /\ m = n
    /\ \A j \in Keys : \A m, a : Envelope(j, m) # Terminated(a)
<1>1. /\ \A j, m : Envelope(j, m).key = j /\ Envelope(j, m).message = m /\ Envelope(j, m).actor = None
      /\ \A a : Terminated(a).key = None
  BY DEF Envelope, Terminated
<1>2. QED
  BY <1>1, Constants, SMT

LEMMA QueueOf ==
    \A k : \A n : n \in Queue(k) <=> n \in Message /\ \E i \in DOMAIN incoming : incoming[i] = Envelope(k, n)
BY RangeOf DEF Queue

(* An item is taken: the other ones stay, in order.                        *)
LEMMA ReceiveOrder ==
    ASSUME Inv, MessageInv, NEW item, Receive(item)
    PROVE  InOrder(incoming')
<1>1. PICK s, n : s = incoming /\ n = Len(s) /\ s \in Seq(Incoming) /\ s # <<>> /\ incoming' = Tail(s)
  BY DEF Inv, TableType, Receive
<1>2. PICK t : t = Tail(s)
  OBVIOUS
<1>3. /\ n \in Nat \ {0} /\ DOMAIN s = 1 .. n /\ DOMAIN t = 1 .. n - 1
      /\ \A i \in 1 .. n - 1 : t[i] = s[i + 1]
  BY <1>1, <1>2, TailParts
<1>4. InOrder(s)
  BY <1>1 DEF MessageInv, FifoInv
<1>5. ASSUME NEW i \in 1 .. n - 1, NEW j \in 1 .. n - 1, i < j, t[i].key = t[j].key, t[i].key # None
      PROVE  t[i].message < t[j].message
  <2>1. i + 1 \in 1 .. n /\ j + 1 \in 1 .. n /\ i + 1 < j + 1
    BY <1>3, <1>5, SMT
  <2>2. t[i] = s[i + 1] /\ t[j] = s[j + 1]
    BY <1>3
  <2>3. QED
    BY <1>3, <1>4, <1>5, <2>1, <2>2 DEF InOrder
<1>6. InOrder(t)
  BY <1>3, <1>5 DEF InOrder
<1>7. QED
  BY <1>1, <1>2, <1>6

LEMMA ReceiveRange ==
    ASSUME Inv, NEW item, Receive(item)
    PROVE  /\ item \in Range(incoming)
           /\ \A x : x \in Range(incoming) <=> x = item \/ x \in Range(incoming')
<1>1. incoming \in Seq(Incoming) /\ incoming # <<>> /\ incoming' = Tail(incoming) /\ item = Head(incoming)
  BY DEF Inv, TableType, Receive
<1>2. QED
  BY <1>1, RangeTail

LEMMA SignalReceived ==
    ASSUME Inv, MessageInv, NEW a, Receive(Terminated(a))
    PROVE  InOrder(incoming') /\ \A k \in Keys : Queue(k)' = Queue(k)
<1>1. ASSUME NEW k \in Keys PROVE Queue(k)' = Queue(k)
  <2>1. \A n : Envelope(k, n) \in Range(incoming') <=> Envelope(k, n) \in Range(incoming)
    BY ReceiveRange, ItemsDiffer, SMT
  <2>2. QED
    BY <2>1 DEF Queue, Envelope
<1>2. QED
  BY <1>1, ReceiveOrder

(* The message taken is the first of its key.                              *)
LEMMA MessageReceived ==
    ASSUME Inv, MessageInv, NEW k \in Keys, NEW n \in Message, Receive(Envelope(k, n))
    PROVE  /\ InOrder(incoming')
           /\ n \in Queue(k) /\ Queue(k)' = Queue(k) \ {n}
           /\ \A m \in Queue(k) \ {n} : n < m
           /\ \A j \in Keys \ {k} : Queue(j)' = Queue(j)
<1>1. ASSUME NEW j \in Keys \ {k} PROVE Queue(j)' = Queue(j)
  <2>1. \A m : Envelope(j, m) \in Range(incoming') <=> Envelope(j, m) \in Range(incoming)
    BY ReceiveRange, ItemsDiffer, SMT
  <2>2. QED
    BY <2>1 DEF Queue, Envelope
<1>2. n \in Queue(k)
  BY ReceiveRange DEF Queue
<1>3. PICK s, l : /\ s = incoming /\ l = Len(s) /\ s \in Seq(Incoming) /\ s # <<>>
                  /\ Head(s) = Envelope(k, n) /\ incoming' = Tail(s)
  BY DEF Inv, TableType, Receive
<1>4. PICK t : t = Tail(s)
  OBVIOUS
<1>5. /\ l \in Nat \ {0} /\ DOMAIN s = 1 .. l /\ DOMAIN t = 1 .. l - 1 /\ s[1] = Envelope(k, n)
      /\ \A i \in 1 .. l - 1 : t[i] = s[i + 1]
  BY <1>3, <1>4, TailParts
<1>6. InOrder(s)
  BY <1>3 DEF MessageInv, FifoInv
<1>7. ASSUME NEW m \in Message, Envelope(k, m) \in Range(t) PROVE n < m
  <2>1. PICK i \in 1 .. l - 1 : t[i] = Envelope(k, m)
    BY <1>5, <1>7, RangeOf, SMT
  <2>2. 1 \in 1 .. l /\ i + 1 \in 1 .. l /\ 1 < i + 1 /\ s[i + 1] = Envelope(k, m)
    BY <1>5, <2>1, SMT
  <2>3. s[1].key = k /\ s[i + 1].key = k /\ s[1].message = n /\ s[i + 1].message = m /\ k # None
    BY <1>5, <2>2, ItemsDiffer, Constants, SMT
  <2>4. QED
    BY <1>5, <1>6, <2>2, <2>3 DEF InOrder
<1>8. \A m \in Message : Envelope(k, m) \in Range(s) <=> m = n \/ Envelope(k, m) \in Range(t)
  BY <1>3, <1>4, ReceiveRange, ItemsDiffer, SMT
<1>9. \A m \in Message : ~(m < m)
  BY SMT DEF Message
<1>10. \A m \in Queue(k) \ {n} : n < m
  BY <1>3, <1>7, <1>8 DEF Queue
<1>11. \A m : m \in Queue(k)' <=> m \in Queue(k) /\ m # n
  <2>1. \A m : m \in Queue(k)' <=> m \in Message /\ Envelope(k, m) \in Range(t)
    BY <1>3, <1>4 DEF Queue, Envelope
  <2>2. \A m : m \in Queue(k) <=> m \in Message /\ Envelope(k, m) \in Range(s)
    BY <1>3 DEF Queue
  <2>3. QED
    BY <1>7, <1>8, <1>9, <2>1, <2>2
<1>12. QED
  BY <1>1, <1>2, <1>10, <1>11, ReceiveOrder

LEMMA ItemAppended ==
    ASSUME Inv, MessageInv, NEW item, incoming' = Append(incoming, item),
           item.key # None =>
             \A i \in DOMAIN incoming : incoming[i].key = item.key => incoming[i].message < item.message
    PROVE  /\ InOrder(incoming')
           /\ \A x : x \in Range(incoming') <=> x = item \/ x \in Range(incoming)
<1>1. PICK s, t, n : s = incoming /\ t = incoming' /\ n = Len(s) /\ s \in Seq(Incoming) /\ t = Append(s, item)
  BY DEF Inv, TableType
<1>2. /\ n \in Nat /\ DOMAIN s = 1 .. n /\ DOMAIN t = 1 .. n + 1 /\ t[n + 1] = item
      /\ \A i \in 1 .. n : t[i] = s[i]
  BY <1>1, AppendParts, SMT
<1>3. InOrder(s)
  BY <1>1 DEF MessageInv, FifoInv
<1>4. ASSUME NEW i \in 1 .. n + 1, NEW j \in 1 .. n + 1, i < j, t[i].key = t[j].key, t[i].key # None
      PROVE  t[i].message < t[j].message
  <2>1. i \in 1 .. n /\ t[i] = s[i]
    BY <1>2, <1>4, SMT
  <2>2. CASE j = n + 1
    BY <1>1, <1>2, <1>4, <2>1, <2>2
  <2>3. CASE j # n + 1
    <3>1. j \in 1 .. n /\ t[j] = s[j]
      BY <1>2, <2>3, SMT
    <3>2. QED
      BY <1>2, <1>3, <1>4, <2>1, <3>1 DEF InOrder
  <2>4. QED
    BY <2>2, <2>3
<1>5. InOrder(t)
  BY <1>2, <1>4 DEF InOrder
<1>6. Range(t) = Range(s) \cup {item}
  BY <1>1, RangeAppend
<1>7. QED
  BY <1>1, <1>5, <1>6

LEMMA SignalAppended ==
    ASSUME Inv, MessageInv, NEW a, incoming' = Append(incoming, Terminated(a))
    PROVE  InOrder(incoming') /\ \A k \in Keys : Queue(k)' = Queue(k)
<1>1. InOrder(incoming') /\ \A x : x \in Range(incoming') <=> x = Terminated(a) \/ x \in Range(incoming)
  BY ItemsDiffer, ItemAppended
<1>2. ASSUME NEW k \in Keys PROVE Queue(k)' = Queue(k)
  <2>1. \A n : Envelope(k, n) \in Range(incoming') <=> Envelope(k, n) \in Range(incoming)
    BY <1>1, ItemsDiffer
  <2>2. QED
    BY <2>1 DEF Queue, Envelope
<1>3. QED
  BY <1>1, <1>2

LEMMA QueueKept ==
    ASSUME UNCHANGED incoming
    PROVE  \A k \in Keys : Queue(k)' = Queue(k)
BY DEF Queue, Envelope

----------------------------------------------------------------------------
(* The mailboxes of the entities.                                          *)

LEMMA MailOf ==
    \A k : \A n : n \in Mail(k) <=>
      n \in Message /\ \E a \in Actors : owner[a] = k /\ n \in Range(mailbox[a])
BY DEF Mail

LEMMA MailOfNext ==
    \A k : \A n : n \in Mail(k)' <=>
      n \in Message /\ \E a \in Actors : owner'[a] = k /\ n \in Range(mailbox'[a])
BY DEF Mail

(* Passivate messages do not count, and who changes hands has no mail.     *)
LEMMA MailStays ==
    ASSUME NEW k,
           \A a \in Actors : \A n \in Message : n \in Range(mailbox'[a]) <=> n \in Range(mailbox[a]),
           \A a \in Actors : owner'[a] = owner[a] \/ Range(mailbox[a]) = {}
    PROVE  Mail(k)' = Mail(k)
<1>1. \A n : n \in Mail(k)' <=> n \in Mail(k)
  <2>1. ASSUME NEW n \in Mail(k) PROVE n \in Mail(k)'
    <3>1. PICK a \in Actors : owner[a] = k /\ n \in Range(mailbox[a]) /\ n \in Message
      BY <2>1, MailOf
    <3>2. owner'[a] = k /\ n \in Range(mailbox'[a])
      BY <3>1
    <3>3. QED
      BY <3>1, <3>2, MailOfNext
  <2>2. ASSUME NEW n \in Mail(k)' PROVE n \in Mail(k)
    <3>1. PICK a \in Actors : owner'[a] = k /\ n \in Range(mailbox'[a]) /\ n \in Message
      BY <2>2, MailOfNext
    <3>2. owner[a] = k /\ n \in Range(mailbox[a])
      BY <3>1
    <3>3. QED
      BY <3>1, <3>2, MailOf
  <2>3. QED
    BY <2>1, <2>2
<1>2. QED
  BY <1>1

(* What the only entity of a key has got is the mail of the key.           *)
LEMMA MailOfEntity ==
    ASSUME Inv, NEW a \in Actors, NEW k \in Keys, owner[a] = k
    PROVE  \A n : n \in Mail(k) <=> n \in Message /\ n \in Range(mailbox[a])
<1>1. \A b \in Actors : owner[b] = k => b = a
  BY Constants DEF Inv, OneIncarnation
<1>2. QED
  BY <1>1, MailOf

(* One mailbox changes.                                                    *)
LEMMA MailOfOneChanges ==
    ASSUME Inv, NEW a \in Actors, NEW k \in Keys, owner[a] = k, UNCHANGED owner,
           \A b \in Actors \ {a} : mailbox'[b] = mailbox[b]
    PROVE  /\ \A n : n \in Mail(k)' <=> n \in Message /\ n \in Range(mailbox'[a])
           /\ \A j \in Keys \ {k} : Mail(j)' = Mail(j)
<1>1. \A b \in Actors : owner'[b] = k => b = a
  BY Constants DEF Inv, OneIncarnation
<1>2. \A n : n \in Mail(k)' <=> n \in Message /\ n \in Range(mailbox'[a])
  BY <1>1, MailOfNext
<1>3. ASSUME NEW j \in Keys \ {k} PROVE Mail(j)' = Mail(j)
  <2>1. \A b \in Actors : owner'[b] = j => mailbox'[b] = mailbox[b]
    OBVIOUS
  <2>2. \A n : n \in Mail(j)' <=> n \in Mail(j)
    BY <2>1, MailOf, MailOfNext, SMT
  <2>3. QED
    BY <2>2
<1>4. QED
  BY <1>2, <1>3

----------------------------------------------------------------------------
(* What the host holds.                                                    *)

LEMMA HeldOf ==
    ASSUME Inv, NEW k \in Keys
    PROVE  /\ \A n : n \in Held(k) <=> \/ n \in Range(entries[k].buffered)
                                       \/ fresh.key = k /\ n \in Range(fresh.rest)
           /\ entries[k].buffered \in Seq(Message) /\ fresh.rest \in Seq(Message)
<1>1. entries[k].buffered \in Seq(Message) /\ fresh.rest \in Seq(Message)
  BY DEF Inv, TableType, Entry
<1>2. PICK rest \in Seq(Message) : rest = fresh.rest
  BY <1>1
<1>3. \A n : n \in Range(rest) => n \in Message
  BY RangeOf, SMT
<1>4. QED
  BY <1>1, <1>2, <1>3 DEF Held, Rest

LEMMA HeldOfNext ==
    ASSUME NEW k \in Keys, fresh'.rest \in Seq(Message)
    PROVE  \A n : n \in Held(k)' <=> \/ n \in Range(entries'[k].buffered)
                                     \/ fresh'.key = k /\ n \in Range(fresh'.rest)
<1>1. PICK rest \in Seq(Message) : rest = fresh'.rest
  OBVIOUS
<1>2. \A n : n \in Range(rest) => n \in Message
  BY RangeOf, SMT
<1>3. QED
  BY <1>1, <1>2 DEF Held, Rest

(* Of the entity being delivered to and the entry of its key, one has      *)
(* messages.                                                               *)
LEMMA HeldOnce ==
    ASSUME Inv, MessageInv, NEW k \in Keys, fresh.key = k
    PROVE  entries[k].buffered = <<>>
<1>1. pc = "delivering"
  BY Constants, SMT DEF MessageInv, HeldInv, NoEntity
<1>2. entries[k].kind = "vacant"
  BY <1>1 DEF Inv, KnownInv, FreshOk
<1>3. QED
  BY <1>2 DEF MessageInv, HeldInv

LEMMA HeldByLive ==
    ASSUME Inv, MessageInv, NEW k \in Keys, pc = "ready", entries[k].kind # "stopping"
    PROVE  Held(k) = {}
<1>1. entries[k].buffered = <<>> /\ fresh.key = None
  BY SMT DEF MessageInv, HeldInv, NoEntity
<1>2. QED
  BY <1>1, HeldOf, EmptySequence, Constants

LEMMA HeldKept ==
    ASSUME UNCHANGED fresh, NEW k, entries'[k].buffered = entries[k].buffered
    PROVE  Held(k)' = Held(k)
BY DEF Held, Rest

LEMMA LogsKept ==
    ASSUME UNCHANGED <<dead, dropped>>
    PROVE  \A k : OnLog(dead, k)' = OnLog(dead, k) /\ OnLog(dropped, k)' = OnLog(dropped, k)
BY DEF OnLog

LEMMA TakenKept ==
    ASSUME UNCHANGED handled
    PROVE  \A k : Taken(k)' = Taken(k)
BY DEF Taken

LEMMA FifoNext ==
    ASSUME \A k \in Keys : handled'[k] \in Seq(Message) /\ Increasing(handled'[k]),
           \A k \in Keys : Increasing(entries'[k].buffered),
           \A a \in Actors : Increasing(mailbox'[a]),
           Increasing(fresh'.rest), InOrder(incoming')
    PROVE  FifoInv'
BY DEF FifoInv, Increasing, InOrder

(* A step that moves no message.                                           *)
LEMMA QuietStep ==
    ASSUME Inv, MessageInv, UNCHANGED <<sent, handled, dead, dropped>>, InOrder(incoming'),
           \A k \in Keys : Queue(k)' = Queue(k) /\ Mail(k)' = Mail(k) /\ Held(k)' = Held(k),
           \A k \in Keys : Increasing(entries'[k].buffered),
           \A a \in Actors : Increasing(mailbox'[a]),
           Increasing(fresh'.rest), HeldInv'
    PROVE  MessageInv'
<1>1. FifoInv'
  BY FifoNext DEF MessageInv, FifoInv
<1>2. ASSUME NEW k \in Keys PROVE KeyInv(k)'
  BY LogsKept, TakenKept, PlacesSame DEF MessageInv
<1>3. Unique(dead)' /\ Unique(dropped)' /\ (handled = [k \in Keys |-> handled[k]])'
  BY DEF MessageInv, Unique
<1>4. QED
  BY <1>1, <1>2, <1>3 DEF MessageInv

----------------------------------------------------------------------------
(* Steps that move no message.                                             *)

LEMMA SilentHasNoMail ==
    ASSUME MailInv, NEW a \in Actors, Silent(a)
    PROVE  mailbox[a] = <<>> /\ Range(mailbox[a]) = {}
<1>1. mailbox[a] = <<>>
  BY DEF MailInv, BoxInv
<1>2. QED
  BY <1>1, EmptySequence

LEMMA TablesQuiet ==
    ASSUME Inv, MailInv, MessageInv, UNCHANGED <<sent, handled, dead, dropped, mailbox, fresh>>,
           InOrder(incoming'), \A k \in Keys : Queue(k)' = Queue(k),
           \A a \in Actors : owner'[a] = owner[a] \/ Silent(a),
           pc' # "delivering" => pc # "delivering",
           \A k \in Keys : /\ entries'[k].buffered = entries[k].buffered
                           /\ entries'[k].kind = entries[k].kind \/ entries[k].buffered = <<>>
    PROVE  MessageInv'
<1>1. \A k \in Keys : Mail(k)' = Mail(k)
  BY SilentHasNoMail, MailStays
<1>2. \A k \in Keys : Held(k)' = Held(k)
  BY HeldKept
<1>3. HeldInv'
  BY DEF MessageInv, HeldInv, NoEntity
<1>4. /\ \A k \in Keys : Increasing(entries'[k].buffered)
      /\ \A a \in Actors : Increasing(mailbox'[a])
      /\ Increasing(fresh'.rest)
  BY DEF MessageInv, FifoInv
<1>5. QED
  BY <1>1, <1>2, <1>3, <1>4, QuietStep

LEMMA OneGetsOwner ==
    ASSUME Inv, NEW t \in Actors, NEW o, owner' = [owner EXCEPT ![t] = o]
    PROVE  owner'[t] = o /\ \A a \in Actors \ {t} : owner'[a] = owner[a]
BY DEF Inv, TableType

----------------------------------------------------------------------------
(* Steps that move messages.                                               *)

LEMMA AtIs ==
    \A k, n : /\ At(1, k, n) <=> n \in Taken(k)
              /\ At(2, k, n) <=> n \in Mail(k)
              /\ At(3, k, n) <=> n \in Held(k)
              /\ At(4, k, n) <=> n \in Queue(k)
              /\ At(5, k, n) <=> n \in OnLog(dead, k)
              /\ At(6, k, n) <=> n \in OnLog(dropped, k)
BY SMT DEF At

LEMMA AtIsNext ==
    \A k, n : /\ At(1, k, n)' <=> n \in Taken(k)'
              /\ At(2, k, n)' <=> n \in Mail(k)'
              /\ At(3, k, n)' <=> n \in Held(k)'
              /\ At(4, k, n)' <=> n \in Queue(k)'
              /\ At(5, k, n)' <=> n \in OnLog(dead, k)'
              /\ At(6, k, n)' <=> n \in OnLog(dropped, k)'
BY SMT DEF At

LEMMA MovedOn ==
    ASSUME NEW k, KeyInv(k), sent'[k] = sent[k], NEW x \in Message,
           NEW p \in 1 .. 4, NEW q \in 1 .. 4, q < p, At(p, k, x),
           \A r \in q + 1 .. p - 1 : \A n \in Message : ~At(r, k, n),
           \A n \in Message \ {x} : At(p, k, n) => x < n,
           \A r \in (1 .. 6) \ {p, q} : \A n \in Message : At(r, k, n)' <=> At(r, k, n),
           \A n \in Message : At(p, k, n)' <=> At(p, k, n) /\ n # x,
           \A n \in Message : At(q, k, n)' <=> At(q, k, n) \/ n = x
    PROVE  KeyInv(k)'
<1>1. \A r \in 1 .. 6 : At(r, k, x) => r = p
  BY SMT DEF KeyInv
<1>2. ASSUME NEW r \in 1 .. 6, NEW n \in Message
      PROVE  At(r, k, n)' <=> IF n = x THEN r = q ELSE At(r, k, n)
  BY <1>1
<1>3. QED
  BY <1>2, Advanced

LEMMA MovedToLog ==
    ASSUME NEW k, KeyInv(k), sent'[k] = sent[k], NEW S,
           NEW p \in 1 .. 4, NEW q \in {5, 6}, \A x \in S \cap Message : At(p, k, x),
           \A r \in (1 .. 6) \ {p, q} : \A n \in Message : At(r, k, n)' <=> At(r, k, n),
           \A n \in Message : At(p, k, n)' <=> At(p, k, n) /\ n \notin S,
           \A n \in Message : At(q, k, n)' <=> At(q, k, n) \/ n \in S
    PROVE  KeyInv(k)'
<1>1. \A r \in 1 .. 6 : \A x \in S \cap Message : At(r, k, x) => r = p
  BY SMT DEF KeyInv
<1>2. ASSUME NEW r \in 1 .. 6, NEW n \in Message
      PROVE  At(r, k, n)' <=> IF n \in S THEN r = q ELSE At(r, k, n)
  BY <1>1
<1>3. QED
  BY <1>2, Recorded

(* What is further on was sent earlier.                                    *)
LEMMA Earlier ==
    ASSUME MessageInv, NEW k \in Keys, NEW p \in 1 .. 4, NEW q \in 1 .. 4, p < q,
           NEW m \in Message, NEW n \in Message, At(p, k, m), At(q, k, n)
    PROVE  m < n
BY DEF MessageInv, KeyInv

LEMMA OnePlace ==
    ASSUME MessageInv, NEW k \in Keys, NEW p \in 1 .. 6, NEW q \in 1 .. 6,
           NEW n \in Message, At(p, k, n), At(q, k, n)
    PROVE  p = q
BY DEF MessageInv, KeyInv

(* The items of the mailbox with a key are messages for it.                *)
LEMMA KeyedItem ==
    ASSUME Inv, NEW i \in DOMAIN incoming, NEW k \in Keys, incoming[i].key = k
    PROVE  incoming[i] = Envelope(k, incoming[i].message) /\ incoming[i].message \in Queue(k)
<1>1. incoming[i] \in Incoming
  BY SMT DEF Inv, TableType
<1>2. PICK j \in Keys, m \in Message : incoming[i] = Envelope(j, m)
  BY <1>1, ItemsDiffer, Constants, SMT DEF Incoming
<1>3. j = k /\ m = incoming[i].message
  BY <1>2, ItemsDiffer, SMT
<1>4. QED
  BY <1>2, <1>3, QueueOf

(* An entity is told what the host held or just took.                      *)
LEMMA Told ==
    ASSUME Inv, MailInv, MessageInv, NEW a \in Actors, NEW k \in Keys, owner[a] = k, UNCHANGED owner,
           NEW n \in Message, NEW p \in {3, 4}, At(p, k, n),
           mailbox' = [mailbox EXCEPT ![a] = Append(mailbox[a], n)]
    PROVE  /\ \A b \in Actors : Increasing(mailbox'[b])
           /\ \A m : m \in Mail(k)' <=> m = n \/ m \in Mail(k)
           /\ \A j \in Keys \ {k} : Mail(j)' = Mail(j)
<1>1. PICK box \in Seq(Item) : box = mailbox[a] /\ Increasing(box)
  BY DEF MailInv, MessageInv, FifoInv
<1>2. PICK more : more = Append(box, n) /\ mailbox' = [mailbox EXCEPT ![a] = more]
  BY <1>1
<1>3. mailbox'[a] = more /\ \A b \in Actors \ {a} : mailbox'[b] = mailbox[b]
  BY <1>2 DEF MailInv
<1>4. /\ \A m : m \in Mail(k)' <=> m \in Message /\ m \in Range(more)
      /\ \A j \in Keys \ {k} : Mail(j)' = Mail(j)
  BY <1>3, MailOfOneChanges
<1>5. \A m : m \in Mail(k) <=> m \in Message /\ m \in Range(box)
  BY <1>1, MailOfEntity
<1>6. Range(more) = Range(box) \cup {n} /\ n \in Item
  BY <1>2, RangeAppend DEF Item
<1>7. ASSUME NEW y \in Range(box) PROVE y < n
  <2>1. y \in Item
    BY <1>7, RangeOf, SMT
  <2>2. CASE y = Passivate
    BY <2>2, SMT DEF Passivate, Message
  <2>3. CASE y # Passivate
    <3>1. y \in Message /\ At(2, k, y)
      BY <1>5, <1>7, <2>1, <2>3, MessageIsNat, AtIs
    <3>2. QED
      BY <3>1, Earlier, SMT
  <2>4. QED
    BY <2>2, <2>3
<1>8. Increasing(more)
  BY <1>1, <1>2, <1>6, <1>7, IncreasingAppend
<1>9. QED
  BY <1>3, <1>4, <1>5, <1>6, <1>8 DEF MessageInv, FifoInv

(* Messages are recorded.                                                  *)
LEMMA LostIs ==
    ASSUME NEW k, NEW S, NEW why, NEW r
    PROVE  r \in Lost(k, S, why) <=> \E n \in S : r = [key |-> k, message |-> n, why |-> why]
BY DEF Lost

(* The log with the messages of S, sent to k, written.                     *)
Logs(log, more, k, S, why) == more = log \cup Lost(k, S, why)

LEMMA Logged ==
    ASSUME NEW log, Unique(log), NEW k, NEW why, NEW S,
           \A m \in S : m \in Message /\ m \notin OnLog(log, k),
           NEW more, Logs(log, more, k, S, why)
    PROVE  /\ Unique(more)
           /\ \A j : \A m : m \in OnLog(more, j) <=> m \in OnLog(log, j) \/ (j = k /\ m \in S)
<1>1. \A r \in Lost(k, S, why) : r.key = k /\ r.message \in S /\ r.why = why
      /\ r = [key |-> k, message |-> r.message, why |-> why]
  BY LostIs, SMT
<1>2. \A n \in S : [key |-> k, message |-> n, why |-> why] \in Lost(k, S, why)
  BY LostIs
<1>3. ASSUME NEW r \in log, NEW s \in Lost(k, S, why) PROVE ~(r.key = s.key /\ r.message = s.message)
  BY <1>1, <1>3 DEF OnLog
<1>4. Unique(more)
  BY <1>1, <1>3, SMT DEF Unique, Logs
<1>5. ASSUME NEW j, NEW m PROVE m \in OnLog(more, j) <=> m \in OnLog(log, j) \/ (j = k /\ m \in S)
  <2>1. m \in OnLog(more, j) => m \in OnLog(log, j) \/ (j = k /\ m \in S)
    BY <1>1 DEF OnLog, Logs
  <2>2. m \in OnLog(log, j) => m \in OnLog(more, j)
    BY DEF OnLog, Logs
  <2>3. ASSUME j = k, m \in S PROVE m \in OnLog(more, j)
    <3>1. PICK r \in Lost(k, S, why) : r = [key |-> k, message |-> m, why |-> why]
      BY <1>2, <2>3
    <3>2. r \in more /\ r.key = j /\ r.message = m /\ m \in Message
      BY <2>3, <3>1 DEF Logs
    <3>3. QED
      BY <3>2 DEF OnLog
  <2>4. QED
    BY <2>1, <2>2, <2>3
<1>6. QED
  BY <1>4, <1>5

LEMMA DeadLetterLogged ==
    ASSUME MessageInv, NEW k \in Keys, NEW n \in Message, NEW why, DeadLetter(k, n, why),
           NEW p \in 1 .. 4, At(p, k, n)
    PROVE  /\ Unique(dead)'
           /\ \A m : m \in OnLog(dead, k)' <=> m \in OnLog(dead, k) \/ m = n
           /\ \A j \in Keys \ {k} : OnLog(dead, j)' = OnLog(dead, j)
<1>1. PICK S : S = {n}
  OBVIOUS
<1>2. dead' = dead \cup Lost(k, S, why)
  BY <1>1 DEF DeadLetter, Lost
<1>3. n \notin OnLog(dead, k)
  BY OnePlace, AtIs, SMT
<1>4. PICK log, more : log = dead /\ more = dead'
  OBVIOUS
<1>5. /\ Unique(log) /\ Logs(log, more, k, S, why)
      /\ \A m \in S : m \in Message /\ m \notin OnLog(log, k)
  BY <1>1, <1>2, <1>3, <1>4 DEF MessageInv, Logs
<1>6. /\ Unique(more)
      /\ \A j : \A m : m \in OnLog(more, j) <=> m \in OnLog(log, j) \/ (j = k /\ m \in S)
  BY <1>5, Logged, SMT
<1>7. \A j : OnLog(dead, j)' = OnLog(more, j) /\ OnLog(dead, j) = OnLog(log, j)
  BY <1>4 DEF OnLog
<1>8. Unique(dead)'
  BY <1>4, <1>6 DEF Unique
<1>9. \A j \in Keys \ {k} : OnLog(more, j) = OnLog(log, j)
  BY <1>6
<1>10. QED
  BY <1>1, <1>6, <1>7, <1>8, <1>9, SMT

(* Keys other than the one of a message taken, or delivered.               *)
LEMMA OtherKey ==
    ASSUME MessageInv, UNCHANGED <<sent, handled, dropped>>, NEW j \in Keys,
           Mail(j)' = Mail(j), Held(j)' = Held(j), Queue(j)' = Queue(j),
           OnLog(dead, j)' = OnLog(dead, j)
    PROVE  KeyInv(j)'
<1>1. Taken(j)' = Taken(j) /\ OnLog(dropped, j)' = OnLog(dropped, j)
  BY DEF Taken, OnLog
<1>2. QED
  BY <1>1, PlacesSame DEF MessageInv

(* A message the host took becomes a dead letter.                          *)
LEMMA TakenToDead ==
    ASSUME MessageInv, NEW k \in Keys, NEW n \in Message, n \in Queue(k), sent'[k] = sent[k],
           Taken(k)' = Taken(k), Mail(k)' = Mail(k), Held(k)' = Held(k), Queue(k)' = Queue(k) \ {n},
           OnLog(dropped, k)' = OnLog(dropped, k),
           \A m : m \in OnLog(dead, k)' <=> m \in OnLog(dead, k) \/ m = n
    PROVE  KeyInv(k)'
<1>1. PICK S : S = {n}
  OBVIOUS
<1>2. /\ \A r \in (1 .. 6) \ {4, 5} : \A m \in Message : At(r, k, m)' <=> At(r, k, m)
      /\ \A m \in Message : At(4, k, m)' <=> At(4, k, m) /\ m \notin S
      /\ \A m \in Message : At(5, k, m)' <=> At(5, k, m) \/ m \in S
  BY <1>1, AtIs, AtIsNext, SMT
<1>3. \A x \in S \cap Message : At(4, k, x)
  BY <1>1, AtIs
<1>4. QED
  BY <1>2, <1>3, MovedToLog, SMT DEF MessageInv

(* The message taken is held, being buffered or there being an entity to   *)
(* spawn for it.                                                           *)
LEMMA TakenToHeld ==
    ASSUME MessageInv, NEW k \in Keys, NEW n \in Message, n \in Queue(k), sent'[k] = sent[k],
           \A m \in Queue(k) \ {n} : n < m,
           Taken(k)' = Taken(k), Mail(k)' = Mail(k), Queue(k)' = Queue(k) \ {n},
           OnLog(dropped, k)' = OnLog(dropped, k), OnLog(dead, k)' = OnLog(dead, k),
           \A m : m \in Held(k)' <=> m \in Held(k) \/ m = n
    PROVE  KeyInv(k)'
<1>1. /\ \A r \in (1 .. 6) \ {4, 3} : \A m \in Message : At(r, k, m)' <=> At(r, k, m)
      /\ \A m \in Message : At(4, k, m)' <=> At(4, k, m) /\ m # n
      /\ \A m \in Message : At(3, k, m)' <=> At(3, k, m) \/ m = n
  BY AtIs, AtIsNext, SMT
<1>2. /\ \A r \in 3 + 1 .. 4 - 1 : \A m \in Message : ~At(r, k, m)
      /\ \A m \in Message \ {n} : At(4, k, m) => n < m
      /\ At(4, k, n)
  BY AtIs, SMT
<1>3. QED
  BY <1>1, <1>2, MovedOn, SMT DEF MessageInv

LEMMA QueuedNotLogged ==
    ASSUME MessageInv, NEW k \in Keys, NEW n \in Queue(k)
    PROVE  n \in Message /\ n \notin OnLog(dropped, k)
<1>1. n \in Message /\ At(4, k, n)
  BY AtIs DEF Queue
<1>2. ~At(6, k, n)
  BY <1>1, OnePlace, SMT
<1>3. QED
  BY <1>1, <1>2, AtIs

LEMMA BufferedNotLogged ==
    ASSUME Inv, MessageInv, NEW k \in Keys, NEW n \in Range(entries[k].buffered)
    PROVE  n \in Message /\ n \notin OnLog(dropped, k)
<1>1. PICK buffered : buffered \in Seq(Message) /\ buffered = entries[k].buffered
  BY HeldOf
<1>2. n \in Range(buffered)
  BY <1>1
<1>3. n \in Message
  BY <1>1, <1>2, RangeOf, SMT
<1>4. At(3, k, n)
  BY HeldOf, AtIs
<1>5. ~At(6, k, n)
  BY <1>3, <1>4, OnePlace, SMT
<1>6. QED
  BY <1>3, <1>5, AtIs

(* What a failing host drops: what it has buffered, and the message it has *)
(* taken, if any.                                                          *)
LEMMA FailLogs ==
    ASSUME Inv, MessageInv, NEW k, NEW E, \A n \in E : k \in Keys /\ n \in Message /\ n \in Queue(k),
           Fail(Lost(k, E, "host failed"))
    PROVE  /\ Unique(dropped)'
           /\ \A j \in Keys : \A m : m \in OnLog(dropped, j)' <=>
                \/ m \in OnLog(dropped, j)
                \/ m \in Range(entries[j].buffered)
                \/ j = k /\ m \in E
<1>1. PICK why : why = "host failed"
  OBVIOUS
<1>2. PICK more, log : more = dropped' /\ log = dropped /\ Unique(log)
  BY DEF MessageInv
<1>3. PICK gone : \A r : r \in gone <=>
        r \in Lost(k, E, why) \/ \E j \in Keys : r \in Lost(j, Range(entries[j].buffered), why)
  <2>1. \A r : r \in UNION {Lost(j, Range(entries[j].buffered), why) : j \in Keys} <=>
                 \E j \in Keys : r \in Lost(j, Range(entries[j].buffered), why)
    OBVIOUS
  <2>2. PICK rest : \A r : r \in rest <=> \E j \in Keys : r \in Lost(j, Range(entries[j].buffered), why)
    BY <2>1
  <2>3. \A r : r \in Lost(k, E, why) \cup rest <=>
          r \in Lost(k, E, why) \/ \E j \in Keys : r \in Lost(j, Range(entries[j].buffered), why)
    BY <2>2
  <2>4. QED
    BY <2>3
<1>4. \A r : r \in more <=> r \in log \/ r \in gone
  BY <1>1, <1>2, <1>3 DEF Fail
<1>5. ASSUME NEW j \in Keys, NEW n, n \in Range(entries[j].buffered) \/ (j = k /\ n \in E)
      PROVE  n \in Message /\ n \notin OnLog(log, j)
  <2>1. CASE n \in Range(entries[j].buffered)
    BY <1>2, <2>1, BufferedNotLogged
  <2>2. CASE j = k /\ n \in E
    BY <1>2, <2>2, QueuedNotLogged
  <2>3. QED
    BY <1>5, <2>1, <2>2
<1>6. ASSUME NEW r
      PROVE  r \in gone <=>
               \E j \in Keys : \E n \in Message :
                 /\ r = [key |-> j, message |-> n, why |-> why]
                 /\ n \in Range(entries[j].buffered) \/ (j = k /\ n \in E)
  <2>1. ASSUME r \in Lost(k, E, why)
        PROVE  \E j \in Keys : \E n \in Message :
                 r = [key |-> j, message |-> n, why |-> why] /\ j = k /\ n \in E
    <3>1. PICK n \in E : r = [key |-> k, message |-> n, why |-> why]
      BY <2>1 DEF Lost
    <3>2. k \in Keys /\ n \in Message
      OBVIOUS
    <3>3. QED
      BY <3>1, <3>2
  <2>2. ASSUME NEW j \in Keys, r \in Lost(j, Range(entries[j].buffered), why)
        PROVE  \E n \in Message :
                 r = [key |-> j, message |-> n, why |-> why] /\ n \in Range(entries[j].buffered)
    <3>1. PICK n \in Range(entries[j].buffered) : r = [key |-> j, message |-> n, why |-> why]
      BY <2>2 DEF Lost
    <3>2. QED
      BY <1>5, <3>1
  <2>3. ASSUME NEW j \in Keys, NEW n \in Message, r = [key |-> j, message |-> n, why |-> why],
               n \in Range(entries[j].buffered) \/ (j = k /\ n \in E)
        PROVE  r \in gone
    <3>1. CASE n \in Range(entries[j].buffered)
      <4>1. r \in Lost(j, Range(entries[j].buffered), why)
        BY <2>3, <3>1, LostIs
      <4>2. QED
        BY <1>3, <4>1
    <3>2. CASE j = k /\ n \in E
      <4>1. r \in Lost(k, E, why)
        BY <2>3, <3>2, LostIs
      <4>2. QED
        BY <1>3, <4>1
    <3>3. QED
      BY <2>3, <3>1, <3>2
  <2>4. QED
    BY <1>3, <2>1, <2>2, <2>3
(* Records with one reason, and for messages that are not on record.       *)
<1>LoggedAll. ASSUME NEW old, Unique(old), NEW reason, NEW new, NEW added,
                     \A r \in added : \E j \in Keys : \E n \in Message :
                       r = [key |-> j, message |-> n, why |-> reason] /\ n \notin OnLog(old, j),
                     \A r : r \in new <=> r \in old \/ r \in added
              PROVE  Unique(new)
  <2> USE <1>LoggedAll
  <2>1. \A r \in added : r.message \in Message /\ r.message \notin OnLog(old, r.key)
                        /\ r = [key |-> r.key, message |-> r.message, why |-> reason]
    <3>1. ASSUME NEW r \in added
          PROVE  /\ r.message \in Message /\ r.message \notin OnLog(old, r.key)
                 /\ r = [key |-> r.key, message |-> r.message, why |-> reason]
      <4>1. PICK j \in Keys, n \in Message :
              r = [key |-> j, message |-> n, why |-> reason] /\ n \notin OnLog(old, j)
        OBVIOUS
      <4>2. QED
        BY <4>1
    <3>2. QED
      BY <3>1
  <2>2. ASSUME NEW r \in old, NEW s \in added PROVE ~(r.key = s.key /\ r.message = s.message)
    BY <2>1, <2>2 DEF OnLog
  <2>3. ASSUME NEW r \in added, NEW s \in added, r.key = s.key, r.message = s.message PROVE r = s
    BY <2>1, <2>3
  <2>4. QED
    BY <2>2, <2>3 DEF Unique
<1>7. Unique(more)
  <2>1. \A r \in gone : \E j \in Keys : \E n \in Message :
          r = [key |-> j, message |-> n, why |-> why] /\ n \notin OnLog(log, j)
    BY <1>5, <1>6
  <2>2. QED
    BY <1>2, <1>4, <2>1, <1>LoggedAll
<1>8. ASSUME NEW j \in Keys, NEW m
      PROVE  m \in OnLog(more, j) <=>
               m \in OnLog(log, j) \/ m \in Range(entries[j].buffered) \/ (j = k /\ m \in E)
  <2>1. ASSUME NEW r \in gone, r.key = j, r.message = m
        PROVE  m \in Range(entries[j].buffered) \/ (j = k /\ m \in E)
    <3>1. PICK i \in Keys, n \in Message :
            /\ r = [key |-> i, message |-> n, why |-> why]
            /\ n \in Range(entries[i].buffered) \/ (i = k /\ n \in E)
      BY <1>6
    <3>2. i = j /\ n = m
      BY <2>1, <3>1
    <3>3. QED
      BY <3>1, <3>2
  <2>2. ASSUME m \in Range(entries[j].buffered) \/ (j = k /\ m \in E)
        PROVE  m \in Message /\ \E r \in gone : r.key = j /\ r.message = m
    <3>1. m \in Message
      BY <1>5, <2>2
    <3>2. PICK r : r = [key |-> j, message |-> m, why |-> why]
      OBVIOUS
    <3>3. r \in gone /\ r.key = j /\ r.message = m
      BY <1>6, <2>2, <3>1, <3>2
    <3>4. QED
      BY <3>1, <3>3
  <2>3. m \in OnLog(more, j) <=> m \in OnLog(log, j) \/ (m \in Message /\ \E r \in gone : r.key = j /\ r.message = m)
    BY <1>4 DEF OnLog
  <2>4. QED
    BY <2>1, <2>2, <2>3
<1>9. Unique(dropped)' /\ \A j : OnLog(dropped, j)' = OnLog(more, j)
  BY <1>2, <1>7 DEF Unique, OnLog
<1>10. QED
  BY <1>2, <1>8, <1>9

(* The step of a failing host, which has taken the messages E for k.       *)
Dropping(k, E) ==
    /\ pc = "ready"
    /\ \A n \in E : k \in Keys /\ n \in Message /\ n \in Queue(k) /\ entries[k].kind = "vacant"
    /\ Fail(Lost(k, E, "host failed"))
    /\ InOrder(incoming')
    /\ \A j \in Keys : \A m : m \in Queue(j)' <=> m \in Queue(j) /\ ~(j = k /\ m \in E)
    /\ \A j \in Keys : Mail(j)' = Mail(j)
    /\ \A a \in Actors : Increasing(mailbox'[a])

LEMMA QueuedToDropped ==
    ASSUME NEW k, KeyInv(k), sent'[k] = sent[k], NEW S, \A n \in S : n \in Queue(k),
           Taken(k)' = Taken(k), Mail(k)' = Mail(k), OnLog(dead, k)' = OnLog(dead, k),
           \A m : m \in Held(k)' <=> m \in Held(k),
           \A m : m \in Queue(k)' <=> m \in Queue(k) /\ m \notin S,
           \A m : m \in OnLog(dropped, k)' <=> m \in OnLog(dropped, k) \/ m \in S
    PROVE  KeyInv(k)'
<1>1. /\ \A r \in (1 .. 6) \ {4, 6} : \A m \in Message : At(r, k, m)' <=> At(r, k, m)
      /\ \A m \in Message : At(4, k, m)' <=> At(4, k, m) /\ m \notin S
      /\ \A m \in Message : At(6, k, m)' <=> At(6, k, m) \/ m \in S
  BY AtIs, AtIsNext, SMT
<1>2. \A x \in S \cap Message : At(4, k, x)
  BY AtIs
<1>3. QED
  BY <1>1, <1>2, MovedToLog, SMT

LEMMA HeldToDropped ==
    ASSUME NEW k, KeyInv(k), sent'[k] = sent[k], NEW S,
           \A m : m \in S <=> m \in Held(k), \A m : m \notin Held(k)',
           Taken(k)' = Taken(k), Mail(k)' = Mail(k), OnLog(dead, k)' = OnLog(dead, k),
           \A m : m \in Queue(k)' <=> m \in Queue(k),
           \A m : m \in OnLog(dropped, k)' <=> m \in OnLog(dropped, k) \/ m \in S
    PROVE  KeyInv(k)'
<1>1. /\ \A r \in (1 .. 6) \ {3, 6} : \A m \in Message : At(r, k, m)' <=> At(r, k, m)
      /\ \A m \in Message : At(3, k, m)' <=> At(3, k, m) /\ m \notin S
      /\ \A m \in Message : At(6, k, m)' <=> At(6, k, m) \/ m \in S
  BY AtIs, AtIsNext, SMT
<1>2. \A x \in S \cap Message : At(3, k, x)
  BY AtIs
<1>3. QED
  BY <1>1, <1>2, MovedToLog, SMT

----------------------------------------------------------------------------
(* Every step keeps each message in one place and in order.                *)
LEMMA NextMessage ==
    ASSUME Inv, MailInv, MessageInv, [Next]_vars
    PROVE  MessageInv'
<1>1. CASE UNCHANGED vars
  <2>1. UNCHANGED <<pc, entries, fresh, incoming, owner, mailbox, sent, handled, dead, dropped>>
    BY <1>1 DEF vars, state, ghosts
  <2>2. InOrder(incoming') /\ \A k \in Keys : Queue(k)' = Queue(k)
    BY <2>1, QueueKept DEF MessageInv, FifoInv
  <2>3. QED
    BY <2>1, <2>2, TablesQuiet
<1>SendKeepsMessages. ASSUME NEW k \in Keys, Send(k)
                      PROVE  MessageInv'
  <2> USE <1>SendKeepsMessages
  <2>1. /\ UNCHANGED <<handled, dead, dropped, mailbox, fresh, pc, entries, owner>>
        /\ sent' = [sent EXCEPT ![k] = sent[k] + 1]
        /\ incoming' = Append(incoming, Envelope(k, sent[k] + 1))
    BY DEF Send, ghosts, state
  <2>2. sent[k] \in Nat /\ sent[k] + 1 \in Message
    BY Constants, SMT DEF Send, Inv, TableType, Message
  <2>3. PICK x \in Message : x = sent[k] + 1
    BY <2>2
  <2>4. sent'[k] = x /\ \A j \in Keys \ {k} : sent'[j] = sent[j]
    BY <2>1, <2>3 DEF Inv, TableType
  <2>5. ASSUME NEW i \in DOMAIN incoming, incoming[i].key = k PROVE incoming[i].message < x
    <3>1. PICK m \in Message : m = incoming[i].message /\ At(4, k, m)
      BY <2>5, KeyedItem, AtIs DEF Queue
    <3>2. m <= sent[k]
      BY <3>1, SMT DEF MessageInv, KeyInv
    <3>3. QED
      BY <2>2, <2>3, <3>1, <3>2, SMT DEF Message
  <2>6. InOrder(incoming') /\ \A y : y \in Range(incoming') <=> y = Envelope(k, x) \/ y \in Range(incoming)
    BY <2>1, <2>3, <2>5, ItemAppended, ItemsDiffer, SMT
  <2>7. \A j \in Keys : Taken(j)' = Taken(j) /\ Mail(j)' = Mail(j) /\ Held(j)' = Held(j)
    BY <2>1, TakenKept, MailStays, HeldKept
  <2>8. \A j : OnLog(dead, j)' = OnLog(dead, j) /\ OnLog(dropped, j)' = OnLog(dropped, j)
    BY <2>1, LogsKept
  <2>9. ASSUME NEW j \in Keys \ {k} PROVE KeyInv(j)'
    <3>1. \A n : Envelope(j, n) \in Range(incoming') <=> Envelope(j, n) \in Range(incoming)
      BY <2>6, ItemsDiffer
    <3>2. Queue(j)' = Queue(j)
      BY <3>1 DEF Queue, Envelope
    <3>3. QED
      BY <2>4, <2>7, <2>8, <3>2, PlacesSame DEF MessageInv
  <2>10. KeyInv(k)'
    <3>1. \A n : Envelope(k, n) \in Range(incoming') <=> Envelope(k, n) \in Range(incoming) \/ n = x
      BY <2>6, ItemsDiffer
    <3>2. \A n \in Message : n \in Queue(k)' <=> n \in Queue(k) \/ n = x
      BY <3>1 DEF Queue, Envelope
    <3>3. ASSUME NEW r \in 1 .. 6, NEW n \in Message
          PROVE  At(r, k, n)' <=> At(r, k, n) \/ (r = 4 /\ n = x)
      BY <2>7, <2>8, <3>2, AtIs, AtIsNext, SMT
    <3>4. QED
      BY <2>2, <2>3, <2>4, <3>3, Entered DEF MessageInv
  <2>11. FifoInv' /\ HeldInv'
    <3>1. FifoInv'
      BY <2>1, <2>6, FifoNext DEF MessageInv, FifoInv
    <3>2. HeldInv'
      BY <2>1 DEF MessageInv, HeldInv, NoEntity
    <3>3. QED
      BY <3>1, <3>2
  <2>12. QED
    BY <2>1, <2>9, <2>10, <2>11 DEF MessageInv, Unique
<1>2. CASE \E k \in Keys : Send(k)
  BY <1>2, <1>SendKeepsMessages
<1>HostInitKeepsMessages. ASSUME HostInit
                          PROVE  MessageInv'
  <2> USE <1>HostInitKeepsMessages
  <2>1. UNCHANGED <<sent, handled, dead, dropped, mailbox, fresh, incoming, entries>> /\ pc = "starting"
    BY DEF HostInit, ghosts
  <2>2. PICK t \in Actors : Silent(t) /\ owner' = [owner EXCEPT ![t] = None]
    BY FreshIdIsFree DEF HostInit, TickLater, Silent
  <2>3. \A b \in Actors : owner'[b] = owner[b] \/ Silent(b)
    BY <2>2, OneGetsOwner
  <2>4. InOrder(incoming') /\ \A k \in Keys : Queue(k)' = Queue(k)
    BY <2>1, QueueKept DEF MessageInv, FifoInv
  <2>5. QED
    BY <2>1, <2>3, <2>4, TablesQuiet
<1>RouteLiveKeepsMessages. ASSUME NEW k \in Keys, NEW n \in Message, RouteLive(k, n)
                           PROVE  MessageInv'
  <2> USE <1>RouteLiveKeepsMessages
  <2>1. /\ UNCHANGED <<pc, entries, fresh, owner, sent, handled, dropped>>
        /\ Receive(Envelope(k, n)) /\ entries[k].kind = "live" /\ pc = "ready"
    BY DEF RouteLive, state, Receive
  <2>2. PICK a \in Actors : a = entries[k].actor /\ keys[a] = k
    BY <2>1 DEF Inv, EntryInv, EntryOk
  <2>3. /\ InOrder(incoming') /\ n \in Queue(k) /\ Queue(k)' = Queue(k) \ {n}
        /\ \A m \in Queue(k) \ {n} : n < m
        /\ \A j \in Keys \ {k} : Queue(j)' = Queue(j)
    BY <2>1, MessageReceived
  <2>4. Held(k) = {} /\ \A j \in Keys : Held(j)' = Held(j)
    BY <2>1, HeldByLive, HeldKept
  <2>5. At(4, k, n) /\ KeyInv(k)
    BY <2>3, AtIs DEF MessageInv
  <2>6. HeldInv'
    BY <2>1 DEF MessageInv, HeldInv, NoEntity
  <2>7. \A j : OnLog(dropped, j)' = OnLog(dropped, j) /\ Taken(j)' = Taken(j)
    BY <2>1 DEF OnLog, Taken
  <2>8. CASE Accepts(a)
    <3>1. dead' = dead /\ mailbox' = [mailbox EXCEPT ![a] = Append(mailbox[a], n)]
      BY <2>2, <2>8 DEF RouteLive
    <3>2. owner[a] = k
      <4>1. Reachable(a) /\ Connected(a)
        BY <2>1, <2>2, <2>8 DEF Reachable, Accepts
      <4>2. owner[a] # None
        BY <4>1, ReachableIsEntity
      <4>3. KeyOk(a)
        BY DEF Inv, EntryInv
      <4>4. QED
        BY <2>2, <4>2, <4>3, Constants DEF KeyOk
    <3>3. /\ \A b \in Actors : Increasing(mailbox'[b])
          /\ \A m : m \in Mail(k)' <=> m = n \/ m \in Mail(k)
          /\ \A j \in Keys \ {k} : Mail(j)' = Mail(j)
      BY <2>1, <2>5, <3>1, <3>2, Told
    <3>4. \A j : OnLog(dead, j)' = OnLog(dead, j)
      BY <3>1 DEF OnLog
    <3>5. ASSUME NEW j \in Keys \ {k} PROVE KeyInv(j)'
      BY <2>1, <2>3, <2>4, <3>3, <3>4, OtherKey
    <3>6. KeyInv(k)'
      <4>1. /\ \A r \in (1 .. 6) \ {4, 2} : \A m \in Message : At(r, k, m)' <=> At(r, k, m)
            /\ \A m \in Message : At(4, k, m)' <=> At(4, k, m) /\ m # n
            /\ \A m \in Message : At(2, k, m)' <=> At(2, k, m) \/ m = n
        BY <2>3, <2>4, <2>7, <3>3, <3>4, AtIs, AtIsNext, SMT
      <4>2. /\ \A r \in 2 + 1 .. 4 - 1 : \A m \in Message : ~At(r, k, m)
            /\ \A m \in Message \ {n} : At(4, k, m) => n < m
        BY <2>3, <2>4, AtIs, SMT
      <4>3. QED
        BY <2>1, <2>5, <4>1, <4>2, MovedOn, SMT
    <3>7. FifoInv'
      BY <2>1, <2>3, <3>3, FifoNext DEF MessageInv, FifoInv
    <3>8. Unique(dead)' /\ Unique(dropped)' /\ (handled = [j \in Keys |-> handled[j]])'
      BY <2>1, <3>1 DEF MessageInv, Unique
    <3>9. QED
      BY <2>6, <3>5, <3>6, <3>7, <3>8 DEF MessageInv
  <2>9. CASE ~Accepts(a)
    <3>1. DeadLetter(k, n, Why(a)) /\ mailbox' = mailbox
      BY <2>2, <2>9 DEF RouteLive
    <3>2. /\ Unique(dead)'
          /\ \A m : m \in OnLog(dead, k)' <=> m \in OnLog(dead, k) \/ m = n
          /\ \A j \in Keys \ {k} : OnLog(dead, j)' = OnLog(dead, j)
      BY <2>5, <3>1, DeadLetterLogged, SMT
    <3>3. \A j \in Keys : Mail(j)' = Mail(j)
      BY <2>1, <3>1, MailStays
    <3>4. ASSUME NEW j \in Keys \ {k} PROVE KeyInv(j)'
      BY <2>1, <2>3, <2>4, <3>2, <3>3, OtherKey
    <3>5. KeyInv(k)'
      BY <2>1, <2>3, <2>4, <2>7, <3>2, <3>3, TakenToDead
    <3>6. FifoInv'
      BY <2>1, <2>3, <3>1, FifoNext DEF MessageInv, FifoInv
    <3>7. Unique(dropped)' /\ (handled = [j \in Keys |-> handled[j]])'
      BY <2>1 DEF MessageInv, Unique
    <3>8. QED
      BY <2>6, <3>2, <3>4, <3>5, <3>6, <3>7 DEF MessageInv
  <2>10. QED
    BY <2>8, <2>9
<1>RouteStoppingKeepsMessages. ASSUME NEW k \in Keys, NEW n \in Message, RouteStopping(k, n)
                               PROVE  MessageInv'
  <2> USE <1>RouteStoppingKeepsMessages
  <2>1. /\ UNCHANGED <<pc, fresh, owner, mailbox, sent, handled, dropped>>
        /\ Receive(Envelope(k, n)) /\ entries[k].kind = "stopping"
    BY DEF RouteStopping
  <2>2. /\ InOrder(incoming') /\ n \in Queue(k) /\ Queue(k)' = Queue(k) \ {n}
        /\ \A m \in Queue(k) \ {n} : n < m
        /\ \A j \in Keys \ {k} : Queue(j)' = Queue(j)
    BY <2>1, MessageReceived
  <2>3. At(4, k, n)
    BY <2>2, AtIs
  <2>4. \A j \in Keys : Mail(j)' = Mail(j)
    BY <2>1, MailStays
  <2>5. \A j : OnLog(dropped, j)' = OnLog(dropped, j) /\ Taken(j)' = Taken(j)
    BY <2>1 DEF OnLog, Taken
  <2>6. Unique(dropped)' /\ (handled = [j \in Keys |-> handled[j]])'
    BY <2>1 DEF MessageInv, Unique
  <2>7. CASE HasRoom(entries[k].buffered)
    <3>1. PICK buffered \in Seq(Message) : buffered = entries[k].buffered /\ Increasing(buffered)
      BY DEF Inv, TableType, Entry, MessageInv, FifoInv
    <3>2. /\ entries'[k].buffered = Append(buffered, n) /\ entries'[k].kind = "stopping"
          /\ \A j \in Keys \ {k} : entries'[j] = entries[j]
          /\ dead' = dead
      BY <2>1, <2>7, <3>1, SMT DEF RouteStopping, PushBack, Inv, TableType, Entry
    <3>3. Range(Append(buffered, n)) = Range(buffered) \cup {n}
      BY RangeAppend
    <3>4. Increasing(Append(buffered, n))
      <4>1. ASSUME NEW y \in Range(buffered) PROVE y < n
        <5>1. y \in Message /\ At(3, k, y)
          BY <3>1, <4>1, RangeOf, HeldOf, AtIs, SMT
        <5>2. QED
          BY <2>3, <5>1, Earlier, SMT
      <4>2. buffered \in Seq(Item) /\ n \in Item
        BY SMT DEF Item
      <4>3. QED
        BY <3>1, <4>1, <4>2, IncreasingAppend
    <3>5. \A m : m \in Held(k)' <=> m \in Held(k) \/ m = n
      BY <2>1, <3>1, <3>2, <3>3 DEF Held, Rest
    <3>6. \A j \in Keys \ {k} : Held(j)' = Held(j)
      BY <2>1, <3>2, HeldKept
    <3>7. \A j : OnLog(dead, j)' = OnLog(dead, j)
      BY <3>2 DEF OnLog
    <3>8. ASSUME NEW j \in Keys \ {k} PROVE KeyInv(j)'
      BY <2>1, <2>2, <2>4, <3>6, <3>7, OtherKey
    <3>9. KeyInv(k)'
      BY <2>1, <2>2, <2>4, <2>5, <3>5, <3>7, TakenToHeld
    <3>10. FifoInv' /\ HeldInv'
      <4>1. \A j \in Keys : Increasing(entries'[j].buffered)
        BY <3>2, <3>4 DEF MessageInv, FifoInv
      <4>2. FifoInv'
        BY <2>1, <2>2, <4>1, FifoNext DEF MessageInv, FifoInv
      <4>3. HeldInv'
        BY <2>1, <3>2 DEF MessageInv, HeldInv, NoEntity
      <4>4. QED
        BY <4>2, <4>3
    <3>11. Unique(dead)'
      BY <3>2 DEF MessageInv, Unique
    <3>12. QED
      BY <2>6, <3>8, <3>9, <3>10, <3>11 DEF MessageInv
  <2>8. CASE ~HasRoom(entries[k].buffered)
    <3>1. PICK why : DeadLetter(k, n, why) /\ entries' = entries
      BY <2>8 DEF RouteStopping
    <3>2. /\ Unique(dead)'
          /\ \A m : m \in OnLog(dead, k)' <=> m \in OnLog(dead, k) \/ m = n
          /\ \A j \in Keys \ {k} : OnLog(dead, j)' = OnLog(dead, j)
      BY <2>3, <3>1, DeadLetterLogged, SMT
    <3>3. \A j \in Keys : Held(j)' = Held(j)
      BY <2>1, <3>1, HeldKept
    <3>4. ASSUME NEW j \in Keys \ {k} PROVE KeyInv(j)'
      BY <2>1, <2>2, <2>4, <3>2, <3>3, OtherKey
    <3>5. KeyInv(k)'
      BY <2>1, <2>2, <2>4, <2>5, <3>2, <3>3, TakenToDead
    <3>6. FifoInv' /\ HeldInv'
      <4>1. FifoInv'
        BY <2>1, <2>2, <3>1, FifoNext DEF MessageInv, FifoInv
      <4>2. HeldInv'
        BY <2>1, <3>1 DEF MessageInv, HeldInv, NoEntity
      <4>3. QED
        BY <4>1, <4>2
    <3>7. QED
      BY <2>6, <3>2, <3>4, <3>5, <3>6 DEF MessageInv
  <2>9. QED
    BY <2>7, <2>8
<1>RouteVacantKeepsMessages. ASSUME NEW k \in Keys, NEW n \in Message, RouteVacant(k, n)
                             PROVE  MessageInv'
  <2> USE <1>RouteVacantKeepsMessages
  <2>1. /\ UNCHANGED <<entries, mailbox, sent, handled, dropped, dead>>
        /\ Receive(Envelope(k, n)) /\ pc = "ready" /\ entries[k].kind = "vacant" /\ pc' = "delivering"
        /\ fresh' = [key |-> k, actor |-> FreshId, rest |-> <<n>>]
    BY DEF RouteVacant, SpawnEntity, state, ghosts, Receive
  <2>2. /\ InOrder(incoming') /\ n \in Queue(k) /\ Queue(k)' = Queue(k) \ {n}
        /\ \A m \in Queue(k) \ {n} : n < m
        /\ \A j \in Keys \ {k} : Queue(j)' = Queue(j)
    BY <2>1, MessageReceived
  <2>3. PICK t \in Actors : Silent(t) /\ owner' = [owner EXCEPT ![t] = k]
    BY FreshIdIsFree DEF RouteVacant, SpawnEntity, Silent
  <2>4. \A b \in Actors : owner'[b] = owner[b] \/ Range(mailbox[b]) = {}
    BY <2>3, OneGetsOwner, SilentHasNoMail
  <2>5. \A j \in Keys : Mail(j)' = Mail(j)
    BY <2>1, <2>4, MailStays
  <2>6. \A j : OnLog(dropped, j)' = OnLog(dropped, j) /\ Taken(j)' = Taken(j) /\ OnLog(dead, j)' = OnLog(dead, j)
    BY <2>1 DEF OnLog, Taken
  <2>7. fresh'.key = k /\ fresh'.rest = <<n>> /\ fresh.key = None /\ fresh.rest = <<>>
    BY <2>1, SMT DEF MessageInv, HeldInv, NoEntity
  <2>8. fresh'.rest \in Seq(Message) /\ Range(fresh'.rest) = {n} /\ Increasing(fresh'.rest)
    BY <2>7, OneMessage, SMT
  <2>9. \A m : m \in Held(k)' <=> m \in Held(k) \/ m = n
    BY <2>1, <2>7, <2>8, HeldOf, HeldOfNext, Constants, SMT
  <2>10. ASSUME NEW j \in Keys \ {k} PROVE Held(j)' = Held(j)
    <3>1. \A m : m \in Held(j)' <=> m \in Held(j)
      BY <2>1, <2>7, <2>8, HeldOf, HeldOfNext, Constants, SMT
    <3>2. QED
      BY <3>1
  <2>11. ASSUME NEW j \in Keys \ {k} PROVE KeyInv(j)'
    BY <2>1, <2>2, <2>5, <2>6, <2>10, OtherKey
  <2>12. KeyInv(k)'
    BY <2>1, <2>2, <2>5, <2>6, <2>9, TakenToHeld
  <2>13. FifoInv' /\ HeldInv'
    <3>1. FifoInv'
      BY <2>1, <2>2, <2>8, FifoNext DEF MessageInv, FifoInv
    <3>2. HeldInv'
      BY <2>1 DEF MessageInv, HeldInv
    <3>3. QED
      BY <3>1, <3>2
  <2>14. Unique(dead)' /\ Unique(dropped)' /\ (handled = [j \in Keys |-> handled[j]])'
    BY <2>1 DEF MessageInv, Unique
  <2>15. QED
    BY <2>11, <2>12, <2>13, <2>14 DEF MessageInv
<1>DeliverKeepsMessages. ASSUME Deliver
                         PROVE  MessageInv'
  <2> USE <1>DeliverKeepsMessages
  <2>1. /\ UNCHANGED <<pc, entries, incoming, owner, sent, handled, dropped>> /\ pc = "delivering"
    BY DEF Deliver, state
  (* The next message for the entity just spawned.                           *)
  <2>DeliverTakes. ASSUME NEW k, NEW n, k = fresh.key, n = Head(fresh.rest)
                   PROVE  /\ k \in Keys /\ n \in Message /\ n \in Held(k) /\ Held(k)' = Held(k) \ {n}
                          /\ \A m \in Held(k) \ {n} : n < m
                          /\ \A j \in Keys \ {k} : Held(j)' = Held(j)
                          /\ Increasing(fresh'.rest)
    <3> USE <2>DeliverTakes
    <3>1. /\ pc = "delivering" /\ fresh.rest # <<>> /\ fresh' = [fresh EXCEPT !.rest = Tail(fresh.rest)]
          /\ entries' = entries
      BY DEF Deliver, state
    <3>2. k \in Keys
      BY <3>1 DEF Inv, KnownInv, FreshOk
    <3>3. PICK rest \in Seq(Message) : rest = fresh.rest /\ rest # <<>> /\ Increasing(rest)
      BY <3>1 DEF Inv, TableType, MessageInv, FifoInv
    <3>4. fresh'.rest = Tail(rest) /\ fresh'.key = k
      BY <3>1, <3>3 DEF Inv, TableType
    <3>5. n \in Message /\ n = Head(rest) /\ Tail(rest) \in Seq(Message) /\ rest \in Seq(Item)
      BY <3>3, SMT DEF Item
    <3>6. \A x : x \in Range(rest) <=> x = n \/ x \in Range(Tail(rest))
      BY <3>3, <3>5, RangeTail
    <3>7. \A y \in Range(Tail(rest)) : y \in Message
      <4>1. PICK tail \in Seq(Message) : tail = Tail(rest)
        BY <3>5
      <4>2. \A y \in Range(tail) : y \in Message
        BY RangeOf, SMT
      <4>3. QED
        BY <4>1, <4>2
    <3>8. \A y \in Message : y # Passivate /\ ~(y < y)
      BY SMT DEF Message, Passivate
    <3>9. Increasing(Tail(rest)) /\ \A y \in Range(Tail(rest)) : n < y
      BY <3>3, <3>5, <3>7, <3>8, IncreasingTail
    <3>10. entries[k].buffered = <<>> /\ entries'[k].buffered = <<>>
      BY <3>1, <3>2, HeldOnce
    <3>11. \A m : m \in Held(k) <=> m \in Range(rest)
      BY <3>2, <3>3, <3>10, HeldOf, EmptySequence
    <3>12. \A m : m \in Held(k)' <=> m \in Range(Tail(rest))
      BY <3>2, <3>4, <3>5, <3>10, HeldOfNext, EmptySequence
    <3>13. n \notin Range(Tail(rest))
      BY <3>5, <3>8, <3>9
    <3>14. ASSUME NEW j \in Keys \ {k} PROVE Held(j)' = Held(j)
      BY <3>1, <3>4 DEF Held, Rest
    <3>15. Held(k)' = Held(k) \ {n}
      BY <3>6, <3>11, <3>12, <3>13
    <3>16. \A m \in Held(k) \ {n} : n < m
      BY <3>6, <3>9, <3>11
    <3>17. QED
      BY <3>2, <3>4, <3>5, <3>6, <3>9, <3>11, <3>14, <3>15, <3>16
  <2>2. PICK k \in Keys, n \in Message :
          /\ k = fresh.key /\ n = Head(fresh.rest) /\ n \in Held(k) /\ Held(k)' = Held(k) \ {n}
          /\ \A m \in Held(k) \ {n} : n < m
          /\ \A j \in Keys \ {k} : Held(j)' = Held(j)
          /\ Increasing(fresh'.rest)
    BY <2>DeliverTakes
  <2>3. PICK a \in Actors : a = fresh.actor
    BY <2>1 DEF Inv, KnownInv, FreshOk
  <2>4. At(3, k, n) /\ KeyInv(k)
    BY <2>2, AtIs DEF MessageInv
  <2>5. InOrder(incoming') /\ \A j \in Keys : Queue(j)' = Queue(j)
    BY <2>1, QueueKept DEF MessageInv, FifoInv
  <2>6. HeldInv'
    BY <2>1 DEF MessageInv, HeldInv
  <2>7. \A j : OnLog(dropped, j)' = OnLog(dropped, j) /\ Taken(j)' = Taken(j)
    BY <2>1 DEF OnLog, Taken
  <2>8. Unique(dropped)' /\ (handled = [j \in Keys |-> handled[j]])'
    BY <2>1 DEF MessageInv, Unique
  <2>9. CASE Connected(a)
    <3>1. dead' = dead /\ mailbox' = [mailbox EXCEPT ![a] = Append(mailbox[a], n)]
      BY <2>2, <2>3, <2>9 DEF Deliver, AcceptsForced
    <3>2. owner[a] = k
      <4>1. owner[a] # None
        BY <2>1, <2>3, <2>9, ReachableIsEntity DEF Reachable
      <4>2. QED
        BY <2>1, <2>2, <2>3, <4>1 DEF Inv, KnownInv, FreshOk
    <3>3. /\ \A b \in Actors : Increasing(mailbox'[b])
          /\ \A m : m \in Mail(k)' <=> m = n \/ m \in Mail(k)
          /\ \A j \in Keys \ {k} : Mail(j)' = Mail(j)
      BY <2>1, <2>4, <3>1, <3>2, Told
    <3>4. \A j : OnLog(dead, j)' = OnLog(dead, j)
      BY <3>1 DEF OnLog
    <3>5. ASSUME NEW j \in Keys \ {k} PROVE KeyInv(j)'
      BY <2>1, <2>2, <2>5, <3>3, <3>4, OtherKey
    <3>6. KeyInv(k)'
      <4>1. /\ \A r \in (1 .. 6) \ {3, 2} : \A m \in Message : At(r, k, m)' <=> At(r, k, m)
            /\ \A m \in Message : At(3, k, m)' <=> At(3, k, m) /\ m # n
            /\ \A m \in Message : At(2, k, m)' <=> At(2, k, m) \/ m = n
        BY <2>2, <2>5, <2>7, <3>3, <3>4, AtIs, AtIsNext, SMT
      <4>2. /\ \A r \in 2 + 1 .. 3 - 1 : \A m \in Message : ~At(r, k, m)
            /\ \A m \in Message \ {n} : At(3, k, m) => n < m
        BY <2>2, AtIs, SMT
      <4>3. QED
        BY <2>1, <2>4, <4>1, <4>2, MovedOn, SMT
    <3>7. FifoInv'
      BY <2>1, <2>2, <2>5, <3>3, FifoNext DEF MessageInv, FifoInv
    <3>8. Unique(dead)'
      BY <3>1 DEF MessageInv, Unique
    <3>9. QED
      BY <2>6, <2>8, <3>5, <3>6, <3>7, <3>8 DEF MessageInv
  <2>10. CASE ~Connected(a)
    <3>1. PICK why : DeadLetter(k, n, why) /\ mailbox' = mailbox
      BY <2>2, <2>3, <2>10 DEF Deliver, AcceptsForced
    <3>2. /\ Unique(dead)'
          /\ \A m : m \in OnLog(dead, k)' <=> m \in OnLog(dead, k) \/ m = n
          /\ \A j \in Keys \ {k} : OnLog(dead, j)' = OnLog(dead, j)
      BY <2>4, <3>1, DeadLetterLogged, SMT
    <3>3. \A j \in Keys : Mail(j)' = Mail(j)
      BY <2>1, <3>1, MailStays
    <3>4. ASSUME NEW j \in Keys \ {k} PROVE KeyInv(j)'
      BY <2>1, <2>2, <2>5, <3>2, <3>3, OtherKey
    <3>5. KeyInv(k)'
      <4>1. PICK S : S = {n}
        OBVIOUS
      <4>2. /\ \A r \in (1 .. 6) \ {3, 5} : \A m \in Message : At(r, k, m)' <=> At(r, k, m)
            /\ \A m \in Message : At(3, k, m)' <=> At(3, k, m) /\ m \notin S
            /\ \A m \in Message : At(5, k, m)' <=> At(5, k, m) \/ m \in S
        BY <2>2, <2>5, <2>7, <3>2, <3>3, <4>1, AtIs, AtIsNext, SMT
      <4>3. \A x \in S \cap Message : At(3, k, x)
        BY <2>4, <4>1
      <4>4. QED
        BY <2>1, <2>4, <4>2, <4>3, MovedToLog, SMT
    <3>6. FifoInv'
      BY <2>1, <2>2, <2>5, <3>1, FifoNext DEF MessageInv, FifoInv
    <3>7. QED
      BY <2>6, <2>8, <3>2, <3>4, <3>5, <3>6 DEF MessageInv
  <2>11. QED
    BY <2>9, <2>10
<1>RememberKeepsMessages. ASSUME Remember
                          PROVE  MessageInv'
  <2> USE <1>RememberKeepsMessages
  <2>1. /\ UNCHANGED <<sent, handled, dead, dropped, mailbox, incoming, owner>>
        /\ pc = "delivering" /\ pc' = "ready" /\ fresh.rest = <<>> /\ fresh' = NoEntity
        /\ entries' = [entries EXCEPT ![fresh.key] = Live(fresh.actor)]
    BY DEF Remember, ghosts
  <2>2. fresh.key \in Keys /\ entries[fresh.key].kind = "vacant" /\ entries[fresh.key].buffered = <<>>
    BY <2>1 DEF Inv, KnownInv, FreshOk, MessageInv, HeldInv
  <2>3. ASSUME NEW k \in Keys
        PROVE  /\ entries'[k].buffered = entries[k].buffered
               /\ entries'[k].buffered # <<>> => entries'[k].kind = entries[k].kind
    <3>1. entries'[k] = IF k = fresh.key THEN Live(fresh.actor) ELSE entries[k]
      BY <2>1, <2>2 DEF Inv, TableType
    <3>2. QED
      BY <2>2, <3>1, SMT DEF Live
  <2>4. HeldInv'
    BY <2>1, <2>3 DEF MessageInv, HeldInv, NoEntity
  <2>5. fresh'.rest = <<>> /\ fresh'.key = None
    BY <2>1 DEF NoEntity
  <2>6. ASSUME NEW k \in Keys PROVE Held(k)' = Held(k)
    <3>1. Rest(k)' = {} /\ Rest(k) = {}
      BY <2>1, <2>5, EmptySequence DEF Rest
    <3>2. QED
      BY <2>3, <3>1 DEF Held
  <2>7. \A k \in Keys : Mail(k)' = Mail(k)
    BY <2>1, MailStays
  <2>8. InOrder(incoming') /\ \A k \in Keys : Queue(k)' = Queue(k)
    BY <2>1, QueueKept DEF MessageInv, FifoInv
  <2>9. /\ \A k \in Keys : Increasing(entries'[k].buffered)
        /\ \A a \in Actors : Increasing(mailbox'[a])
        /\ Increasing(fresh'.rest)
    BY <2>1, <2>3, <2>5, EmptySequence DEF MessageInv, FifoInv
  <2>10. QED
    BY <2>1, <2>4, <2>6, <2>7, <2>8, <2>9, QuietStep
<1>AskMovesNoMessage. ASSUME NEW asked, AskToStop(asked), NEW a \in Actors
                      PROVE  /\ Increasing(mailbox'[a])
                             /\ \A n \in Message : n \in Range(mailbox'[a]) <=> n \in Range(mailbox[a])
  <2> USE <1>AskMovesNoMessage
  <2>1. PICK box \in Seq(Item) : box = mailbox[a] /\ Increasing(box)
    BY DEF MailInv, MessageInv, FifoInv
  <2>2. mailbox'[a] = box \/ mailbox'[a] = Append(box, Passivate)
    BY <2>1 DEF AskToStop
  <2>3. Passivate \in Item /\ Passivate \notin Message
    BY SMT DEF Item, Passivate, Message
  <2>4. Increasing(Append(box, Passivate)) /\ Range(Append(box, Passivate)) = Range(box) \cup {Passivate}
    BY <2>1, <2>3, IncreasingAppend, RangeAppend
  <2>5. QED
    BY <2>1, <2>2, <2>3, <2>4
<1>SweepKeepsMessages. ASSUME NEW idle \in SUBSET LiveKeys, Sweep(idle)
                       PROVE  MessageInv'
  <2> USE <1>SweepKeepsMessages
  <2>1. /\ UNCHANGED <<sent, handled, dead, dropped, pc, fresh>>
        /\ AskToStop(Asked(idle)) /\ Receive(Terminated(ticker))
    BY DEF Sweep, ghosts
  <2>2. PICK t \in Actors : Silent(t) /\ owner' = [owner EXCEPT ![t] = None]
    BY FreshIdIsFree DEF Sweep, NextTicker, TickLater, Silent
  <2>3. \A b \in Actors : owner'[b] = owner[b] \/ Range(mailbox[b]) = {}
    BY <2>2, OneGetsOwner, SilentHasNoMail
  <2>4. \A k \in Keys : Mail(k)' = Mail(k)
    BY <2>1, <2>3, <1>AskMovesNoMessage, MailStays
  <2>5. ASSUME NEW k \in Keys
        PROVE  /\ entries'[k].buffered = entries[k].buffered
               /\ entries'[k].buffered # <<>> => entries'[k].kind = entries[k].kind
    <3>1. entries'[k] = IF k \in Asked(idle) THEN Stopping(entries[k].actor) ELSE entries[k]
      BY DEF Sweep, Passivating
    <3>2. k \in Asked(idle) => entries[k].buffered = <<>>
      BY DEF Asked, LiveKeys, MessageInv, HeldInv
    <3>3. QED
      BY <3>1, <3>2, SMT DEF Stopping
  <2>6. \A k \in Keys : Held(k)' = Held(k)
    BY <2>1, <2>5, HeldKept
  <2>7. HeldInv'
    BY <2>1, <2>5 DEF MessageInv, HeldInv, NoEntity
  <2>8. InOrder(incoming') /\ \A k \in Keys : Queue(k)' = Queue(k)
    BY <2>1, SignalReceived
  <2>9. /\ \A k \in Keys : Increasing(entries'[k].buffered)
        /\ \A b \in Actors : Increasing(mailbox'[b])
        /\ Increasing(fresh'.rest)
    BY <2>1, <2>5, <1>AskMovesNoMessage DEF MessageInv, FifoInv
  <2>10. QED
    BY <2>1, <2>4, <2>6, <2>7, <2>8, <2>9, QuietStep
<1>SignalsKeepMessages. ASSUME NEW a \in Actors, TerminatedUnknown(a) \/ TerminatedUnclaimed(a)
                        PROVE  MessageInv'
  <2> USE <1>SignalsKeepMessages
  <2>1. /\ UNCHANGED <<sent, handled, dead, dropped, mailbox, fresh, pc, owner>>
        /\ Receive(Terminated(a))
    BY DEF TerminatedUnknown, TerminatedUnclaimed, ghosts
  <2>2. InOrder(incoming') /\ \A k \in Keys : Queue(k)' = Queue(k)
    BY <2>1, SignalReceived
  <2>3. ASSUME NEW k \in Keys
        PROVE  /\ entries'[k].buffered = entries[k].buffered
               /\ entries'[k].kind = entries[k].kind \/ entries[k].buffered = <<>>
    <3>1. CASE TerminatedUnknown(a)
      BY <3>1 DEF TerminatedUnknown, state
    <3>2. CASE TerminatedUnclaimed(a)
      <4>1. /\ Unclaimed(entries[keys[a]]) /\ keys[a] \in Keys
            /\ entries' = [entries EXCEPT ![keys[a]] = Vacant]
        BY <3>2 DEF TerminatedUnclaimed, Forget, Inv, TableType
      <4>2. entries[keys[a]].buffered = <<>>
        BY <4>1 DEF Unclaimed, MessageInv, HeldInv
      <4>3. entries'[k] = IF k = keys[a] THEN Vacant ELSE entries[k]
        BY <4>1 DEF Inv, TableType
      <4>4. QED
        BY <4>2, <4>3, SMT DEF Vacant
    <3>3. QED
      BY <3>1, <3>2
  <2>4. QED
    BY <2>1, <2>2, <2>3, TablesQuiet
(* The buffer becomes what the next incarnation is to be told.             *)
<1>ClaimedKeepsMessages. ASSUME NEW a \in Actors, TerminatedClaimed(a)
                         PROVE  MessageInv'
  <2> USE <1>ClaimedKeepsMessages
  <2>1. PICK k \in Keys : k = keys[a]
    BY DEF TerminatedClaimed, Inv, TableType
  <2>2. /\ UNCHANGED <<sent, handled, dead, dropped, mailbox>> /\ pc' = "delivering" /\ pc = "ready"
        /\ Receive(Terminated(a)) /\ entries' = [entries EXCEPT ![k] = Vacant]
        /\ fresh' = [key |-> k, actor |-> FreshId, rest |-> entries[k].buffered]
    BY <2>1 DEF TerminatedClaimed, ghosts, SpawnEntity, Forget, Receive
  <2>3. PICK t \in Actors : Silent(t) /\ owner' = [owner EXCEPT ![t] = k]
    BY <2>1, FreshIdIsFree DEF TerminatedClaimed, SpawnEntity, Silent
  <2>4. \A b \in Actors : owner'[b] = owner[b] \/ Range(mailbox[b]) = {}
    BY <2>3, OneGetsOwner, SilentHasNoMail, SMT
  <2>5. \A j \in Keys : Mail(j)' = Mail(j)
    BY <2>2, <2>4, MailStays
  <2>6. fresh = NoEntity /\ fresh'.key = k /\ fresh'.rest = entries[k].buffered
    BY <2>2 DEF MessageInv, HeldInv
  <2>7. fresh.key = None /\ fresh.rest = <<>>
    BY <2>6 DEF NoEntity
  <2>8. entries'[k].buffered = <<>> /\ \A j \in Keys \ {k} : entries'[j] = entries[j]
    BY <2>2 DEF Inv, TableType, Vacant
  <2>9. ASSUME NEW j \in Keys PROVE Held(j)' = Held(j)
    <3>1. fresh'.rest \in Seq(Message)
      BY <2>6 DEF Inv, TableType, Entry
    <3>2. \A n : n \in Held(j)' <=> n \in Held(j)
      <4>1. CASE j = k
        BY <2>6, <2>7, <2>8, <3>1, <4>1, HeldOf, HeldOfNext, EmptySequence, Constants
      <4>2. CASE j # k
        BY <2>6, <2>7, <2>8, <3>1, <4>2, HeldOf, HeldOfNext, Constants, SMT
      <4>3. QED
        BY <4>1, <4>2
    <3>3. QED
      BY <3>2
  <2>10. HeldInv'
    BY <2>2, <2>8 DEF MessageInv, HeldInv
  <2>11. InOrder(incoming') /\ \A j \in Keys : Queue(j)' = Queue(j)
    BY <2>2, SignalReceived
  <2>12. /\ \A j \in Keys : Increasing(entries'[j].buffered)
         /\ \A b \in Actors : Increasing(mailbox'[b])
         /\ Increasing(fresh'.rest)
    BY <2>2, <2>6, <2>8, EmptySequence DEF MessageInv, FifoInv
  <2>13. QED
    BY <2>2, <2>5, <2>9, <2>10, <2>11, <2>12, QuietStep
<1>3. CASE HostStep
  BY <1>3, <1>HostInitKeepsMessages, <1>RouteLiveKeepsMessages, <1>RouteStoppingKeepsMessages,
     <1>RouteVacantKeepsMessages, <1>DeliverKeepsMessages, <1>RememberKeepsMessages, <1>SweepKeepsMessages,
     <1>SignalsKeepMessages, <1>ClaimedKeepsMessages DEF HostStep
<1>FailureKeepsMessages. ASSUME Failure
                         PROVE  MessageInv'
  <2> USE <1>FailureKeepsMessages
  <2>FailKeepsMessages. ASSUME NEW k, NEW E, Dropping(k, E)
                        PROVE  MessageInv'
    <3> USE <2>FailKeepsMessages
    <3>1. /\ UNCHANGED <<fresh, sent, handled, dead>> /\ pc' = "starting"
          /\ \A j \in Keys : entries'[j].buffered = <<>> /\ entries'[j].kind = "vacant"
      BY DEF Dropping, Fail, Vacant
    <3>2. fresh = NoEntity /\ fresh.key = None
      <4>1. pc = "ready"
        BY DEF Dropping
      <4>2. QED
        BY <4>1, SMT DEF MessageInv, HeldInv, NoEntity
    <3>3. Unique(dropped)'
      BY FailLogs DEF Dropping
    <3>4. \A j \in Keys : \A m : m \in OnLog(dropped, j)' <=>
            m \in OnLog(dropped, j) \/ m \in Range(entries[j].buffered) \/ (j = k /\ m \in E)
      BY FailLogs DEF Dropping
    <3>5. \A j : OnLog(dead, j)' = OnLog(dead, j) /\ Taken(j)' = Taken(j)
      BY <3>1 DEF OnLog, Taken
    <3>6. FifoInv'
      <4>1. InOrder(incoming') /\ \A a \in Actors : Increasing(mailbox'[a])
        BY DEF Dropping
      <4>2. QED
        BY <3>1, <4>1, EmptySequence, FifoNext DEF MessageInv, FifoInv
    <3>7. HeldInv' /\ Unique(dead)' /\ (handled = [j \in Keys |-> handled[j]])'
      BY <3>1, <3>2 DEF MessageInv, HeldInv, Unique, NoEntity
    <3>8. ASSUME NEW j \in Keys
          PROVE  (\A m : m \in Range(entries[j].buffered) <=> m \in Held(j)) /\ Held(j)' = {}
      <4>1. \A m : m \in Range(entries[j].buffered) <=> m \in Held(j)
        BY <3>2, HeldOf, Constants
      <4>2. Rest(j)' = {}
        BY <3>1, <3>2, Constants DEF Rest
      <4>3. Held(j)' = {}
        BY <3>1, <4>2, EmptySequence DEF Held
      <4>4. QED
        BY <4>1, <4>3
    <3>9. ASSUME NEW j \in Keys PROVE KeyInv(j)'
      <4>1. KeyInv(j) /\ sent'[j] = sent[j] /\ Mail(j)' = Mail(j)
        BY <3>1 DEF MessageInv, Dropping
      <4>2. \A m : m \in Queue(j)' <=> m \in Queue(j) /\ ~(j = k /\ m \in E)
        BY DEF Dropping
      <4>3. CASE j = k /\ E # {}
        <5>1. entries[j].kind = "vacant" /\ \A n \in E : n \in Queue(j)
          BY <4>3 DEF Dropping
        <5>2. entries[j].buffered = <<>>
          BY <5>1 DEF MessageInv, HeldInv
        <5>3. \A m : m \notin Range(entries[j].buffered)
          BY <5>2, EmptySequence
        <5>4. \A m : m \in OnLog(dropped, j)' <=> m \in OnLog(dropped, j) \/ m \in E
          BY <3>4, <4>3, <5>3
        <5>5. \A m : m \in Held(j)' <=> m \in Held(j)
          BY <3>8, <5>3
        <5>6. \A m : m \in Queue(j)' <=> m \in Queue(j) /\ m \notin E
          BY <4>2, <4>3
        <5>7. QED
          BY <3>5, <4>1, <5>1, <5>4, <5>5, <5>6, QueuedToDropped
      <4>4. CASE ~(j = k /\ E # {})
        <5>1. PICK S : \A m : m \in S <=> m \in Range(entries[j].buffered)
          OBVIOUS
        <5>2. \A m : m \in OnLog(dropped, j)' <=> m \in OnLog(dropped, j) \/ m \in S
          BY <3>4, <4>4, <5>1
        <5>3. \A m : m \in Queue(j)' <=> m \in Queue(j)
          BY <4>2, <4>4
        <5>4. (\A m : m \in S <=> m \in Held(j)) /\ \A m : m \notin Held(j)'
          BY <3>8, <5>1
        <5>5. QED
          BY <3>5, <4>1, <5>2, <5>3, <5>4, HeldToDropped
      <4>5. QED
        BY <4>3, <4>4
    <3>10. QED
      BY <3>3, <3>6, <3>7, <3>9 DEF MessageInv
  <2>1. ASSUME NEW k \in Keys, NEW n \in Message, RouteFails(k, n) PROVE MessageInv'
    <3>1. /\ Receive(Envelope(k, n)) /\ entries[k].kind = "vacant" /\ pc = "ready"
          /\ Fail(Lost(k, {n}, "host failed")) /\ UNCHANGED <<mailbox, owner>>
      BY <2>1 DEF RouteFails, Receive, Fail
    <3>2. /\ InOrder(incoming') /\ n \in Queue(k) /\ Queue(k)' = Queue(k) \ {n}
          /\ \A j \in Keys \ {k} : Queue(j)' = Queue(j)
      BY <3>1, MessageReceived
    <3>3. \A j \in Keys : Mail(j)' = Mail(j)
      BY <3>1, MailStays
    <3>4. \A a \in Actors : Increasing(mailbox'[a])
      BY <3>1 DEF MessageInv, FifoInv
    <3>5. PICK E : E = {n} /\ Fail(Lost(k, E, "host failed"))
      BY <3>1
    <3>6. \A m \in E : k \in Keys /\ m \in Message /\ m \in Queue(k) /\ entries[k].kind = "vacant"
      BY <3>1, <3>2, <3>5
    <3>7. \A j \in Keys : \A m : m \in Queue(j)' <=> m \in Queue(j) /\ ~(j = k /\ m \in E)
      BY <3>2, <3>5
    <3>8. QED
      <4>1. Dropping(k, E)
        BY <3>1, <3>2, <3>3, <3>4, <3>5, <3>6, <3>7 DEF Dropping
      <4>2. QED
        BY <4>1, <2>FailKeepsMessages
  <2>2. ASSUME pc = "ready", Fail({}), InOrder(incoming'), \A j \in Keys : Queue(j)' = Queue(j),
               \A j \in Keys : Mail(j)' = Mail(j), \A a \in Actors : Increasing(mailbox'[a])
        PROVE  MessageInv'
    <3>1. PICK k, E : E = {} /\ Fail(Lost(k, E, "host failed"))
      <4>1. Lost(None, {}, "host failed") = {}
        BY DEF Lost
      <4>2. Fail(Lost(None, {}, "host failed"))
        BY <2>2, <4>1
      <4>3. QED
        BY <4>2
    <3>2. /\ \A m \in E : k \in Keys /\ m \in Message /\ m \in Queue(k) /\ entries[k].kind = "vacant"
          /\ \A j \in Keys : \A m : m \in Queue(j)' <=> m \in Queue(j) /\ ~(j = k /\ m \in E)
      BY <2>2, <3>1
    <3>3. QED
      <4>1. Dropping(k, E)
        BY <2>2, <3>1, <3>2 DEF Dropping
      <4>2. QED
        BY <4>1, <2>FailKeepsMessages
  <2>3. ASSUME NEW a \in Actors, ReplaceFails(a) PROVE MessageInv'
    <3>1. Receive(Terminated(a)) /\ pc = "ready" /\ Fail({}) /\ UNCHANGED <<mailbox, owner>>
      BY <2>3 DEF ReplaceFails, Receive, Fail
    <3>2. InOrder(incoming') /\ \A j \in Keys : Queue(j)' = Queue(j)
      BY <3>1, SignalReceived
    <3>3. \A j \in Keys : Mail(j)' = Mail(j)
      BY <3>1, MailStays
    <3>4. \A b \in Actors : Increasing(mailbox'[b])
      BY <3>1 DEF MessageInv, FifoInv
    <3>5. QED
      BY <2>2, <3>1, <3>2, <3>3, <3>4
  <2>4. ASSUME NEW idle \in SUBSET LiveKeys, SweepFails(idle) PROVE MessageInv'
    <3>1. /\ Receive(Terminated(ticker)) /\ pc = "ready" /\ Fail({}) /\ UNCHANGED owner
          /\ AskToStop(Asked(idle))
      BY <2>4 DEF SweepFails, Receive, Fail
    <3>2. InOrder(incoming') /\ \A j \in Keys : Queue(j)' = Queue(j)
      BY <3>1, SignalReceived
    <3>3. \A j \in Keys : Mail(j)' = Mail(j)
      BY <3>1, <1>AskMovesNoMessage, MailStays
    <3>4. \A b \in Actors : Increasing(mailbox'[b])
      BY <3>1, <1>AskMovesNoMessage
    <3>5. QED
      BY <2>2, <3>1, <3>2, <3>3, <3>4
  <2>5. QED
    BY <2>1, <2>3, <2>4 DEF Failure
<1>4. CASE Failure
  BY <1>4, <1>FailureKeepsMessages
<1>StopsKeepMessages. ASSUME NEW a \in Actors,
                             StopAlone(a) \/ StoppedByParent(a) \/ End(a) \/ Tick(a)
                      PROVE  MessageInv'
  <2> USE <1>StopsKeepMessages
  <2>1. UNCHANGED <<sent, handled, dead, dropped, mailbox, fresh, pc, entries>>
    BY DEF StopAlone, StoppedByParent, End, Tick, Ended, ghosts, state
  <2>2. CASE StopAlone(a) \/ StoppedByParent(a)
    <3>1. UNCHANGED <<incoming, owner>>
      BY <2>2 DEF StopAlone, StoppedByParent
    <3>2. InOrder(incoming') /\ \A k \in Keys : Queue(k)' = Queue(k)
      BY <3>1, QueueKept DEF MessageInv, FifoInv
    <3>3. QED
      BY <2>1, <3>1, <3>2, TablesQuiet
  <2>3. CASE End(a) \/ Tick(a)
    <3>1. incoming' = Append(incoming, Terminated(a)) /\ owner' = [owner EXCEPT ![a] = None] /\ Silent(a)
      BY <2>3 DEF End, Tick, Ended, Silent
    <3>2. \A b \in Actors : owner'[b] = owner[b] \/ Silent(b)
      BY <3>1, OneGetsOwner
    <3>3. InOrder(incoming') /\ \A k \in Keys : Queue(k)' = Queue(k)
      BY <3>1, SignalAppended
    <3>4. QED
      BY <2>1, <3>2, <3>3, TablesQuiet
  <2>4. QED
    BY <2>2, <2>3
<1>HandleKeepsMessages. ASSUME NEW a \in Actors, Handle(a)
                        PROVE  MessageInv'
  <2> USE <1>HandleKeepsMessages
  <2>1. /\ UNCHANGED <<pc, entries, fresh, incoming, owner, sent, dead, dropped>>
        /\ mailbox[a] # <<>> /\ Head(mailbox[a]) # Passivate /\ life[a] = "running"
        /\ mailbox' = [mailbox EXCEPT ![a] = Tail(mailbox[a])]
    BY DEF Handle, state
  <2>2. PICK k \in Keys : k = owner[a]
    <3>1. ~Silent(a)
      BY <2>1, SilentHasNoMail
    <3>2. QED
      BY <3>1 DEF Silent, Inv, TableType
  <2>3. PICK box \in Seq(Item) : box = mailbox[a] /\ Increasing(box)
    BY DEF MailInv, MessageInv, FifoInv
  <2>4. PICK n \in Message : n = Head(box)
    <3>1. Head(box) \in Item
      BY <2>1, <2>3, SMT
    <3>2. QED
      BY <2>1, <2>3, <3>1, MessageIsNat
  <2>5. mailbox'[a] = Tail(box) /\ \A b \in Actors \ {a} : mailbox'[b] = mailbox[b]
    BY <2>1, <2>3 DEF MailInv
  <2>6. /\ \A x : x \in Range(box) <=> x = n \/ x \in Range(Tail(box))
        /\ Increasing(Tail(box)) /\ \A y \in Range(Tail(box)) : n < y \/ y = Passivate
    BY <2>1, <2>3, <2>4, RangeTail, IncreasingTail
  <2>7. \A m \in Message : m # Passivate /\ ~(m < m)
    BY SMT DEF Message, Passivate
  <2>8. /\ \A m : m \in Mail(k)' <=> m \in Message /\ m \in Range(Tail(box))
        /\ \A j \in Keys \ {k} : Mail(j)' = Mail(j)
    BY <2>1, <2>2, <2>5, MailOfOneChanges
  <2>9. \A m : m \in Mail(k) <=> m \in Message /\ m \in Range(box)
    BY <2>2, <2>3, MailOfEntity
  <2>10. /\ n \in Mail(k) /\ \A m \in Mail(k) \ {n} : n < m
         /\ \A m : m \in Mail(k)' <=> m \in Mail(k) /\ m # n
    BY <2>6, <2>7, <2>8, <2>9
  <2>11. KeyInv(k) /\ At(2, k, n)
    BY <2>10, AtIs DEF MessageInv
  <2>12. PICK old \in Seq(Message) : old = handled[k] /\ Increasing(old)
    BY DEF MessageInv, FifoInv
  <2>13. PICK new : new = Append(old, n)
    OBVIOUS
  <2>14. /\ handled' = [handled EXCEPT ![k] = new]
         /\ handled'[k] = new /\ \A j \in Keys \ {k} : handled'[j] = handled[j]
         /\ (handled = [j \in Keys |-> handled[j]])'
    <3>1. handled' = [handled EXCEPT ![k] = new]
      BY <2>2, <2>3, <2>4, <2>12, <2>13 DEF Handle
    <3>2. handled = [j \in Keys |-> handled[j]]
      BY DEF MessageInv
    <3>3. QED
      BY <3>1, <3>2
  <2>15. new \in Seq(Message) /\ Range(new) = Range(old) \cup {n}
    BY <2>13, RangeAppend, SMT
  <2>16. Increasing(new)
    <3>1. ASSUME NEW y \in Range(old) PROVE y < n
      <4>1. y \in Message /\ At(1, k, y)
        BY <2>12, <3>1, RangeOf, AtIs, SMT DEF Taken
      <4>2. QED
        BY <2>11, <4>1, Earlier, SMT
    <3>2. old \in Seq(Item) /\ n \in Item
      BY SMT DEF Item
    <3>3. QED
      BY <2>12, <2>13, <3>1, <3>2, IncreasingAppend
  <2>17. Taken(k)' = Taken(k) \cup {n} /\ \A j \in Keys \ {k} : Taken(j)' = Taken(j)
    BY <2>12, <2>14, <2>15 DEF Taken
  <2>18. \A j \in Keys : Held(j)' = Held(j) /\ Queue(j)' = Queue(j)
    BY <2>1, HeldKept, QueueKept
  <2>19. \A j : OnLog(dead, j)' = OnLog(dead, j) /\ OnLog(dropped, j)' = OnLog(dropped, j)
    BY <2>1, LogsKept
  <2>20. ASSUME NEW j \in Keys \ {k} PROVE KeyInv(j)'
    BY <2>1, <2>8, <2>17, <2>18, <2>19, PlacesSame DEF MessageInv
  <2>21. KeyInv(k)'
    <3>1. /\ \A r \in (1 .. 6) \ {2, 1} : \A m \in Message : At(r, k, m)' <=> At(r, k, m)
          /\ \A m \in Message : At(2, k, m)' <=> At(2, k, m) /\ m # n
          /\ \A m \in Message : At(1, k, m)' <=> At(1, k, m) \/ m = n
      BY <2>10, <2>17, <2>18, <2>19, AtIs, AtIsNext, SMT
    <3>2. /\ \A r \in 1 + 1 .. 2 - 1 : \A m \in Message : ~At(r, k, m)
          /\ \A m \in Message \ {n} : At(2, k, m) => n < m
      BY <2>10, AtIs, SMT
    <3>3. QED
      BY <2>1, <2>11, <3>1, <3>2, MovedOn, SMT
  <2>22. FifoInv'
    <3>1. \A j \in Keys : handled'[j] \in Seq(Message) /\ Increasing(handled'[j])
      BY <2>14, <2>15, <2>16 DEF MessageInv, FifoInv
    <3>2. \A b \in Actors : Increasing(mailbox'[b])
      BY <2>5, <2>6 DEF MessageInv, FifoInv
    <3>3. QED
      BY <2>1, <3>1, <3>2, FifoNext DEF MessageInv, FifoInv
  <2>23. HeldInv' /\ Unique(dead)' /\ Unique(dropped)'
    BY <2>1 DEF MessageInv, HeldInv, Unique, NoEntity
  <2>24. QED
    BY <2>14, <2>20, <2>21, <2>22, <2>23 DEF MessageInv
<1>HandlePassivateKeepsMessages. ASSUME NEW a \in Actors, HandlePassivate(a)
                                 PROVE  MessageInv'
  <2> USE <1>HandlePassivateKeepsMessages
  <2>1. /\ UNCHANGED <<sent, handled, dead, dropped, incoming, owner, pc, entries, fresh>>
        /\ mailbox' = [mailbox EXCEPT ![a] = Tail(mailbox[a])]
        /\ mailbox[a] # <<>> /\ Head(mailbox[a]) = Passivate
    BY DEF HandlePassivate, ghosts, state
  <2>2. PICK box \in Seq(Item) : box = mailbox[a] /\ Increasing(box)
    BY DEF MailInv, MessageInv, FifoInv
  <2>3. mailbox'[a] = Tail(box) /\ \A b \in Actors \ {a} : mailbox'[b] = mailbox[b]
    BY <2>1, <2>2 DEF MailInv
  <2>4. Increasing(Tail(box)) /\ \A x : x \in Range(box) <=> x = Passivate \/ x \in Range(Tail(box))
    BY <2>1, <2>2, IncreasingTail, RangeTail
  <2>5. Passivate \notin Message
    BY SMT DEF Passivate, Message
  <2>6. \A b \in Actors : \A n \in Message : n \in Range(mailbox'[b]) <=> n \in Range(mailbox[b])
    BY <2>2, <2>3, <2>4, <2>5
  <2>7. \A k \in Keys : Mail(k)' = Mail(k)
    BY <2>1, <2>6, MailStays
  <2>8. \A k \in Keys : Held(k)' = Held(k) /\ Queue(k)' = Queue(k)
    BY <2>1, HeldKept, QueueKept
  <2>9. HeldInv' /\ InOrder(incoming')
    BY <2>1 DEF MessageInv, HeldInv, NoEntity, FifoInv
  <2>10. /\ \A k \in Keys : Increasing(entries'[k].buffered)
         /\ \A b \in Actors : Increasing(mailbox'[b])
         /\ Increasing(fresh'.rest)
    BY <2>1, <2>3, <2>4 DEF MessageInv, FifoInv
  <2>11. QED
    BY <2>1, <2>7, <2>8, <2>9, <2>10, QuietStep
(* The messages of a mailbox are dropped with it.                          *)
<1>CloseKeepsMessages. ASSUME NEW a \in Actors, Close(a)
                       PROVE  MessageInv'
  <2> USE <1>CloseKeepsMessages
  <2>1. /\ UNCHANGED <<pc, entries, fresh, incoming, owner, sent, handled, dead>>
        /\ mailbox' = [mailbox EXCEPT ![a] = <<>>]
        /\ dropped' = dropped \cup Lost(owner[a], Range(mailbox[a]) \ {Passivate}, life[a])
    BY DEF Close, state
  <2>2. PICK box : box \in Seq(Item) /\ box = mailbox[a]
    BY DEF MailInv
  <2>3. PICK S : S = Range(box) \ {Passivate} /\ \A m \in S : m \in Message
    <3>1. \A y \in Range(box) : y \in Item
      BY <2>2, RangeOf, SMT
    <3>2. QED
      BY <3>1 DEF Item
  <2>4. mailbox'[a] = <<>> /\ \A b \in Actors \ {a} : mailbox'[b] = mailbox[b]
    BY <2>1 DEF MailInv
  <2>5. \A j \in Keys : Held(j)' = Held(j) /\ Queue(j)' = Queue(j) /\ Taken(j)' = Taken(j)
    BY <2>1, HeldKept, QueueKept, TakenKept
  <2>6. HeldInv' /\ Unique(dead)' /\ (handled = [j \in Keys |-> handled[j]])'
    BY <2>1 DEF MessageInv, HeldInv, Unique, NoEntity
  <2>7. FifoInv'
    BY <2>1, <2>4, EmptySequence, FifoNext DEF MessageInv, FifoInv
  <2>8. \A j : OnLog(dead, j)' = OnLog(dead, j)
    BY <2>1 DEF OnLog
  <2>9. PICK why, more : why = life[a] /\ more = dropped'
    OBVIOUS
  <2>10. \A j : OnLog(dropped, j)' = OnLog(more, j)
    BY <2>9 DEF OnLog
  <2>11. CASE owner[a] = None
    <3>1. S = {} /\ mailbox[a] = <<>>
      BY <2>2, <2>3, <2>11, SilentHasNoMail DEF Silent
    <3>2. dropped' = dropped
      BY <2>1, <2>2, <2>3, <3>1 DEF Lost
    <3>3. \A b \in Actors : mailbox'[b] = mailbox[b]
      BY <2>4, <3>1
    <3>4. \A j \in Keys : Mail(j)' = Mail(j)
      BY <2>1, <3>3, MailStays
    <3>5. ASSUME NEW j \in Keys PROVE KeyInv(j)'
      BY <2>1, <2>5, <2>8, <3>2, <3>4, OtherKey
    <3>6. Unique(dropped)'
      BY <3>2 DEF MessageInv, Unique
    <3>7. QED
      BY <2>6, <2>7, <3>5, <3>6 DEF MessageInv
  <2>12. CASE owner[a] # None
    <3>1. PICK k \in Keys : k = owner[a]
      BY <2>12 DEF Inv, TableType
    <3>2. \A m : m \in Mail(k) <=> m \in Message /\ m \in Range(box)
      BY <2>2, <3>1, MailOfEntity
    <3>3. (\A m : m \notin Mail(k)') /\ \A j \in Keys \ {k} : Mail(j)' = Mail(j)
      BY <2>1, <2>4, <3>1, MailOfOneChanges, EmptySequence
    <3>4. \A m : m \in S <=> m \in Mail(k)
      BY <2>3, <3>2, SMT DEF Passivate, Message
    <3>5. ASSUME NEW m \in S PROVE m \in Message /\ m \notin OnLog(dropped, k)
      <4>1. m \in Message /\ At(2, k, m)
        BY <2>3, <3>4, AtIs
      <4>2. ~At(6, k, m)
        BY <4>1, OnePlace, SMT
      <4>3. QED
        BY <4>1, <4>2, AtIs
    <3>6. more = dropped \cup Lost(k, S, why) /\ Unique(dropped)
      BY <2>1, <2>2, <2>3, <2>9, <3>1 DEF MessageInv
    <3>7. /\ Unique(more)
          /\ \A j : \A m : m \in OnLog(more, j) <=> m \in OnLog(dropped, j) \/ (j = k /\ m \in S)
      <4>1. PICK log : log = dropped /\ Logs(log, more, k, S, why) /\ Unique(log)
        BY <3>6 DEF Logs
      <4>2. \A m \in S : m \in Message /\ m \notin OnLog(log, k)
        BY <3>5, <4>1
      <4>3. /\ Unique(more)
            /\ \A j : \A m : m \in OnLog(more, j) <=> m \in OnLog(log, j) \/ (j = k /\ m \in S)
        BY <4>1, <4>2, Logged, SMT
      <4>4. QED
        BY <4>1, <4>3
    <3>8. Unique(dropped)'
      BY <2>9, <3>7 DEF Unique
    <3>9. ASSUME NEW j \in Keys \ {k} PROVE KeyInv(j)'
      <4>1. OnLog(dropped, j)' = OnLog(dropped, j)
        BY <2>10, <3>7
      <4>2. QED
        BY <2>1, <2>5, <2>8, <3>3, <4>1, PlacesSame DEF MessageInv
    <3>10. KeyInv(k)'
      <4>1. \A m : m \in OnLog(dropped, k)' <=> m \in OnLog(dropped, k) \/ m \in S
        BY <2>10, <3>7
      <4>2. /\ \A r \in (1 .. 6) \ {2, 6} : \A m \in Message : At(r, k, m)' <=> At(r, k, m)
            /\ \A m \in Message : At(2, k, m)' <=> At(2, k, m) /\ m \notin S
            /\ \A m \in Message : At(6, k, m)' <=> At(6, k, m) \/ m \in S
        BY <2>5, <2>8, <3>3, <3>4, <4>1, AtIs, AtIsNext, SMT
      <4>3. (\A x \in S \cap Message : At(2, k, x)) /\ KeyInv(k) /\ sent'[k] = sent[k]
        BY <2>1, <3>4, AtIs DEF MessageInv
      <4>4. QED
        BY <4>2, <4>3, MovedToLog, SMT
    <3>11. QED
      BY <2>6, <2>7, <3>8, <3>9, <3>10 DEF MessageInv
  <2>13. QED
    BY <2>11, <2>12
<1>5. ASSUME NEW a \in Actors, StopAlone(a) \/ ChildStep(a) PROVE MessageInv'
  BY <1>5, <1>StopsKeepMessages, <1>HandleKeepsMessages, <1>HandlePassivateKeepsMessages, <1>CloseKeepsMessages
     DEF ChildStep
<1>6. QED
  BY <1>1, <1>2, <1>3, <1>4, <1>5 DEF Next

LEMMA InitMessage == Init => MessageInv
<1> SUFFICES ASSUME Init PROVE MessageInv
  OBVIOUS
<1>1. /\ incoming = <<>> /\ dead = {} /\ dropped = {} /\ fresh = NoEntity /\ sent = [k \in Keys |-> 0]
      /\ entries = [k \in Keys |-> Vacant] /\ mailbox = [a \in Actors |-> <<>>]
      /\ handled = [k \in Keys |-> <<>>] /\ owner = [a \in Actors |-> None]
  BY DEF Init
<1>2. fresh.key = None /\ fresh.rest = <<>> /\ \A k \in Keys : entries[k].buffered = <<>>
  BY <1>1 DEF NoEntity, Vacant
<1>3. FifoInv
  BY <1>1, <1>2, EmptySequence, SMT DEF FifoInv
<1>4. HeldInv
  BY <1>1, <1>2 DEF HeldInv
<1>5. Unique(dead) /\ Unique(dropped)
  BY <1>1 DEF Unique
<1>6. ASSUME NEW k \in Keys PROVE KeyInv(k)
  <2>1. Taken(k) = {} /\ Held(k) = {} /\ Queue(k) = {}
    BY <1>1, <1>2, EmptySequence, Constants DEF Taken, Held, Rest, Queue
  <2>2. Mail(k) = {} /\ OnLog(dead, k) = {} /\ OnLog(dropped, k) = {}
    BY <1>1, EmptySequence DEF Mail, OnLog
  <2>3. \A p \in 1 .. 6 : \A n : ~At(p, k, n)
    BY <2>1, <2>2 DEF At
  <2>4. \A n \in Message : ~(n <= sent[k])
    BY <1>1, SMT DEF Message
  <2>5. \A p \in 1 .. 4 : p \in 1 .. 6
    BY SMT
  <2>6. QED
    BY <2>3, <2>4, <2>5 DEF KeyInv
<1>7. handled = [k \in Keys |-> handled[k]]
  BY <1>1
<1>8. QED
  BY <1>3, <1>4, <1>5, <1>6, <1>7 DEF MessageInv

(* Every message sent to a host is in one place, and further on than those *)
(* sent later for its key.                                                 *)
THEOREM MessageInvariant == Spec => []MessageInv
BY InitMessage, NextMessage, HostInvariant, MailInvariant, PTL DEF Spec

(* The entities of a key take the messages of one sender in the order in   *)
(* which they were sent, across passivations, stops and restarts: route    *)
(* appends to the buffer, terminated hands it over to the next incarnation *)
(* before the host takes its next message, and a mailbox is a queue.       *)
THEOREM SenderOrderKept == Spec => []SenderOrder
<1>1. MessageInv => SenderOrder
  <2> SUFFICES ASSUME MessageInv, NEW k \in Keys,
                      NEW i \in DOMAIN handled[k], NEW j \in DOMAIN handled[k], i < j
               PROVE  handled[k][i] < handled[k][j]
    BY DEF SenderOrder
  <2>1. handled[k] \in Seq(Message) /\ Increasing(handled[k])
    BY DEF MessageInv, FifoInv
  <2>2. handled[k][j] \in Message
    BY <2>1, SMT
  <2>3. QED
    BY <2>1, <2>2, SMT DEF Increasing, Message, Passivate
<1>2. QED
  BY <1>1, MessageInvariant, PTL

----------------------------------------------------------------------------
(* What was buffered.                                                      *)

(* What was buffered is past route, and a dead letter only if nobody was   *)
(* there.                                                                  *)
AcceptedInv ==
    /\ \A k \in Keys : \A n \in Message : <<k, n>> \in accepted => n <= sent[k] /\ n \notin Queue(k)
    /\ \A r \in dead : <<r.key, r.message>> \in accepted => r.why = "entity terminated"

LEMMA QueueShrinks ==
    ASSUME Inv, NEW item, Receive(item), NEW k \in Keys, NEW n \in Queue(k)'
    PROVE  n \in Queue(k)
<1>1. n \in Message /\ Envelope(k, n) \in Range(incoming')
  BY DEF Queue, Envelope
<1>2. Envelope(k, n) \in Range(incoming)
  BY <1>1, ReceiveRange
<1>3. QED
  BY <1>1, <1>2 DEF Queue

LEMMA AcceptedKept ==
    ASSUME AcceptedInv, UNCHANGED <<accepted, dead, sent>>,
           \A k \in Keys : \A n : n \in Queue(k)' => n \in Queue(k)
    PROVE  AcceptedInv'
<1>1. ASSUME NEW k \in Keys, NEW n \in Message, <<k, n>> \in accepted' PROVE n <= sent'[k] /\ n \notin Queue(k)'
  BY <1>1 DEF AcceptedInv
<1>2. \A r \in dead' : <<r.key, r.message>> \in accepted' => r.why = "entity terminated"
  BY DEF AcceptedInv
<1>3. QED
  BY <1>1, <1>2 DEF AcceptedInv

LEMMA QuietAccepted ==
    ASSUME Inv, MessageInv, AcceptedInv,
           \/ UNCHANGED vars
           \/ HostInit \/ Remember
           \/ \E k \in Keys, n \in Message : RouteVacant(k, n) \/ RouteFails(k, n)
           \/ \E idle \in SUBSET LiveKeys : Sweep(idle) \/ SweepFails(idle)
           \/ \E a \in Actors : TerminatedUnknown(a) \/ TerminatedUnclaimed(a) \/ TerminatedClaimed(a)
           \/ \E a \in Actors : ReplaceFails(a)
           \/ \E a \in Actors : StopAlone(a) \/ ChildStep(a)
    PROVE  AcceptedInv'
<1>1. UNCHANGED <<accepted, dead, sent>>
  BY DEF vars, ghosts, HostInit, Remember, RouteVacant, RouteFails, Sweep, SweepFails, Fail,
         TerminatedUnknown, TerminatedUnclaimed, TerminatedClaimed, ReplaceFails, StopAlone, ChildStep,
         Handle, HandlePassivate, StoppedByParent, Close, End, Tick, Ended
<1>2. \/ incoming' = incoming
      \/ \E item : Receive(item)
      \/ \E a : incoming' = Append(incoming, Terminated(a))
  BY DEF vars, HostInit, Remember, RouteVacant, RouteFails, Sweep, SweepFails,
         TerminatedUnknown, TerminatedUnclaimed, TerminatedClaimed, ReplaceFails, StopAlone, ChildStep,
         Handle, HandlePassivate, StoppedByParent, Close, End, Tick, Ended
<1>3. ASSUME NEW k \in Keys, NEW n, n \in Queue(k)' PROVE n \in Queue(k)
  BY <1>2, <1>3, QueueKept, QueueShrinks, SignalAppended
<1>4. QED
  BY <1>1, <1>3, AcceptedKept

LEMMA SendAccepted ==
    ASSUME Inv, MessageInv, AcceptedInv, NEW k \in Keys, Send(k)
    PROVE  AcceptedInv'
<1>1. /\ UNCHANGED <<accepted, dead>> /\ sent' = [sent EXCEPT ![k] = sent[k] + 1]
      /\ incoming' = Append(incoming, Envelope(k, sent[k] + 1))
  BY DEF Send, ghosts
<1>2. PICK x : x = sent[k] + 1 /\ sent[k] \in Nat /\ sent'[k] = x /\ \A j \in Keys \ {k} : sent'[j] = sent[j]
  BY <1>1, SMT DEF Inv, TableType
<1>3. Range(incoming') = Range(incoming) \cup {Envelope(k, x)}
  BY <1>1, <1>2, RangeAppend DEF Inv, TableType
<1>4. ASSUME NEW j \in Keys, NEW n \in Message, <<j, n>> \in accepted PROVE n <= sent'[j] /\ n \notin Queue(j)'
  <2>0. n \in Nat
    BY SMT DEF Message
  <2>1. n <= sent[j] /\ n \notin Queue(j)
    BY <1>4 DEF AcceptedInv
  <2>2. n <= sent'[j] /\ ~(j = k /\ n = x)
    BY <1>2, <2>0, <2>1, SMT
  <2>3. Envelope(j, n) \notin Range(incoming)
    BY <2>1 DEF Queue
  <2>4. Envelope(j, n) # Envelope(k, x)
    BY <2>2, ItemsDiffer, SMT
  <2>5. Envelope(j, n) \notin Range(incoming')
    BY <1>3, <2>3, <2>4
  <2>6. n \notin Queue(j)'
    BY <2>5 DEF Queue, Envelope
  <2>7. QED
    BY <2>2, <2>6
<1>5. \A r \in dead' : <<r.key, r.message>> \in accepted' => r.why = "entity terminated"
  BY <1>1 DEF AcceptedInv
<1>6. QED
  BY <1>1, <1>4, <1>5 DEF AcceptedInv

(* A dead letter was not buffered, or nobody was there.                    *)
LEMMA DeadAccepted ==
    ASSUME AcceptedInv, UNCHANGED <<accepted, sent>>, NEW k, NEW n, NEW why, DeadLetter(k, n, why),
           <<k, n>> \in accepted => why = "entity terminated",
           \A j \in Keys : \A m : m \in Queue(j)' => m \in Queue(j)
    PROVE  AcceptedInv'
<1>1. ASSUME NEW j \in Keys, NEW m \in Message, <<j, m>> \in accepted' PROVE m <= sent'[j] /\ m \notin Queue(j)'
  BY <1>1 DEF AcceptedInv
<1>2. ASSUME NEW r \in dead', <<r.key, r.message>> \in accepted' PROVE r.why = "entity terminated"
  <2>1. CASE r \in dead
    BY <1>2, <2>1 DEF AcceptedInv
  <2>2. CASE r = [key |-> k, message |-> n, why |-> why]
    BY <1>2, <2>2
  <2>3. QED
    BY <2>1, <2>2 DEF DeadLetter
<1>3. QED
  BY <1>1, <1>2 DEF AcceptedInv

LEMMA RoutedAccepted ==
    ASSUME Inv, MessageInv, AcceptedInv, NEW k \in Keys, NEW n \in Message,
           RouteLive(k, n) \/ RouteStopping(k, n)
    PROVE  AcceptedInv'
<1>1. Receive(Envelope(k, n)) /\ sent' = sent
  BY DEF RouteLive, RouteStopping
<1>2. n \in Queue(k) /\ Queue(k)' = Queue(k) \ {n}
  BY <1>1, MessageReceived
<1>3. \A j \in Keys : \A m : m \in Queue(j)' => m \in Queue(j)
  BY <1>1, QueueShrinks
<1>4. <<k, n>> \notin accepted
  BY <1>2 DEF AcceptedInv
<1>5. CASE accepted' = accepted
  <2>1. dead' = dead \/ \E why : DeadLetter(k, n, why)
    BY DEF RouteLive, RouteStopping
  <2>2. CASE dead' = dead
    BY <1>1, <1>3, <1>5, <2>2, AcceptedKept
  <2>3. ASSUME NEW why, DeadLetter(k, n, why) PROVE AcceptedInv'
    BY <1>1, <1>3, <1>4, <1>5, <2>3, DeadAccepted
  <2>4. QED
    BY <2>1, <2>2, <2>3
<1>6. CASE accepted' # accepted
  <2>1. accepted' = accepted \cup {<<k, n>>} /\ dead' = dead
    BY <1>6 DEF RouteLive, RouteStopping
  <2>2. n <= sent[k] /\ n \notin OnLog(dead, k)
    <3>1. At(4, k, n)
      BY <1>2, AtIs
    <3>2. ~At(5, k, n)
      BY <3>1, OnePlace, SMT
    <3>3. n <= sent[k]
      BY <3>1, SMT DEF MessageInv, KeyInv
    <3>4. QED
      BY <3>2, <3>3, AtIs
  <2>3. ASSUME NEW j \in Keys, NEW m \in Message, <<j, m>> \in accepted' PROVE m <= sent'[j] /\ m \notin Queue(j)'
    <3>1. CASE <<j, m>> \in accepted
      BY <1>1, <1>3, <3>1 DEF AcceptedInv
    <3>2. CASE <<j, m>> = <<k, n>>
      BY <1>1, <1>2, <2>2, <3>2
    <3>3. QED
      BY <2>1, <2>3, <3>1, <3>2
  <2>4. ASSUME NEW r \in dead, <<r.key, r.message>> \in accepted' PROVE r.why = "entity terminated"
    <3>1. <<r.key, r.message>> # <<k, n>>
      BY <2>2 DEF OnLog
    <3>2. QED
      BY <2>1, <2>4, <3>1 DEF AcceptedInv
  <2>5. QED
    BY <2>1, <2>3, <2>4 DEF AcceptedInv
<1>7. QED
  BY <1>5, <1>6

LEMMA DeliverAccepted ==
    ASSUME Inv, MessageInv, AcceptedInv, Deliver
    PROVE  AcceptedInv'
<1>1. UNCHANGED <<incoming, sent, accepted>>
  BY DEF Deliver
<1>2. \A j \in Keys : \A m : m \in Queue(j)' => m \in Queue(j)
  BY <1>1, QueueKept
<1>3. dead' = dead \/ \E k, n : DeadLetter(k, n, "entity terminated")
  BY DEF Deliver, AcceptsForced, Why
<1>4. CASE dead' = dead
  BY <1>1, <1>2, <1>4, AcceptedKept
<1>5. ASSUME NEW k, NEW n, NEW why, why = "entity terminated", DeadLetter(k, n, why) PROVE AcceptedInv'
  BY <1>1, <1>2, <1>5, DeadAccepted
<1>6. QED
  BY <1>3, <1>4, <1>5

LEMMA NextAccepted ==
    ASSUME Inv, MessageInv, AcceptedInv, [Next]_vars
    PROVE  AcceptedInv'
<1>1. CASE UNCHANGED vars
  BY <1>1, QuietAccepted
<1>2. CASE \E k \in Keys : Send(k)
  BY <1>2, SendAccepted
<1>3. CASE HostStep
  BY <1>3, QuietAccepted, RoutedAccepted, DeliverAccepted DEF HostStep
<1>4. CASE Failure
  BY <1>4, QuietAccepted DEF Failure
<1>5. CASE \E a \in Actors : StopAlone(a) \/ ChildStep(a)
  BY <1>5, QuietAccepted
<1>6. QED
  BY <1>1, <1>2, <1>3, <1>4, <1>5 DEF Next

(* A buffer is never longer than configured, a mailbox never longer than   *)
(* its capacity and one buffer, and a message once buffered becomes a dead *)
(* letter only if the entity spawned for it is gone when it is told:       *)
(* terminated passes the buffer on with forced sends, which no full        *)
(* mailbox refuses.                                                        *)
THEOREM BuffersKept == Spec => []BufferKept
<1>1. Init => AcceptedInv
  BY DEF Init, AcceptedInv
<1>2. LengthInv /\ AcceptedInv => BufferKept
  BY DEF LengthInv, AcceptedInv, BufferKept
<1>3. QED
  BY <1>1, <1>2, NextAccepted, LengthInvariant, HostInvariant, MessageInvariant, PTL DEF Spec

----------------------------------------------------------------------------
(* Counting.                                                               *)

(* What is counted is nothing, or one thing.                               *)
Counting ==
    /\ \A T : (\A x : x \notin T) => Cardinality(T) = 0
    /\ \A T : \A x \in T : (\A y \in T : y = x) => Cardinality(T) = 1

LEMMA OccursOnce ==
    ASSUME Counting, NEW s, s \in Seq(Message), Increasing(s), NEW n \in Message
    PROVE  Occurrences(s, n) = IF n \in Range(s) THEN 1 ELSE 0
<1>1. PICK T : T = {i \in DOMAIN s : s[i] = n}
  OBVIOUS
<1>2. CASE n \in Range(s)
  <2>1. PICK i \in DOMAIN s : s[i] = n
    BY <1>2, RangeOf
  <2>2. ASSUME NEW j \in DOMAIN s, s[j] = n PROVE j = i
    <3>1. i \in Nat /\ j \in Nat
      BY SMT
    <3>2. ~(n < n) /\ n # Passivate
      BY SMT DEF Message, Passivate
    <3>3. ~(i < j) /\ ~(j < i)
      BY <2>1, <2>2, <3>2 DEF Increasing
    <3>4. QED
      BY <3>1, <3>3, SMT
  <2>3. Cardinality(T) = 1
    BY <1>1, <2>1, <2>2 DEF Counting
  <2>4. QED
    BY <1>1, <1>2, <2>3 DEF Occurrences
<1>3. CASE n \notin Range(s)
  <2>1. \A i : i \notin T
    BY <1>1, <1>3, RangeOf
  <2>2. Cardinality(T) = 0
    BY <2>1 DEF Counting
  <2>3. QED
    BY <1>1, <1>3, <2>2 DEF Occurrences
<1>4. QED
  BY <1>2, <1>3

LEMMA QueuedOnce ==
    ASSUME Counting, Inv, MessageInv, NEW k \in Keys, NEW n \in Message
    PROVE  Occurrences(incoming, Envelope(k, n)) = IF n \in Queue(k) THEN 1 ELSE 0
<1>1. PICK s, x : s = incoming /\ x = Envelope(k, n) /\ s \in Seq(Incoming) /\ InOrder(s)
  BY DEF Inv, TableType, MessageInv, FifoInv
<1>2. x.key = k /\ x.message = n /\ k # None
  BY <1>1, ItemsDiffer, Constants
<1>3. PICK T : T = {i \in DOMAIN s : s[i] = x}
  OBVIOUS
<1>4. n \in Queue(k) <=> \E i \in DOMAIN s : s[i] = x
  BY <1>1, QueueOf
<1>5. CASE n \in Queue(k)
  <2>1. PICK i \in DOMAIN s : s[i] = x
    BY <1>4, <1>5
  <2>2. ASSUME NEW j \in DOMAIN s, s[j] = x PROVE j = i
    <3>1. i \in Nat /\ j \in Nat
      BY <1>1, SMT
    <3>2. ~(n < n)
      BY SMT DEF Message
    <3>3. ~(i < j) /\ ~(j < i)
      BY <1>1, <1>2, <2>1, <2>2, <3>2 DEF InOrder
    <3>4. QED
      BY <3>1, <3>3, SMT
  <2>3. Cardinality(T) = 1
    BY <1>3, <2>1, <2>2 DEF Counting
  <2>4. QED
    BY <1>1, <1>3, <1>5, <2>3 DEF Occurrences
<1>6. CASE n \notin Queue(k)
  <2>1. \A i : i \notin T
    BY <1>3, <1>4, <1>6
  <2>2. Cardinality(T) = 0
    BY <2>1 DEF Counting
  <2>3. QED
    BY <1>1, <1>3, <1>6, <2>2 DEF Occurrences
<1>7. QED
  BY <1>5, <1>6

LEMMA MailedOnce ==
    ASSUME Counting, Inv, NEW k \in Keys, NEW n \in Message
    PROVE  Cardinality({a \in Actors : owner[a] = k /\ n \in Range(mailbox[a])})
             = IF n \in Mail(k) THEN 1 ELSE 0
<1>1. PICK T : T = {a \in Actors : owner[a] = k /\ n \in Range(mailbox[a])}
  OBVIOUS
<1>2. n \in Mail(k) <=> \E a : a \in T
  BY <1>1, MailOf
<1>3. \A a, b \in T : a = b
  BY <1>1, Constants DEF Inv, OneIncarnation
<1>4. CASE n \in Mail(k)
  <2>1. PICK a : a \in T
    BY <1>2, <1>4
  <2>2. Cardinality(T) = 1
    BY <1>3, <2>1 DEF Counting
  <2>3. QED
    BY <1>1, <1>4, <2>2
<1>5. CASE n \notin Mail(k)
  <2>1. Cardinality(T) = 0
    BY <1>2, <1>5 DEF Counting
  <2>2. QED
    BY <1>1, <1>5, <2>1
<1>6. QED
  BY <1>4, <1>5

LEMMA LoggedOnce ==
    ASSUME Counting, NEW log, Unique(log), NEW k, NEW n \in Message
    PROVE  OnRecord(log, k, n) = IF n \in OnLog(log, k) THEN 1 ELSE 0
<1>1. PICK T : T = {r \in log : r.key = k /\ r.message = n}
  OBVIOUS
<1>2. n \in OnLog(log, k) <=> \E r : r \in T
  BY <1>1 DEF OnLog
<1>3. \A r, s \in T : r = s
  BY <1>1, SMT DEF Unique
<1>4. CASE n \in OnLog(log, k)
  <2>1. PICK r : r \in T
    BY <1>2, <1>4
  <2>2. Cardinality(T) = 1
    BY <1>3, <2>1 DEF Counting
  <2>3. QED
    BY <1>1, <1>4, <2>2 DEF OnRecord
<1>5. CASE n \notin OnLog(log, k)
  <2>1. Cardinality(T) = 0
    BY <1>2, <1>5 DEF Counting
  <2>2. QED
    BY <1>1, <1>5, <2>1 DEF OnRecord
<1>6. QED
  BY <1>4, <1>5

(* A message that was sent is counted in one of the places.                *)
LEMMA CountedOnce ==
    ASSUME Counting, Inv, MessageInv, NEW k \in Keys, NEW n \in 1 .. sent[k]
    PROVE  1 = Occurrences(incoming, Envelope(k, n)) + Occurrences(entries[k].buffered, n)
                 + (IF fresh.key = k THEN Occurrences(fresh.rest, n) ELSE 0)
                 + Cardinality({a \in Actors : owner[a] = k /\ n \in Range(mailbox[a])})
                 + Occurrences(handled[k], n) + OnRecord(dead, k, n) + OnRecord(dropped, k, n)
<1>1. n \in Message /\ n <= sent[k]
  BY Constants, SMT DEF Inv, TableType, Message
<1>2. PICK queued, buffered, rest, mail, taken, died, lost :
        /\ queued = Occurrences(incoming, Envelope(k, n))
        /\ buffered = Occurrences(entries[k].buffered, n)
        /\ rest = (IF fresh.key = k THEN Occurrences(fresh.rest, n) ELSE 0)
        /\ mail = Cardinality({a \in Actors : owner[a] = k /\ n \in Range(mailbox[a])})
        /\ taken = Occurrences(handled[k], n)
        /\ died = OnRecord(dead, k, n)
        /\ lost = OnRecord(dropped, k, n)
  OBVIOUS
<1>3. queued = IF At(4, k, n) THEN 1 ELSE 0
  BY <1>1, <1>2, QueuedOnce, AtIs
<1>4. mail = IF At(2, k, n) THEN 1 ELSE 0
  BY <1>1, <1>2, MailedOnce, AtIs
<1>5. taken = IF At(1, k, n) THEN 1 ELSE 0
  <2>1. PICK s : s = handled[k] /\ s \in Seq(Message) /\ Increasing(s)
    BY DEF MessageInv, FifoInv
  <2>2. Occurrences(s, n) = IF n \in Range(s) THEN 1 ELSE 0
    BY <1>1, <2>1, OccursOnce
  <2>3. n \in Range(s) <=> At(1, k, n)
    BY <2>1, AtIs DEF Taken
  <2>4. QED
    BY <1>2, <2>1, <2>2, <2>3
<1>6. died = (IF At(5, k, n) THEN 1 ELSE 0) /\ lost = (IF At(6, k, n) THEN 1 ELSE 0)
  <2>1. Unique(dead) /\ Unique(dropped)
    BY DEF MessageInv
  <2>2. /\ OnRecord(dead, k, n) = IF n \in OnLog(dead, k) THEN 1 ELSE 0
        /\ OnRecord(dropped, k, n) = IF n \in OnLog(dropped, k) THEN 1 ELSE 0
    BY <1>1, <2>1, LoggedOnce
  <2>3. QED
    BY <1>2, <2>2, AtIs
<1>7. /\ buffered = IF At(3, k, n) /\ fresh.key # k THEN 1 ELSE 0
      /\ rest = IF At(3, k, n) /\ fresh.key = k THEN 1 ELSE 0
  <2>1. PICK s : s = entries[k].buffered /\ s \in Seq(Message) /\ Increasing(s)
    BY HeldOf DEF MessageInv, FifoInv
  <2>2. PICK t : t = fresh.rest /\ t \in Seq(Message) /\ Increasing(t)
    BY HeldOf DEF MessageInv, FifoInv
  <2>3. Occurrences(s, n) = IF n \in Range(s) THEN 1 ELSE 0
    BY <1>1, <2>1, OccursOnce
  <2>4. Occurrences(t, n) = IF n \in Range(t) THEN 1 ELSE 0
    BY <1>1, <2>2, OccursOnce
  <2>5. At(3, k, n) <=> n \in Range(s) \/ (fresh.key = k /\ n \in Range(t))
    BY <2>1, <2>2, HeldOf, AtIs
  <2>6. fresh.key = k => n \notin Range(s)
    BY <2>1, HeldOnce, EmptySequence
  <2>7. QED
    BY <1>2, <2>1, <2>2, <2>3, <2>4, <2>5, <2>6
<1>8. \E p \in 1 .. 6 : At(p, k, n)
  BY <1>1 DEF MessageInv, KeyInv
<1>9. PICK p \in 1 .. 6 : At(p, k, n)
  BY <1>8
<1>10. \A q \in 1 .. 6 : At(q, k, n) <=> q = p
  BY <1>1, <1>9, OnePlace
<1>11. 1 = queued + buffered + rest + mail + taken + died + lost
  <2>1. /\ At(1, k, n) <=> p = 1
        /\ At(2, k, n) <=> p = 2
        /\ At(3, k, n) <=> p = 3
        /\ At(4, k, n) <=> p = 4
        /\ At(5, k, n) <=> p = 5
        /\ At(6, k, n) <=> p = 6
    BY <1>10, SMT
  <2>2. QED
    BY <1>3, <1>4, <1>5, <1>6, <1>7, <2>1, SMT
<1>12. QED
  BY <1>2, <1>11

Sets == INSTANCE FiniteSetTheorems

LEMMA Counts == Counting
<1>1. \A T : Sets!Cardinality(T) = Cardinality(T)
  BY DEF Sets!Cardinality, Cardinality
<1>2. ASSUME NEW T, \A x : x \notin T PROVE Cardinality(T) = 0
  <2>1. T = {}
    BY <1>2
  <2>2. QED
    BY <1>1, <2>1, Sets!FS_EmptySet
<1>3. ASSUME NEW T, NEW x \in T, \A y \in T : y = x PROVE Cardinality(T) = 1
  <2>1. T = {x}
    BY <1>3
  <2>2. QED
    BY <1>1, <2>1, Sets!FS_Singleton
<1>4. QED
  BY <1>2, <1>3 DEF Counting

(* Every message sent to a host is in exactly one place: in the mailbox of *)
(* the host, in its buffer, in the mailbox of an entity, taken by one, a   *)
(* dead letter, or gone with what held it.  The host neither loses one     *)
(* unreported nor tells one twice, whatever fails or restarts when.        *)
THEOREM EveryMessageAccounted == Spec => []Accounted
<1>1. Inv /\ MessageInv => Accounted
  BY Counts, CountedOnce DEF Accounted
<1>2. QED
  BY <1>1, HostInvariant, MessageInvariant, PTL

=============================================================================
