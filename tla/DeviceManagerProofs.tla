------------------------ MODULE DeviceManagerProofs -------------------------
(***************************************************************************)
(* The device_manager example: what a query reads of each device, for any  *)
(* number of names, commands and restarts.                                 *)
(***************************************************************************)
EXTENDS DeviceManager, TLAPS

USE Zenon

----------------------------------------------------------------------------
(* What the mailboxes hold.                                                *)

Command == {Average, Shutdown} \cup [op : {"record"}, name : Names, nan : BOOLEAN]
Position == 1 .. MaxCommands
Place == 1 .. MaxCommands + 1
CommandItem == [command : Position]
SignalItem == [terminated : Devices]
RecordItem == [record : Position]
ReadItem == [read : Position]
ReadingItem == [reading : 0 .. MaxCommands, device_id : Devices]

TypeInv ==
    /\ log \in Seq(Command) /\ Len(log) <= MaxCommands
    /\ managerBox \in Seq(Position)
    /\ groupBox \in Seq(CommandItem \cup SignalItem)
    /\ deviceBox \in [Devices -> Seq(RecordItem \cup ReadItem)]
    /\ queryBox \in [Position -> Seq(ReadingItem \cup SignalItem)]
    /\ manager \in {"live", "draining", "stopped"}
    /\ group \in {"none", "live", "stopped"}
    /\ devices \in [Names -> SUBSET Devices]
    /\ device \in [Devices -> {"free", "live", "stopping", "stopped"}]
    /\ last_reading \in [Devices -> 0 .. MaxCommands]
    /\ watchers \in [Devices -> SUBSET Position]
    /\ query \in [Position -> {"none", "starting", "asking", "running", "stopped"}]
    /\ asked \in [Position -> SUBSET Devices]
    /\ unasked \in [Position -> SUBSET Devices]
    /\ pending \in [Position -> SUBSET Devices]
    /\ readings \in [Position -> Seq(Position)]

----------------------------------------------------------------------------
(* The order in each mailbox, as a relation of an item to every one behind *)
(* it.                                                                     *)

Sorted(s, R) == \A i, j \in DOMAIN s : i < j => <<s[i], s[j]>> \in R

Earlier == {p \in Position \X Position : p[1] < p[2]}

(* The group gets the commands in the order in which they were sent.       *)
GroupOrder ==
    {p \in (CommandItem \cup SignalItem) \X (CommandItem \cup SignalItem) :
       ~ IsSignal(p[1]) /\ ~ IsSignal(p[2]) => p[1].command < p[2].command}

IsRecord(m) == "record" \in DOMAIN m

(* A device gets the records in that order too, no read twice, and behind  *)
(* the read of a query no record sent before the query.                    *)
DeviceOrder ==
    {p \in (RecordItem \cup ReadItem) \X (RecordItem \cup ReadItem) :
       /\ IsRecord(p[1]) /\ IsRecord(p[2]) => p[1].record < p[2].record
       /\ ~ IsRecord(p[1]) /\ IsRecord(p[2]) => p[1].read < p[2].record
       /\ ~ IsRecord(p[1]) /\ ~ IsRecord(p[2]) => p[1].read # p[2].read}

(* A query gets a reading of a device once, and not behind its signal.     *)
QueryOrder ==
    {p \in (ReadingItem \cup SignalItem) \X (ReadingItem \cup SignalItem) :
       IsReading(p[2]) =>
         /\ IsReading(p[1]) => p[1].device_id # p[2].device_id
         /\ ~ IsReading(p[1]) => p[1].terminated # p[2].device_id}

----------------------------------------------------------------------------
(* The invariants.                                                         *)

(* Commands on their way to the group, the next one sent included.         *)
Upcoming(u) ==
    \/ [command |-> u] \in Range(groupBox)
    \/ manager = "live" /\ (u \in Range(managerBox) \/ u = Len(log) + 1)

Started(k) == k \in Position /\ query[k] # "none"

(* Commands are sent, and handled in the order in which they were sent.    *)
PipeInv ==
    /\ Sorted(managerBox, Earlier)
    /\ Sorted(groupBox, GroupOrder)
    /\ \A k \in Range(managerBox) : k <= Len(log)
    /\ \A k \in Position : [command |-> k] \in Range(groupBox) =>
         /\ k <= Len(log)
         /\ manager = "live" => \A j \in Range(managerBox) : k < j
    /\ \A k \in Position : Started(k) => k <= Len(log) /\ \A u \in Place : Upcoming(u) => k < u
    /\ group = "stopped" => manager = "stopped"

(* The devices of the group, and what is theirs.                           *)
TreeInv ==
    /\ \A d \in Devices : device[d] # "live" => deviceBox[d] = <<>>
    /\ \A d \in Devices : device[d] = "free" => last_reading[d] = 0
    /\ \A d \in Devices : Terminated(d) \in Range(groupBox) => device[d] = "stopped"
    /\ \A d \in Devices : device[d] = "live" => \E n \in Names : d \in devices[n]
    /\ \A n \in Names : \A d \in devices[n] : device[d] # "free"
    /\ \A n \in Names : \A d, e \in devices[n] : d = e
    /\ \A m, n \in Names : \A d \in Devices : d \in devices[m] /\ d \in devices[n] => m = n

IsRecordOf(l, n) == l \in 1 .. Len(log) /\ log[l].op = "record" /\ log[l].name = n

(* What a device is told and holds.                                        *)
BoxInv ==
    /\ \A d \in Devices : Sorted(deviceBox[d], DeviceOrder)
    /\ \A d \in Devices : \A k \in Position : [read |-> k] \in Range(deviceBox[d]) => Started(k)
    /\ \A n \in Names : \A d \in devices[n] : \A l \in Position :
         [record |-> l] \in Range(deviceBox[d]) => IsRecordOf(l, n) /\ last_reading[d] < l
    /\ \A n \in Names : \A d \in devices[n] : last_reading[d] # 0 => IsRecordOf(last_reading[d], n)

(* What the group has told a device precedes all that is still to come.    *)
Holds(d, l) == [record |-> l] \in Range(deviceBox[d]) \/ l = last_reading[d]

ToldInv ==
    \A n \in Names : \A d \in devices[n] : \A l \in Position :
      Holds(d, l) => \A u \in Place : Upcoming(u) => l < u

(* Sent before a command or query that is not lost.                        *)
Relevant(l) == \E u \in Place : l < u /\ (Upcoming(u) \/ Started(u))

(* Of the records sent before such a command, those which are no longer on *)
(* their way to the group precede all that are ...                         *)
PassedInv ==
    \A n \in Names : \A l \in Position :
      IsRecordOf(l, n) /\ Relevant(l) => Upcoming(l) \/ \A u \in Place : Upcoming(u) => l < u

(* ... and a device has them still ahead, or behind it: they are then no   *)
(* newer than the reading it holds, if it does.                            *)
HeldInv ==
    \A n \in Names : \A d \in devices[n] : \A l \in Position :
      device[d] = "live" /\ IsRecordOf(l, n) /\ Relevant(l) =>
        \/ Upcoming(l)
        \/ [record |-> l] \in Range(deviceBox[d])
        \/ /\ \A r \in Position : [record |-> r] \in Range(deviceBox[d]) => l < r
           /\ last_reading[d] = 0 \/ l <= last_reading[d]

(* A reading the query has is one it asked for, and awaits.                *)
Awaits(k) ==
    /\ Sorted(queryBox[k], QueryOrder)
    /\ \A m \in Range(queryBox[k]) :
         IsReading(m) => /\ query[k] # "none"
                         /\ query[k] # "stopped" => m.device_id \in pending[k]
                         /\ m.device_id \notin asked[k] /\ m.device_id \notin unasked[k]
    /\ \A d \in Devices : Terminated(d) \in Range(queryBox[k]) => device[d] = "stopped"
    /\ \A d \in Devices : [read |-> k] \in Range(deviceBox[d]) =>
         /\ \A m \in Range(queryBox[k]) : IsReading(m) => m.device_id # d
         /\ query[k] # "stopped" => d \in pending[k]
         /\ d \notin asked[k] /\ d \notin unasked[k]
    /\ query[k] \in {"none", "starting"} => asked[k] = {}
    /\ \A d \in asked[k] : d \notin unasked[k]

QueryInv == \A k \in Position : Awaits(k)

(* Reading j is not too old for query k.                                   *)
Current(k, j) ==
    /\ k <= Len(log) /\ j \in 1 .. Len(log)
    /\ \A l \in j + 1 .. k - 1 : log[l].op = "record" => log[l].name # log[j].name

CurrentInv ==
    \A k \in Position :
      /\ \A m \in Range(queryBox[k]) : IsReading(m) /\ m.reading # 0 => Current(k, m.reading)
      /\ \A j \in Range(readings[k]) : Current(k, j)

Inv ==
    /\ TypeInv /\ PipeInv /\ TreeInv /\ BoxInv /\ ToldInv /\ PassedInv /\ HeldInv
    /\ QueryInv /\ CurrentInv
----------------------------------------------------------------------------
(* Items.                                                                  *)

LEMMA Numbers == MaxCommands \in Nat /\ Commands = Position /\ Devices = Position
BY BoundAssumption DEF Commands, Devices, Position

LEMMA GroupItems ==
    /\ \A k : ~ IsSignal([command |-> k]) /\ [command |-> k].command = k
    /\ \A d : IsSignal(Terminated(d)) /\ Terminated(d).terminated = d
    /\ \A k, d : [command |-> k] # Terminated(d)
    /\ \A m \in CommandItem \cup SignalItem :
         \/ ~ IsSignal(m) /\ m.command \in Position /\ m = [command |-> m.command]
         \/ IsSignal(m) /\ m.terminated \in Devices /\ m = Terminated(m.terminated)
BY SMT DEF IsSignal, Terminated, CommandItem, SignalItem

LEMMA DeviceItems ==
    /\ \A l : IsRecord([record |-> l]) /\ [record |-> l].record = l
    /\ \A k : ~ IsRecord([read |-> k]) /\ [read |-> k].read = k
    /\ \A k, l : [read |-> k] # [record |-> l]
    /\ \A m \in RecordItem \cup ReadItem : "read" \in DOMAIN m => ~ IsRecord(m)
    /\ \A m \in RecordItem \cup ReadItem :
         \/ IsRecord(m) /\ m.record \in Position /\ m = [record |-> m.record]
         \/ ~ IsRecord(m) /\ m.read \in Position /\ m = [read |-> m.read]
BY SMT DEF IsRecord, RecordItem, ReadItem

LEMMA QueryItems ==
    /\ \A j, d : /\ IsReading([reading |-> j, device_id |-> d])
                 /\ [reading |-> j, device_id |-> d].reading = j
                 /\ [reading |-> j, device_id |-> d].device_id = d
    /\ \A d : ~ IsReading(Terminated(d)) /\ Terminated(d).terminated = d
    /\ \A m \in ReadingItem \cup SignalItem :
         \/ IsReading(m) /\ m.reading \in 0 .. MaxCommands /\ m.device_id \in Devices
         \/ ~ IsReading(m) /\ m.terminated \in Devices /\ m = Terminated(m.terminated)
BY SMT DEF IsReading, Terminated, ReadingItem, SignalItem

----------------------------------------------------------------------------
(* Mailboxes.                                                              *)

LEMMA RangeOf == \A s : \A x : x \in Range(s) <=> \E i \in DOMAIN s : s[i] = x
BY DEF Range

LEMMA AppendParts ==
    ASSUME NEW S, NEW s \in Seq(S), NEW x
    PROVE  /\ Len(s) \in Nat /\ DOMAIN s = 1 .. Len(s)
           /\ Len(Append(s, x)) = Len(s) + 1 /\ DOMAIN Append(s, x) = 1 .. Len(s) + 1
           /\ Append(s, x)[Len(s) + 1] = x
           /\ \A i \in 1 .. Len(s) : Append(s, x)[i] = s[i]
BY SMT

LEMMA TailParts ==
    ASSUME NEW S, NEW s \in Seq(S), s # <<>>
    PROVE  /\ Len(s) \in Nat \ {0} /\ DOMAIN s = 1 .. Len(s) /\ Head(s) = s[1] /\ Head(s) \in S
           /\ Tail(s) \in Seq(S) /\ Len(Tail(s)) = Len(s) - 1 /\ DOMAIN Tail(s) = 1 .. Len(s) - 1
           /\ \A i \in 1 .. Len(s) - 1 : Tail(s)[i] = s[i + 1]
BY SMT

LEMMA RangeAppend ==
    ASSUME NEW S, NEW s \in Seq(S), NEW x
    PROVE  Range(Append(s, x)) = Range(s) \cup {x}
<1>1. PICK t, n : t = Append(s, x) /\ n = Len(s)
  OBVIOUS
<1>2. /\ n \in Nat /\ DOMAIN s = 1 .. n /\ DOMAIN t = 1 .. n + 1 /\ t[n + 1] = x
      /\ \A i \in 1 .. n : t[i] = s[i]
  BY <1>1, AppendParts, SMT
<1>3. \A y : y \in Range(t) <=> y \in Range(s) \/ y = x
  <2>1. ASSUME NEW y \in Range(t) PROVE y \in Range(s) \/ y = x
    <3>1. PICK i \in 1 .. n + 1 : t[i] = y
      BY <1>2, <2>1, RangeOf, SMT
    <3>2. i \in 1 .. n \/ i = n + 1
      BY <1>2, SMT
    <3>3. QED
      BY <1>2, <3>1, <3>2, RangeOf
  <2>2. ASSUME NEW y \in Range(s) PROVE y \in Range(t)
    <3>1. PICK i \in 1 .. n : s[i] = y
      BY <1>2, <2>2, RangeOf, SMT
    <3>2. i \in 1 .. n + 1
      BY <1>2, SMT
    <3>3. QED
      BY <1>2, <3>1, <3>2, RangeOf
  <2>3. x \in Range(t)
    <3>1. n + 1 \in 1 .. n + 1
      BY <1>2, SMT
    <3>2. QED
      BY <1>2, <3>1, RangeOf
  <2>4. QED
    BY <2>1, <2>2, <2>3
<1>4. QED
  BY <1>1, <1>3

LEMMA RangeTail ==
    ASSUME NEW S, NEW s \in Seq(S), s # <<>>
    PROVE  /\ Head(s) \in Range(s)
           /\ \A x : x \in Range(s) <=> x = Head(s) \/ x \in Range(Tail(s))
<1>1. PICK t, n : t = Tail(s) /\ n = Len(s)
  OBVIOUS
<1>2. /\ n \in Nat \ {0} /\ DOMAIN s = 1 .. n /\ Head(s) = s[1] /\ DOMAIN t = 1 .. n - 1
      /\ \A i \in 1 .. n - 1 : t[i] = s[i + 1]
  BY <1>1, TailParts
<1>3. Head(s) \in Range(s)
  <2>1. 1 \in 1 .. n
    BY <1>2, SMT
  <2>2. QED
    BY <1>2, <2>1, RangeOf
<1>4. ASSUME NEW x \in Range(s) PROVE x = Head(s) \/ x \in Range(t)
  <2>1. PICK i \in 1 .. n : s[i] = x
    BY <1>2, <1>4, RangeOf, SMT
  <2>2. i = 1 \/ (i - 1 \in 1 .. n - 1 /\ t[i - 1] = s[i])
    BY <1>2, SMT
  <2>3. QED
    BY <1>2, <2>1, <2>2, RangeOf
<1>5. ASSUME NEW x \in Range(t) PROVE x \in Range(s)
  <2>1. PICK i \in 1 .. n - 1 : t[i] = x
    BY <1>2, <1>5, RangeOf, SMT
  <2>2. i + 1 \in 1 .. n /\ t[i] = s[i + 1]
    BY <1>2, SMT
  <2>3. QED
    BY <1>2, <2>1, <2>2, RangeOf
<1>6. QED
  BY <1>1, <1>3, <1>4, <1>5

LEMMA SortedAppend ==
    ASSUME NEW S, NEW s \in Seq(S), NEW x, NEW R, Sorted(s, R), \A m \in Range(s) : <<m, x>> \in R
    PROVE  Sorted(Append(s, x), R)
<1>1. PICK t, n : t = Append(s, x) /\ n = Len(s)
  OBVIOUS
<1>2. /\ n \in Nat /\ DOMAIN s = 1 .. n /\ DOMAIN t = 1 .. n + 1 /\ t[n + 1] = x
      /\ \A i \in 1 .. n : t[i] = s[i]
  BY <1>1, AppendParts, SMT
<1>3. ASSUME NEW i \in 1 .. n + 1, NEW j \in 1 .. n + 1, i < j PROVE <<t[i], t[j]>> \in R
  <2>1. i \in 1 .. n /\ t[i] = s[i] /\ s[i] \in Range(s)
    BY <1>2, <1>3, RangeOf, SMT
  <2>2. CASE j = n + 1
    BY <1>2, <2>1, <2>2
  <2>3. CASE j # n + 1
    <3>1. j \in 1 .. n /\ t[j] = s[j]
      BY <1>2, <2>3, SMT
    <3>2. <<s[i], s[j]>> \in R
      BY <1>2, <1>3, <2>1, <3>1 DEF Sorted
    <3>3. QED
      BY <2>1, <3>1, <3>2
  <2>4. QED
    BY <2>2, <2>3
<1>4. QED
  BY <1>1, <1>2, <1>3 DEF Sorted

LEMMA SortedTail ==
    ASSUME NEW S, NEW s \in Seq(S), s # <<>>, NEW R, Sorted(s, R)
    PROVE  Sorted(Tail(s), R) /\ \A m \in Range(Tail(s)) : <<Head(s), m>> \in R
<1>1. PICK t, n : t = Tail(s) /\ n = Len(s)
  OBVIOUS
<1>2. /\ n \in Nat \ {0} /\ DOMAIN s = 1 .. n /\ Head(s) = s[1] /\ DOMAIN t = 1 .. n - 1
      /\ \A i \in 1 .. n - 1 : t[i] = s[i + 1]
  BY <1>1, TailParts
<1>3. ASSUME NEW i \in 1 .. n - 1, NEW j \in 1 .. n - 1, i < j PROVE <<t[i], t[j]>> \in R
  <2>1. i + 1 \in 1 .. n /\ j + 1 \in 1 .. n /\ i + 1 < j + 1
    BY <1>2, <1>3, SMT
  <2>2. <<s[i + 1], s[j + 1]>> \in R
    BY <1>2, <2>1 DEF Sorted
  <2>3. QED
    BY <1>2, <2>2
<1>4. ASSUME NEW m \in Range(t) PROVE <<s[1], m>> \in R
  <2>1. PICK i \in 1 .. n - 1 : t[i] = m
    BY <1>2, <1>4, RangeOf, SMT
  <2>2. i + 1 \in 1 .. n /\ 1 \in 1 .. n /\ 1 < i + 1
    BY <1>2, SMT
  <2>3. <<s[1], s[i + 1]>> \in R
    BY <1>2, <2>2 DEF Sorted
  <2>4. QED
    BY <1>2, <2>1, <2>3
<1>5. QED
  BY <1>1, <1>2, <1>3, <1>4 DEF Sorted

LEMMA EmptyBox ==
    ASSUME NEW s, s = <<>>
    PROVE  (\A R : Sorted(s, R)) /\ (\A m : m \notin Range(s)) /\ \A S : s \in Seq(S)
<1>1. DOMAIN s = {}
  BY SMT
<1>2. \A R : Sorted(s, R)
  BY <1>1 DEF Sorted
<1>3. \A m : m \notin Range(s)
  BY <1>1, RangeOf
<1>4. QED
  BY <1>2, <1>3, SMT

LEMMA Single ==
    ASSUME NEW x, NEW s, s = <<x>>
    PROVE  (\A R : Sorted(s, R)) /\ (\A m : m \in Range(s) <=> m = x)
<1>1. DOMAIN s = {1} /\ s[1] = x
  BY SMT
<1>2. \A R : Sorted(s, R)
  BY <1>1, SMT DEF Sorted
<1>3. QED
  BY <1>1, <1>2, RangeOf, SMT

(* What taking the head and adding an item do to what a mailbox holds.     *)
LEMMA Taken ==
    ASSUME NEW S, NEW s \in Seq(S), s # <<>>
    PROVE  /\ Head(s) \in S /\ Head(s) \in Range(s) /\ Tail(s) \in Seq(S)
           /\ \A m : m \in Range(s) <=> m = Head(s) \/ m \in Range(Tail(s))
BY TailParts, RangeTail

LEMMA Added ==
    ASSUME NEW S, NEW s \in Seq(S), NEW x \in S
    PROVE  /\ Append(s, x) \in Seq(S)
           /\ \A m : m \in Range(Append(s, x)) <=> m = x \/ m \in Range(s)
BY RangeAppend, SMT

LEMMA Members == \A S : \A s \in Seq(S) : \A m \in Range(s) : m \in S
<1>1. ASSUME NEW S, NEW s \in Seq(S), NEW m \in Range(s) PROVE m \in S
  <2>1. PICK i \in DOMAIN s : s[i] = m
    BY <1>1, RangeOf
  <2>2. QED
    BY <2>1, SMT
<1>2. QED
  BY <1>1

----------------------------------------------------------------------------
(* Types.                                                                  *)

LEMMA CommandFacts ==
    ASSUME TypeInv, NEW k \in 1 .. Len(log)
    PROVE  /\ k \in Position /\ log[k] \in Command
           /\ log[k].op = "record" => log[k].name \in Names /\ log[k] # Average /\ log[k] # Shutdown
<1>1. Len(log) \in Nat /\ log[k] \in Command /\ Len(log) <= MaxCommands
  BY SMT DEF TypeInv
<1>2. k \in Position
  BY <1>1, Numbers, SMT DEF Position
<1>3. log[k].op = "record" => log[k].name \in Names /\ log[k] # Average /\ log[k] # Shutdown
  BY <1>1, SMT DEF Command, Average, Shutdown
<1>4. QED
  BY <1>1, <1>2, <1>3

(* What the group handles.                                                 *)
LEMMA GroupTakes ==
    ASSUME TypeInv, PipeInv, GroupHandles
    PROVE  /\ groupBox' \in Seq(CommandItem \cup SignalItem)
           /\ Head(groupBox) \in CommandItem \cup SignalItem
           /\ Head(groupBox) \in Range(groupBox)
           /\ \A m : m \in Range(groupBox) <=> m = Head(groupBox) \/ m \in Range(groupBox')
           /\ ~ IsSignal(Head(groupBox)) => /\ Head(groupBox).command \in 1 .. Len(log)
                                            /\ Head(groupBox).command \in Position
                                            /\ Head(groupBox) = [command |-> Head(groupBox).command]
           /\ IsSignal(Head(groupBox)) => /\ Head(groupBox).terminated \in Devices
                                          /\ Head(groupBox) = Terminated(Head(groupBox).terminated)
<1>1. /\ groupBox \in Seq(CommandItem \cup SignalItem) /\ groupBox # <<>>
      /\ groupBox' = Tail(groupBox)
  BY DEF TypeInv, GroupHandles
<1>2. PICK m : m = Head(groupBox)
  OBVIOUS
<1>3. /\ m \in CommandItem \cup SignalItem /\ m \in Range(groupBox)
      /\ groupBox' \in Seq(CommandItem \cup SignalItem)
      /\ \A x : x \in Range(groupBox) <=> x = m \/ x \in Range(groupBox')
  BY <1>1, <1>2, Taken
<1>4. CASE ~ IsSignal(m)
  <2>1. m.command \in Position /\ m = [command |-> m.command]
    BY <1>3, <1>4, GroupItems
  <2>2. m.command <= Len(log)
    BY <1>3, <2>1 DEF PipeInv
  <2>3. m.command \in 1 .. Len(log)
    BY <2>1, <2>2, Numbers, SMT DEF Position, TypeInv
  <2>4. QED
    BY <1>2, <1>3, <1>4, <2>1, <2>3
<1>5. CASE IsSignal(m)
  BY <1>2, <1>3, <1>5, GroupItems
<1>6. QED
  BY <1>4, <1>5

LEMMA ClientTypes ==
    ASSUME TypeInv, Client
    PROVE  TypeInv'
<1>1. PICK c : c \in Command /\ Send(c)
  BY DEF Client, Command, Record
<1>2. Len(log) < MaxCommands /\ log' = Append(log, c) /\ log \in Seq(Command)
  BY <1>1 DEF Send, TypeInv
<1>3. log' \in Seq(Command) /\ Len(log') <= MaxCommands /\ Len(log) + 1 \in Position
  BY <1>1, <1>2, Numbers, SMT DEF Position
<1>4. managerBox' \in Seq(Position)
  <2>1. PICK k : k = Len(log) + 1 /\ k \in Position
    BY <1>3
  <2>2. managerBox' = managerBox \/ managerBox' = Append(managerBox, k)
    BY <1>1, <2>1 DEF Send
  <2>3. managerBox \in Seq(Position)
    BY DEF TypeInv
  <2>4. QED
    BY <2>1, <2>2, <2>3, Added
<1>5. QED
  BY <1>1, <1>3, <1>4 DEF Send, TypeInv, deviceVars, queryVars

LEMMA ManagerTypes ==
    ASSUME TypeInv, Manager
    PROVE  TypeInv'
<1>1. CASE ManagerShutdown \/ ManagerCloses
  <2>1. managerBox' \in Seq(Position)
    <3>1. managerBox' = <<>> \/ managerBox' = managerBox
      BY <1>1 DEF ManagerShutdown, ManagerCloses
    <3>2. QED
      BY <3>1, EmptyBox DEF TypeInv
  <2>2. manager' \in {"live", "draining", "stopped"}
    BY <1>1 DEF ManagerShutdown, ManagerCloses
  <2>3. QED
    BY <1>1, <2>1, <2>2 DEF ManagerShutdown, ManagerCloses, TypeInv, clientVars, deviceVars, queryVars
<1>2. CASE ManagerRecord \/ ManagerAverage
  <2>1. managerBox' = Tail(managerBox) /\ managerBox # <<>> /\ managerBox \in Seq(Position)
    BY <1>2 DEF ManagerRecord, ManagerAverage, TypeInv
  <2>2. managerBox' \in Seq(Position) /\ Head(managerBox) \in Position
    BY <2>1, Taken
  <2>3. [command |-> Head(managerBox)] \in CommandItem \cup SignalItem
    BY <2>2 DEF CommandItem
  <2>4. Append(groupBox, [command |-> Head(managerBox)]) \in Seq(CommandItem \cup SignalItem)
    BY <2>3, Added DEF TypeInv
  <2>5. groupBox' \in Seq(CommandItem \cup SignalItem)
    BY <1>2, <2>4 DEF ManagerRecord, ManagerAverage, TypeInv
  <2>6. QED
    BY <1>2, <2>2, <2>5 DEF ManagerRecord, ManagerAverage, TypeInv, clientVars, deviceVars, queryVars
<1>3. QED
  BY <1>1, <1>2 DEF Manager

LEMMA TellTypes ==
    ASSUME TypeInv, NEW d \in Devices, NEW m \in RecordItem \cup ReadItem, TellDevice(d, m)
    PROVE  /\ deviceBox' \in [Devices -> Seq(RecordItem \cup ReadItem)]
           /\ \A e \in Devices \ {d} : deviceBox'[e] = deviceBox[e]
           /\ device[d] # "live" => deviceBox'[d] = deviceBox[d]
           /\ device[d] = "live" => deviceBox'[d] = Append(deviceBox[d], m)
<1>1. deviceBox \in [Devices -> Seq(RecordItem \cup ReadItem)]
  BY DEF TypeInv
<1>2. Append(deviceBox[d], m) \in Seq(RecordItem \cup ReadItem)
  BY <1>1, Added
<1>3. QED
  BY <1>1, <1>2 DEF TellDevice

LEMMA GroupTypes ==
    ASSUME TypeInv, PipeInv, Group
    PROVE  TypeInv'
<1>1. CASE GroupStopped
  BY <1>1, SMT DEF GroupStopped, TypeInv, clientVars, deviceVars, queryVars
<1>2. CASE GroupRecord
  <2>1. PICK k : k = Head(groupBox).command
    OBVIOUS
  <2>2. GroupHandles /\ ~ IsSignal(Head(groupBox)) /\ log[k].op = "record"
    BY <1>2, <2>1 DEF GroupRecord
  <2>3. k \in 1 .. Len(log) /\ k \in Position /\ groupBox' \in Seq(CommandItem \cup SignalItem)
    BY <2>1, <2>2, GroupTakes
  <2>4. PICK d : d \in devices[log[k].name] /\ TellDevice(d, [record |-> k])
    BY <1>2, <2>1 DEF GroupRecord
  <2>5. d \in Devices /\ [record |-> k] \in RecordItem \cup ReadItem
    BY <2>2, <2>3, <2>4, CommandFacts DEF TypeInv, RecordItem
  <2>6. deviceBox' \in [Devices -> Seq(RecordItem \cup ReadItem)]
    BY <2>4, <2>5, TellTypes
  <2>7. QED
    BY <1>2, <2>3, <2>6 DEF GroupRecord, TypeInv, clientVars, deviceVars, queryVars
<1>3. CASE GroupSpawns
  <2>1. PICK k : k = Head(groupBox).command
    OBVIOUS
  <2>2. GroupHandles /\ ~ IsSignal(Head(groupBox)) /\ log[k].op = "record"
    BY <1>3, <2>1 DEF GroupSpawns
  <2>3. k \in 1 .. Len(log) /\ k \in Position /\ groupBox' \in Seq(CommandItem \cup SignalItem)
    BY <2>1, <2>2, GroupTakes
  <2>4. PICK d : /\ d \in Devices
                 /\ devices' = [devices EXCEPT ![log[k].name] = {d}]
                 /\ device' = [device EXCEPT ![d] = "live"]
                 /\ deviceBox' = [deviceBox EXCEPT ![d] = <<[record |-> k]>>]
    BY <1>3, <2>1 DEF GroupSpawns
  <2>5. <<[record |-> k]>> \in Seq(RecordItem \cup ReadItem)
    BY <2>3, SMT DEF RecordItem
  <2>6. devices' \in [Names -> SUBSET Devices]
    BY <2>4 DEF TypeInv
  <2>7. device' \in [Devices -> {"free", "live", "stopping", "stopped"}]
    BY <2>4 DEF TypeInv
  <2>8. deviceBox' \in [Devices -> Seq(RecordItem \cup ReadItem)]
    BY <2>4, <2>5 DEF TypeInv
  <2>9. QED
    BY <1>3, <2>3, <2>6, <2>7, <2>8 DEF GroupSpawns, TypeInv, clientVars, deviceVars, queryVars
<1>4. CASE GroupAverage
  <2>1. GroupHandles
    BY <1>4 DEF GroupAverage
  <2>2. groupBox' \in Seq(CommandItem \cup SignalItem)
    BY <2>1, GroupTakes
  <2>3. UNION {devices[n] : n \in Names} \in SUBSET Devices
    BY SMT DEF TypeInv
  <2>4. query' \in [Position -> {"none", "starting", "asking", "running", "stopped"}]
    BY <1>4 DEF GroupAverage, TypeInv
  <2>5. unasked' \in [Position -> SUBSET Devices]
    BY <1>4, <2>3 DEF GroupAverage, TypeInv
  <2>6. QED
    BY <1>4, <2>2, <2>4, <2>5 DEF GroupAverage, TypeInv, clientVars, deviceVars
<1>5. CASE GroupTerminated
  <2>1. GroupHandles
    BY <1>5 DEF GroupTerminated
  <2>2. groupBox' \in Seq(CommandItem \cup SignalItem)
    BY <2>1, GroupTakes
  <2>3. devices' \in [Names -> SUBSET Devices]
    BY <1>5 DEF GroupTerminated, TypeInv
  <2>4. QED
    BY <1>5, <2>2, <2>3 DEF GroupTerminated, TypeInv, clientVars, deviceVars, queryVars
<1>6. QED
  BY <1>1, <1>2, <1>3, <1>4, <1>5 DEF Group

(* The head of the mailbox of a query ...                                  *)
LEMMA QueryTakes ==
    ASSUME TypeInv, NEW k \in Position, queryBox[k] # <<>>,
           queryBox' = [queryBox EXCEPT ![k] = Tail(@)]
    PROVE  /\ queryBox' \in [Position -> Seq(ReadingItem \cup SignalItem)]
           /\ \A j \in Position \ {k} : queryBox'[j] = queryBox[j]
           /\ queryBox'[k] = Tail(queryBox[k])
           /\ Head(queryBox[k]) \in ReadingItem \cup SignalItem
           /\ Head(queryBox[k]) \in Range(queryBox[k])
           /\ \A m : m \in Range(queryBox[k]) <=> m = Head(queryBox[k]) \/ m \in Range(queryBox'[k])
<1>1. queryBox \in [Position -> Seq(ReadingItem \cup SignalItem)]
  BY DEF TypeInv
<1>2. PICK box : box = queryBox[k] /\ box \in Seq(ReadingItem \cup SignalItem) /\ box # <<>>
  BY <1>1
<1>3. /\ Tail(box) \in Seq(ReadingItem \cup SignalItem) /\ Head(box) \in ReadingItem \cup SignalItem
      /\ Head(box) \in Range(box)
      /\ \A m : m \in Range(box) <=> m = Head(box) \/ m \in Range(Tail(box))
  BY <1>2, Taken
<1>4. queryBox'[k] = Tail(box) /\ \A j \in Position \ {k} : queryBox'[j] = queryBox[j]
  BY <1>1, <1>2
<1>5. queryBox' \in [Position -> Seq(ReadingItem \cup SignalItem)]
  BY <1>1, <1>2, <1>3
<1>6. QED
  BY <1>2, <1>3, <1>4, <1>5

(* ... and of a device.                                                    *)
LEMMA DeviceTakes ==
    ASSUME TypeInv, NEW d \in Devices, deviceBox[d] # <<>>,
           deviceBox' = [deviceBox EXCEPT ![d] = Tail(@)]
    PROVE  /\ deviceBox' \in [Devices -> Seq(RecordItem \cup ReadItem)]
           /\ \A e \in Devices \ {d} : deviceBox'[e] = deviceBox[e]
           /\ deviceBox'[d] = Tail(deviceBox[d])
           /\ Head(deviceBox[d]) \in RecordItem \cup ReadItem
           /\ Head(deviceBox[d]) \in Range(deviceBox[d])
           /\ \A m : m \in Range(deviceBox[d]) <=> m = Head(deviceBox[d]) \/ m \in Range(deviceBox'[d])
<1>1. deviceBox \in [Devices -> Seq(RecordItem \cup ReadItem)]
  BY DEF TypeInv
<1>2. PICK box : box = deviceBox[d] /\ box \in Seq(RecordItem \cup ReadItem) /\ box # <<>>
  BY <1>1
<1>3. /\ Tail(box) \in Seq(RecordItem \cup ReadItem) /\ Head(box) \in RecordItem \cup ReadItem
      /\ Head(box) \in Range(box)
      /\ \A m : m \in Range(box) <=> m = Head(box) \/ m \in Range(Tail(box))
  BY <1>2, Taken
<1>4. deviceBox'[d] = Tail(box) /\ \A e \in Devices \ {d} : deviceBox'[e] = deviceBox[e]
  BY <1>1, <1>2
<1>5. deviceBox' \in [Devices -> Seq(RecordItem \cup ReadItem)]
  BY <1>1, <1>2, <1>3
<1>6. QED
  BY <1>2, <1>3, <1>4, <1>5

LEMMA ConcludeTypes ==
    ASSUME TypeInv, NEW k \in Position, ConcludeOrContinue(k)
    PROVE  /\ query' \in [Position -> {"none", "starting", "asking", "running", "stopped"}]
           /\ \A j \in Position : query'[j] = query[j] \/ query'[j] = "stopped"
           /\ \A j \in Position \ {k} : query'[j] = query[j]
BY DEF ConcludeOrContinue, Conclude, TypeInv

LEMMA QueryTypes ==
    ASSUME TypeInv, NEW k \in Position, Query(k)
    PROVE  TypeInv'
<1>1. CASE QueryStart(k) \/ QueryStopped(k)
  <2>1. query' \in [Position -> {"none", "starting", "asking", "running", "stopped"}]
    BY <1>1 DEF QueryStart, QueryStopped, Conclude, TypeInv
  <2>2. QED
    BY <1>1, <2>1 DEF QueryStart, QueryStopped, TypeInv, clientVars, deviceVars
<1>2. CASE QueryWatch(k)
  <2>1. PICK d : /\ d \in unasked[k] /\ Watch(k, d)
                 /\ asked' = [asked EXCEPT ![k] = {d}]
                 /\ unasked' = [unasked EXCEPT ![k] = @ \ {d}]
    BY <1>2 DEF QueryWatch
  <2>2. d \in Devices
    BY <2>1 DEF TypeInv
  <2>3. asked' \in [Position -> SUBSET Devices] /\ unasked' \in [Position -> SUBSET Devices]
    BY <2>1, <2>2 DEF TypeInv
  <2>4. watchers' \in [Devices -> SUBSET Position]
    <3>1. watchers' = watchers \/ watchers' = [watchers EXCEPT ![d] = @ \cup {k}]
      BY <2>1 DEF Watch
    <3>2. watchers \in [Devices -> SUBSET Position]
      BY DEF TypeInv
    <3>3. watchers[d] \cup {k} \in SUBSET Position
      BY <2>2, <3>2
    <3>4. QED
      BY <3>1, <3>2, <3>3
  <2>5. Terminated(d) \in ReadingItem \cup SignalItem
    BY <2>2 DEF Terminated, SignalItem
  <2>6. Append(queryBox[k], Terminated(d)) \in Seq(ReadingItem \cup SignalItem)
    BY <2>5, Added DEF TypeInv
  <2>7. queryBox' \in [Position -> Seq(ReadingItem \cup SignalItem)]
    BY <2>1, <2>6 DEF TypeInv, Watch
  <2>8. QED
    BY <1>2, <2>3, <2>4, <2>7 DEF QueryWatch, TypeInv, clientVars, deviceVars
<1>3. CASE QueryRead(k)
  <2>1. PICK d : d \in asked[k] /\ TellDevice(d, [read |-> k])
    BY <1>3 DEF QueryRead
  <2>2. d \in Devices /\ [read |-> k] \in RecordItem \cup ReadItem
    BY <2>1 DEF TypeInv, ReadItem
  <2>3. deviceBox' \in [Devices -> Seq(RecordItem \cup ReadItem)]
    BY <2>1, <2>2, TellTypes
  <2>4. asked' \in [Position -> SUBSET Devices] /\ pending' \in [Position -> SUBSET Devices]
    BY <1>3 DEF QueryRead, TypeInv
  <2>5. query' \in [Position -> {"none", "starting", "asking", "running", "stopped"}]
    BY <1>3 DEF QueryRead, TypeInv
  <2>6. QED
    BY <1>3, <2>3, <2>4, <2>5 DEF QueryRead, TypeInv, clientVars, deviceVars
<1>4. CASE QueryReading(k)
  <2>1. PICK m : m = Head(queryBox[k])
    OBVIOUS
  <2>2. /\ queryBox' \in [Position -> Seq(ReadingItem \cup SignalItem)]
        /\ m \in ReadingItem \cup SignalItem /\ IsReading(m)
    BY <1>4, <2>1, QueryTakes DEF QueryReading
  <2>3. m.reading \in 0 .. MaxCommands /\ m.device_id \in Devices
    BY <2>2, QueryItems
  <2>4. pending' \in [Position -> SUBSET Devices]
    BY <1>4 DEF QueryReading, TypeInv
  <2>5. watchers' \in [Devices -> SUBSET Position]
    BY <1>4 DEF QueryReading, TypeInv
  <2>6. readings' \in [Position -> Seq(Position)]
    <3>1. readings' = [readings EXCEPT ![k] = IF m.reading = 0 THEN @ ELSE Append(@, m.reading)]
      BY <1>4, <2>1 DEF QueryReading
    <3>2. m.reading # 0 => m.reading \in Position
      BY <2>3, Numbers, SMT DEF Position
    <3>3. readings \in [Position -> Seq(Position)]
      BY DEF TypeInv
    <3>4. m.reading # 0 => Append(readings[k], m.reading) \in Seq(Position)
      BY <3>2, <3>3, Added
    <3>5. QED
      BY <3>1, <3>3, <3>4
  <2>7. query' \in [Position -> {"none", "starting", "asking", "running", "stopped"}]
    BY <1>4, ConcludeTypes DEF QueryReading
  <2>8. QED
    BY <1>4, <2>2, <2>4, <2>5, <2>6, <2>7 DEF QueryReading, TypeInv, deviceVars
<1>5. CASE QueryTerminated(k)
  <2>1. queryBox' \in [Position -> Seq(ReadingItem \cup SignalItem)]
    BY <1>5, QueryTakes DEF QueryTerminated
  <2>2. pending' \in [Position -> SUBSET Devices]
    BY <1>5 DEF QueryTerminated, TypeInv
  <2>3. query' \in [Position -> {"none", "starting", "asking", "running", "stopped"}]
    BY <1>5, ConcludeTypes DEF QueryTerminated
  <2>4. QED
    BY <1>5, <2>1, <2>2, <2>3 DEF QueryTerminated, TypeInv, deviceVars
<1>6. CASE QuerySkips(k)
  <2>1. queryBox' \in [Position -> Seq(ReadingItem \cup SignalItem)]
    BY <1>6, QueryTakes DEF QuerySkips
  <2>2. QED
    BY <1>6, <2>1 DEF QuerySkips, TypeInv, clientVars, deviceVars, queryVars
<1>7. QED
  BY <1>1, <1>2, <1>3, <1>4, <1>5, <1>6 DEF Query

LEMMA DeviceTypes ==
    ASSUME TypeInv, NEW d \in Devices, Device(d)
    PROVE  TypeInv'
<1>1. CASE DeviceRecord(d)
  <2>1. /\ deviceBox' \in [Devices -> Seq(RecordItem \cup ReadItem)]
        /\ Head(deviceBox[d]) \in RecordItem \cup ReadItem /\ IsRecord(Head(deviceBox[d]))
    BY <1>1, DeviceTakes DEF DeviceRecord, Handles, IsRecord
  <2>2. Head(deviceBox[d]).record \in 0 .. MaxCommands
    BY <2>1, DeviceItems, Numbers, SMT DEF Position
  <2>3. last_reading' \in [Devices -> 0 .. MaxCommands]
    BY <1>1, <2>2 DEF DeviceRecord, TypeInv
  <2>4. QED
    BY <1>1, <2>1, <2>3 DEF DeviceRecord, TypeInv, clientVars, queryVars
<1>2. CASE DeviceRead(d)
  <2>1. PICK k : k = Head(deviceBox[d]).read
    OBVIOUS
  <2>2. /\ deviceBox' \in [Devices -> Seq(RecordItem \cup ReadItem)]
        /\ Head(deviceBox[d]) \in RecordItem \cup ReadItem /\ "read" \in DOMAIN Head(deviceBox[d])
    BY <1>2, DeviceTakes DEF DeviceRead, Handles
  <2>3. PICK m : m = [reading |-> last_reading[d], device_id |-> d]
    OBVIOUS
  <2>4. m \in ReadingItem \cup SignalItem
    BY <2>3 DEF ReadingItem, TypeInv
  <2>5. queryBox' = queryBox \/ queryBox' = [queryBox EXCEPT ![k] = Append(@, m)]
    BY <1>2, <2>1, <2>3 DEF DeviceRead
  <2>6. queryBox \in [Position -> Seq(ReadingItem \cup SignalItem)]
    BY DEF TypeInv
  <2>7. queryBox' \in [Position -> Seq(ReadingItem \cup SignalItem)]
    <3>1. k \in Position
      BY <2>1, <2>2, DeviceItems
    <3>2. Append(queryBox[k], m) \in Seq(ReadingItem \cup SignalItem)
      BY <2>4, <2>6, <3>1, Added
    <3>3. QED
      BY <2>5, <2>6, <3>2
  <2>8. QED
    BY <1>2, <2>2, <2>7 DEF DeviceRead, TypeInv, clientVars, deviceVars, queryVars
<1>3. CASE DeviceRestarts(d)
  <2>1. deviceBox' \in [Devices -> Seq(RecordItem \cup ReadItem)]
    BY <1>3, DeviceTakes DEF DeviceRestarts, Handles
  <2>2. last_reading' \in [Devices -> 0 .. MaxCommands]
    BY <1>3, Numbers, SMT DEF DeviceRestarts, Restarted, TypeInv
  <2>3. QED
    BY <1>3, <2>1, <2>2 DEF DeviceRestarts, TypeInv, clientVars, queryVars
<1>4. CASE DeviceGivesUp(d) \/ DeviceStopped(d)
  <2>1. DeviceDrops(d) /\ UNCHANGED clientVars
    BY <1>4 DEF DeviceGivesUp, DeviceStopped
  <2>2. device' \in [Devices -> {"free", "live", "stopping", "stopped"}]
    BY <2>1 DEF DeviceDrops, TypeInv
  <2>3. deviceBox' \in [Devices -> Seq(RecordItem \cup ReadItem)]
    <3>1. <<>> \in Seq(RecordItem \cup ReadItem)
      BY SMT
    <3>2. QED
      BY <2>1, <3>1 DEF DeviceDrops, TypeInv
  <2>4. QED
    BY <2>1, <2>2, <2>3 DEF DeviceDrops, TypeInv, clientVars, queryVars
<1>5. CASE DeviceSignals(d)
  <2>1. device' \in [Devices -> {"free", "live", "stopping", "stopped"}]
    BY <1>5 DEF DeviceSignals, TypeInv
  <2>2. watchers' \in [Devices -> SUBSET Position]
    BY <1>5 DEF DeviceSignals, TypeInv
  <2>3. Terminated(d) \in ReadingItem \cup SignalItem /\ Terminated(d) \in CommandItem \cup SignalItem
    BY DEF Terminated, SignalItem
  <2>4. groupBox' \in Seq(CommandItem \cup SignalItem)
    BY <1>5, <2>3, Added DEF DeviceSignals, TypeInv
  <2>5. queryBox' \in [Position -> Seq(ReadingItem \cup SignalItem)]
    <3>1. \A k \in Position : /\ queryBox[k] \in Seq(ReadingItem \cup SignalItem)
                              /\ Signalled(d, queryBox[k]) \in Seq(ReadingItem \cup SignalItem)
      BY <2>3, Added DEF TypeInv, Signalled
    <3>2. QED
      BY <1>5, <3>1, Numbers DEF DeviceSignals
  <2>6. QED
    BY <1>5, <2>1, <2>2, <2>4, <2>5 DEF DeviceSignals, TypeInv, clientVars, queryVars
<1>6. QED
  BY <1>1, <1>2, <1>3, <1>4, <1>5 DEF Device

LEMMA NextTypes ==
    ASSUME TypeInv, PipeInv, [Next]_vars
    PROVE  TypeInv'
<1>1. CASE UNCHANGED vars
  BY <1>1 DEF TypeInv, vars, clientVars, deviceVars, queryVars
<1>2. CASE Next
  BY <1>2, ClientTypes, ManagerTypes, GroupTypes, QueryTypes, DeviceTypes, Numbers DEF Next
<1>3. QED
  BY <1>1, <1>2

----------------------------------------------------------------------------
(* Commands on their way.                                                  *)

LEMMA Orders ==
    /\ \A j, k \in Position : <<j, k>> \in Earlier <=> j < k
    /\ \A m, x \in CommandItem \cup SignalItem :
         <<m, x>> \in GroupOrder <=> (~ IsSignal(m) /\ ~ IsSignal(x) => m.command < x.command)
BY DEF Earlier, GroupOrder

LEMMA SentLength ==
    ASSUME TypeInv
    PROVE  /\ Len(log) \in Nat /\ Len(log) <= MaxCommands /\ MaxCommands \in Nat
           /\ Len(log) + 1 \in Place /\ \A k \in Position : k \in Nat /\ k \in Place
           /\ \A u \in Place : u \in Nat
BY Numbers, SMT DEF TypeInv, Position, Place

(* What a step does to the records that are relevant: each of them is on   *)
(* its way, or was already past it, or is k, which the group handles.      *)
Flow(k) ==
    /\ \A n \in Names : \A l \in Position :
         IsRecordOf(l, n)' /\ Relevant(l)' =>
           Upcoming(l)' \/ (IsRecordOf(l, n) /\ Relevant(l) /\ (~ Upcoming(l) \/ l = k))
    /\ \A l \in Position : l <= Len(log) => \A u \in Place : Upcoming(u)' => Upcoming(u) \/ l < u

LEMMA FlowPassed ==
    ASSUME TypeInv, PassedInv, NEW k, Flow(k),
           k \in Position => \A u \in Place : Upcoming(u)' => k < u
    PROVE  PassedInv'
<1> SUFFICES ASSUME NEW n \in Names, NEW l \in Position, IsRecordOf(l, n)', Relevant(l)',
                    ~ Upcoming(l)', NEW u \in Place, Upcoming(u)'
             PROVE  l < u
  BY DEF PassedInv
<1>1. IsRecordOf(l, n) /\ Relevant(l) /\ (~ Upcoming(l) \/ l = k)
  BY DEF Flow
<1>2. CASE l = k
  BY <1>2
<1>3. CASE ~ Upcoming(l)
  <2>1. \A v \in Place : Upcoming(v) => l < v
    BY <1>1, <1>3 DEF PassedInv
  <2>2. l <= Len(log)
    BY <1>1, SMT DEF IsRecordOf, TypeInv
  <2>3. QED
    BY <2>1, <2>2 DEF Flow
<1>4. QED
  BY <1>1, <1>2, <1>3

(* Nothing starts to be, or ceases to be, on its way.                      *)
Quiet ==
    /\ log' = log
    /\ \A u : Upcoming(u)' <=> Upcoming(u)
    /\ \A u : Started(u)' <=> Started(u)

LEMMA QuietFlow ==
    ASSUME Quiet
    PROVE  Flow(0)
<1>1. \A l : Relevant(l)' <=> Relevant(l)
  BY DEF Quiet, Relevant
<1>2. \A l, n : IsRecordOf(l, n)' <=> IsRecordOf(l, n)
  BY DEF Quiet, IsRecordOf
<1>3. QED
  BY <1>1, <1>2 DEF Flow, Quiet

(* A signal for the group is not a command.                                *)
LEMMA GroupSignalled ==
    ASSUME TypeInv, PipeInv, NEW d \in Devices, groupBox' = Append(groupBox, Terminated(d))
    PROVE  /\ \A k : [command |-> k] \in Range(groupBox') <=> [command |-> k] \in Range(groupBox)
           /\ Sorted(groupBox', GroupOrder)
<1>1. groupBox \in Seq(CommandItem \cup SignalItem) /\ Terminated(d) \in CommandItem \cup SignalItem
  BY DEF TypeInv, Terminated, SignalItem
<1>2. \A m : m \in Range(groupBox') <=> m = Terminated(d) \/ m \in Range(groupBox)
  BY <1>1, Added
<1>3. \A k : [command |-> k] \in Range(groupBox') <=> [command |-> k] \in Range(groupBox)
  BY <1>2, GroupItems
<1>4. \A m \in Range(groupBox) : <<m, Terminated(d)>> \in GroupOrder
  BY <1>1, Members, Orders, GroupItems
<1>5. Sorted(groupBox', GroupOrder)
  BY <1>1, <1>4, SortedAppend DEF PipeInv
<1>6. QED
  BY <1>3, <1>5

LEMMA QuietPipe ==
    ASSUME TypeInv, PipeInv, UNCHANGED <<log, managerBox, manager, group>>,
           \A u : Started(u)' <=> Started(u),
           groupBox' = groupBox \/ \E d \in Devices : groupBox' = Append(groupBox, Terminated(d))
    PROVE  Quiet /\ PipeInv'
<1>1. /\ \A k : [command |-> k] \in Range(groupBox') <=> [command |-> k] \in Range(groupBox)
      /\ Sorted(groupBox', GroupOrder)
  BY GroupSignalled DEF PipeInv
<1>2. \A u : Upcoming(u)' <=> Upcoming(u)
  BY <1>1 DEF Upcoming
<1>3. Quiet
  BY <1>2 DEF Quiet
<1>4. PipeInv'
  <2>1. /\ Sorted(managerBox', Earlier)
        /\ \A k \in Range(managerBox') : k <= Len(log')
        /\ group' = "stopped" => manager' = "stopped"
    BY DEF PipeInv
  <2>2. \A k \in Position : [command |-> k] \in Range(groupBox') =>
          k <= Len(log') /\ (manager' = "live" => \A j \in Range(managerBox') : k < j)
    BY <1>1 DEF PipeInv
  <2>3. \A k \in Position : Started(k)' => k <= Len(log') /\ \A u \in Place : Upcoming(u)' => k < u
    BY <1>2 DEF PipeInv
  <2>4. QED
    BY <1>1, <2>1, <2>2, <2>3 DEF PipeInv
<1>5. QED
  BY <1>3, <1>4

(* The client sends: the command is on its way, if anyone listens.         *)
LEMMA SendFlow ==
    ASSUME TypeInv, TypeInv', PipeInv, NEW c, Send(c)
    PROVE  PipeInv' /\ Flow(0)
<1>1. PICK k : k = Len(log) + 1
  OBVIOUS
<1>2. /\ log' = Append(log, c) /\ Len(log') = k /\ Len(log) \in Nat /\ k \in Position
      /\ \A l \in 1 .. Len(log) : log'[l] = log[l]
  BY <1>1, SentLength, SMT DEF Send, TypeInv, Position
<1>3. /\ UNCHANGED <<groupBox, manager, group, query>>
      /\ managerBox' = Append(managerBox, k) \/ (managerBox' = managerBox /\ manager = "stopped")
  BY <1>1 DEF Send, queryVars
<1>4. managerBox \in Seq(Position) /\ \A j \in Range(managerBox) : j \in Position /\ j <= Len(log)
  BY Members DEF TypeInv, PipeInv
<1>5. \A j : j \in Range(managerBox') => j \in Range(managerBox) \/ (j = k /\ manager # "stopped")
  BY <1>2, <1>3, <1>4, Added DEF Send
<1>6. manager # "stopped" => \A j : j \in Range(managerBox') <=> j \in Range(managerBox) \/ j = k
  BY <1>2, <1>3, <1>4, Added
<1>7. \A u : Started(u)' <=> Started(u)
  BY <1>3 DEF Started
<1>8. /\ manager = "live" => \A u : Upcoming(u)' <=> Upcoming(u) \/ u = k + 1
      /\ manager # "live" => \A u : Upcoming(u)' <=> Upcoming(u)
  <2>1. CASE manager = "live"
    BY <1>1, <1>2, <1>3, <1>6, <2>1 DEF Upcoming
  <2>2. CASE manager # "live"
    BY <1>3, <2>2 DEF Upcoming
  <2>3. QED
    BY <2>1, <2>2
<1>9. PipeInv'
  <2>1. Sorted(managerBox', Earlier)
    <3>1. ASSUME NEW j \in Range(managerBox) PROVE <<j, k>> \in Earlier
      <4>1. j \in Position /\ j \in Nat /\ j <= Len(log)
        BY <1>4, <3>1, SentLength
      <4>2. j < k
        BY <1>1, <1>2, <4>1, SMT
      <4>3. QED
        BY <1>2, <4>1, <4>2, Orders
    <3>2. QED
      BY <1>3, <1>4, <3>1, SortedAppend DEF PipeInv
  <2>2. ASSUME NEW j \in Range(managerBox') PROVE j <= Len(log')
    <3>1. j = k \/ (j \in Nat /\ j <= Len(log))
      BY <1>4, <1>5, <2>2, SentLength
    <3>2. QED
      BY <1>1, <1>2, <3>1, SMT
  <2>3. ASSUME NEW j \in Position, [command |-> j] \in Range(groupBox')
        PROVE  j <= Len(log') /\ (manager' = "live" => \A i \in Range(managerBox') : j < i)
    <3>1. j <= Len(log) /\ (manager = "live" => \A i \in Range(managerBox) : j < i) /\ j \in Nat
      BY <1>3, <2>3, SentLength DEF PipeInv
    <3>2. j < k
      BY <1>1, <1>2, <3>1, SMT
    <3>3. QED
      BY <1>2, <1>3, <1>5, <3>1, <3>2, SMT
  <2>4. ASSUME NEW j \in Position, Started(j)', NEW u \in Place, Upcoming(u)' PROVE j <= Len(log') /\ j < u
    <3>1. j <= Len(log) /\ j \in Nat /\ (Upcoming(u) => j < u)
      BY <1>7, <2>4, SentLength DEF PipeInv
    <3>2. QED
      BY <1>1, <1>2, <1>8, <2>4, <3>1, SMT
  <2>5. ASSUME NEW j \in Position, Started(j)' PROVE j <= Len(log')
    <3>1. j <= Len(log) /\ j \in Nat
      BY <1>7, <2>5, SentLength DEF PipeInv
    <3>2. QED
      BY <1>1, <1>2, <3>1, SMT
  <2>6. group' = "stopped" => manager' = "stopped"
    BY <1>3 DEF PipeInv
  <2>7. Sorted(groupBox', GroupOrder)
    BY <1>3 DEF PipeInv
  <2>8. QED
    BY <2>1, <2>2, <2>3, <2>4, <2>5, <2>6, <2>7 DEF PipeInv
<1>10. ASSUME NEW n \in Names, NEW l \in Position, IsRecordOf(l, n)', Relevant(l)', ~ Upcoming(l)'
       PROVE  IsRecordOf(l, n) /\ Relevant(l) /\ ~ Upcoming(l)
  <2>1. PICK u \in Place : l < u /\ (Upcoming(u)' \/ Started(u)')
    BY <1>10 DEF Relevant
  <2>2. ~ Upcoming(l)
    BY <1>8, <1>10
  <2>3. l # k
    <3>1. CASE manager = "live"
      BY <1>1, <2>2, <3>1 DEF Upcoming
    <3>2. CASE manager # "live"
      <4>1. Upcoming(u) \/ Started(u)
        BY <1>7, <1>8, <2>1, <3>2
      <4>2. Upcoming(u) => [command |-> u] \in Range(groupBox)
        BY <3>2 DEF Upcoming
      <4>3. [command |-> u] \in Range(groupBox) => u \in Position
        BY Members, GroupItems, SMT DEF TypeInv
      <4>4. u <= Len(log)
        BY <4>1, <4>2, <4>3 DEF PipeInv, Started
      <4>5. QED
        BY <1>1, <1>2, <2>1, <4>4, SentLength, SMT
    <3>3. QED
      BY <3>1, <3>2
  <2>4. l \in 1 .. Len(log)
    BY <1>1, <1>2, <1>10, <2>3, SMT DEF IsRecordOf
  <2>5. IsRecordOf(l, n)
    BY <1>2, <1>10, <2>4 DEF IsRecordOf
  <2>6. Relevant(l)
    <3>1. CASE Upcoming(u) \/ Started(u)
      BY <2>1, <3>1 DEF Relevant
    <3>2. CASE ~ (Upcoming(u) \/ Started(u))
      <4>1. manager = "live"
        BY <1>7, <1>8, <2>1, <3>2
      <4>2. Upcoming(k) /\ k \in Place /\ l < k
        BY <1>1, <1>2, <2>4, <4>1, SentLength, SMT DEF Upcoming
      <4>3. QED
        BY <4>2 DEF Relevant
    <3>3. QED
      BY <3>1, <3>2
  <2>7. QED
    BY <2>2, <2>5, <2>6
<1>11. ASSUME NEW l \in Position, l <= Len(log), NEW u \in Place, Upcoming(u)' PROVE Upcoming(u) \/ l < u
  BY <1>1, <1>2, <1>8, <1>11, SentLength, SMT
<1>12. Flow(0)
  BY <1>10, <1>11 DEF Flow
<1>13. QED
  BY <1>9, <1>12

(* The manager passes a command on ...                                     *)
LEMMA ManagerPasses ==
    ASSUME TypeInv, PipeInv, manager = "live", managerBox # <<>>, managerBox' = Tail(managerBox),
           UNCHANGED <<log, manager, query>>, group' # "stopped",
           groupBox' = Append(groupBox, [command |-> Head(managerBox)])
    PROVE  PipeInv' /\ Quiet
<1>1. PICK k : k = Head(managerBox)
  OBVIOUS
<1>2. managerBox \in Seq(Position) /\ groupBox \in Seq(CommandItem \cup SignalItem)
  BY DEF TypeInv
<1>3. /\ k \in Position /\ k \in Range(managerBox)
      /\ \A m : m \in Range(managerBox) <=> m = k \/ m \in Range(managerBox')
      /\ managerBox' \in Seq(Position)
  BY <1>1, <1>2, Taken
<1>4. Sorted(managerBox', Earlier) /\ \A m \in Range(managerBox') : <<k, m>> \in Earlier
  BY <1>1, <1>2, SortedTail DEF PipeInv
<1>5. PICK x : x = [command |-> k] /\ x \in CommandItem \cup SignalItem
  <2>1. [command |-> k] \in CommandItem
    BY <1>3 DEF CommandItem
  <2>2. QED
    BY <2>1
<1>6. \A m : m \in Range(groupBox') <=> m = x \/ m \in Range(groupBox)
  BY <1>1, <1>2, <1>5, Added
<1>7. \A j : [command |-> j] \in Range(groupBox') <=> [command |-> j] \in Range(groupBox) \/ j = k
  BY <1>5, <1>6, GroupItems
<1>8. \A m \in Range(managerBox') : k < m
  BY <1>3, <1>4, Members, Orders
<1>9. \A u : Upcoming(u)' <=> Upcoming(u)
  BY <1>3, <1>7 DEF Upcoming
<1>10. \A u : Started(u)' <=> Started(u)
  BY DEF Started
<1>11. Quiet
  BY <1>9, <1>10 DEF Quiet
<1>12. PipeInv'
  <2>1. ASSUME NEW m \in Range(groupBox) PROVE <<m, x>> \in GroupOrder
    <3>1. m \in CommandItem \cup SignalItem
      BY <1>2, <2>1, Members
    <3>2. ASSUME ~ IsSignal(m) PROVE m.command < k
      <4>1. m.command \in Position /\ m = [command |-> m.command]
        BY <3>1, <3>2, GroupItems
      <4>2. QED
        BY <1>3, <2>1, <4>1 DEF PipeInv
    <3>3. QED
      BY <1>5, <3>1, <3>2, Orders, GroupItems
  <2>2. Sorted(groupBox', GroupOrder)
    BY <1>1, <1>2, <1>5, <2>1, SortedAppend DEF PipeInv
  <2>3. \A j \in Range(managerBox') : j <= Len(log')
    BY <1>3 DEF PipeInv
  <2>4. ASSUME NEW j \in Position, [command |-> j] \in Range(groupBox')
        PROVE  j <= Len(log') /\ (manager' = "live" => \A i \in Range(managerBox') : j < i)
    <3>1. CASE j = k
      BY <1>3, <1>8, <3>1 DEF PipeInv
    <3>2. CASE [command |-> j] \in Range(groupBox)
      BY <1>3, <3>2 DEF PipeInv
    <3>3. QED
      BY <1>7, <2>4, <3>1, <3>2
  <2>5. \A j \in Position : Started(j)' => j <= Len(log') /\ \A u \in Place : Upcoming(u)' => j < u
    BY <1>9, <1>10 DEF PipeInv
  <2>6. QED
    BY <1>4, <2>2, <2>3, <2>4, <2>5 DEF PipeInv
<1>13. QED
  BY <1>11, <1>12

(* ... or answers an average itself, before there is a group; or stops,    *)
(* when what it drops is behind all the group has.                         *)
LEMMA ManagerDrops ==
    ASSUME TypeInv, PipeInv, manager = "live", UNCHANGED <<log, groupBox, group, query>>,
           \/ /\ managerBox # <<>> /\ managerBox' = Tail(managerBox) /\ manager' = manager
              /\ log[Head(managerBox)] = Average
           \/ managerBox' = <<>> /\ manager' = "draining"
    PROVE  PipeInv' /\ Flow(0)
<1>1. managerBox \in Seq(Position)
  BY DEF TypeInv
<1>2. /\ Sorted(managerBox', Earlier)
      /\ \A m : m \in Range(managerBox') => m \in Range(managerBox)
  <2>1. CASE managerBox # <<>> /\ managerBox' = Tail(managerBox)
    BY <1>1, <2>1, Taken, SortedTail DEF PipeInv
  <2>2. CASE managerBox' = <<>>
    BY <2>2, EmptyBox
  <2>3. QED
    BY <2>1, <2>2
<1>3. group # "stopped"
  BY DEF PipeInv
<1>4. \A u : Started(u)' <=> Started(u)
  BY DEF Started
<1>5. \A u : Upcoming(u)' => Upcoming(u)
  BY <1>2 DEF Upcoming
<1>6. PipeInv'
  <2>1. \A k \in Range(managerBox') : k <= Len(log')
    BY <1>2 DEF PipeInv
  <2>2. \A k \in Position : [command |-> k] \in Range(groupBox') =>
          k <= Len(log') /\ (manager' = "live" => \A j \in Range(managerBox') : k < j)
    BY <1>2 DEF PipeInv
  <2>3. \A j \in Position : Started(j)' => j <= Len(log') /\ \A u \in Place : Upcoming(u)' => j < u
    BY <1>4, <1>5 DEF PipeInv
  <2>4. Sorted(groupBox', GroupOrder)
    BY DEF PipeInv
  <2>5. QED
    BY <1>2, <1>3, <2>1, <2>2, <2>3, <2>4 DEF PipeInv
<1>7. ASSUME NEW n \in Names, NEW l \in Position, IsRecordOf(l, n)', Relevant(l)', ~ Upcoming(l)'
      PROVE  IsRecordOf(l, n) /\ Relevant(l) /\ ~ Upcoming(l)
  <2>1. PICK u \in Place : l < u /\ (Upcoming(u)' \/ Started(u)')
    BY <1>7 DEF Relevant
  <2>2. Relevant(l)
    BY <1>4, <1>5, <2>1 DEF Relevant
  <2>3. IsRecordOf(l, n)
    BY <1>7 DEF IsRecordOf
  <2>4. ASSUME Upcoming(l) PROVE FALSE
    <3>1. [command |-> l] \notin Range(groupBox) /\ (l \in Range(managerBox) \/ l = Len(log) + 1)
      BY <1>7, <2>4 DEF Upcoming
    <3>2. l # Len(log) + 1 /\ l \in 1 .. Len(log)
      BY <2>3, SentLength, SMT DEF IsRecordOf
    <3>3. l \in Range(managerBox)
      BY <3>1, <3>2
    <3>4. CASE manager' = "draining"
      <4>1. Upcoming(u)' => u \in Position /\ [command |-> u] \in Range(groupBox)
        BY <3>4, Members, GroupItems, SMT DEF Upcoming, TypeInv
      <4>2. Upcoming(u)' => u < l
        BY <3>3, <4>1 DEF PipeInv
      <4>3. Started(u)' => u \in Position /\ u < l
        BY <1>4, <2>4, SentLength DEF PipeInv, Started
      <4>4. QED
        BY <2>1, <4>2, <4>3, SentLength, SMT
    <3>5. CASE manager' = manager /\ managerBox' = Tail(managerBox) /\ managerBox # <<>>
      <4>1. l = Head(managerBox) \/ l \in Range(managerBox')
        BY <1>1, <3>3, <3>5, Taken
      <4>2. log[Head(managerBox)].op # "record"
        BY <3>5, SMT DEF Average
      <4>3. l # Head(managerBox)
        BY <2>3, <4>2 DEF IsRecordOf
      <4>4. QED
        BY <1>7, <3>5, <4>1, <4>3 DEF Upcoming
    <3>6. QED
      BY <3>4, <3>5
  <2>5. QED
    BY <2>2, <2>3, <2>4
<1>8. Flow(0)
  BY <1>5, <1>7 DEF Flow
<1>9. QED
  BY <1>6, <1>8

LEMMA ManagerFlow ==
    ASSUME TypeInv, PipeInv, Manager
    PROVE  PipeInv' /\ Flow(0)
<1>1. CASE ManagerRecord
  <2>1. PipeInv' /\ Quiet
    BY <1>1, ManagerPasses DEF ManagerRecord, clientVars, queryVars
  <2>2. QED
    BY <2>1, QuietFlow
<1>2. CASE ManagerAverage
  <2>1. CASE group = "live" /\ groupBox' = Append(groupBox, [command |-> Head(managerBox)])
    <3>1. PipeInv' /\ Quiet
      BY <1>2, <2>1, ManagerPasses DEF ManagerAverage, queryVars
    <3>2. QED
      BY <3>1, QuietFlow
  <2>2. CASE groupBox' = groupBox
    BY <1>2, <2>2, ManagerDrops DEF ManagerAverage, queryVars
  <2>3. QED
    BY <1>2, <2>1, <2>2 DEF ManagerAverage
<1>3. CASE ManagerShutdown
  BY <1>3, ManagerDrops DEF ManagerShutdown, queryVars
<1>4. CASE ManagerCloses
  <2>1. /\ UNCHANGED <<log, managerBox, groupBox, group, query>> /\ manager # "live"
        /\ manager' = "stopped"
    BY <1>4 DEF ManagerCloses, clientVars, queryVars
  <2>2. (\A u : Upcoming(u)' <=> Upcoming(u)) /\ \A u : Started(u)' <=> Started(u)
    BY <2>1 DEF Upcoming, Started
  <2>3. Quiet
    BY <2>1, <2>2 DEF Quiet
  <2>4. PipeInv'
    BY <2>1, <2>2 DEF PipeInv
  <2>5. QED
    BY <2>3, <2>4, QuietFlow
<1>5. QED
  BY <1>1, <1>2, <1>3, <1>4 DEF Manager

(* The group handles a command: it is past its way, and precedes those     *)
(* still on theirs.                                                        *)
LEMMA GroupPasses ==
    ASSUME TypeInv, PipeInv, GroupHandles, ~ IsSignal(Head(groupBox)),
           UNCHANGED <<log, managerBox, manager, group>>,
           NEW k, k = Head(groupBox).command, \A u : Started(u)' <=> Started(u) \/ (u = k /\ Started(k)')
    PROVE  /\ PipeInv' /\ Flow(k) /\ k \in Position /\ Upcoming(k) /\ k \in 1 .. Len(log)
           /\ \A u \in Place : Upcoming(u)' => k < u
<1>1. /\ groupBox \in Seq(CommandItem \cup SignalItem) /\ groupBox # <<>> /\ groupBox' = Tail(groupBox)
      /\ groupBox' \in Seq(CommandItem \cup SignalItem)
  BY GroupTakes DEF TypeInv, GroupHandles
<1>2. PICK x : x = Head(groupBox)
  OBVIOUS
<1>3. /\ k \in Position /\ x = [command |-> k] /\ k \in 1 .. Len(log) /\ x \in CommandItem \cup SignalItem
      /\ \A m : m \in Range(groupBox) <=> m = x \/ m \in Range(groupBox')
  BY <1>2, GroupTakes
<1>4. Sorted(groupBox', GroupOrder) /\ \A m \in Range(groupBox') : <<x, m>> \in GroupOrder
  BY <1>1, <1>2, SortedTail DEF PipeInv
<1>5. ASSUME NEW j, [command |-> j] \in Range(groupBox') PROVE j \in Position /\ k < j
  <2>1. PICK m : m = [command |-> j]
    OBVIOUS
  <2>2. m \in CommandItem \cup SignalItem /\ <<x, m>> \in GroupOrder /\ ~ IsSignal(m) /\ m.command = j
    BY <1>1, <1>4, <1>5, <2>1, Members, GroupItems
  <2>3. QED
    BY <1>2, <1>3, <2>2, Orders, GroupItems, SMT
<1>6. \A j : [command |-> j] \in Range(groupBox) <=> [command |-> j] \in Range(groupBox') \/ j = k
  BY <1>3, GroupItems
<1>7. /\ \A u : Upcoming(u)' => Upcoming(u)
      /\ \A u : Upcoming(u) => Upcoming(u)' \/ u = k
      /\ Upcoming(k)
  BY <1>6 DEF Upcoming
<1>8. \A u \in Place : Upcoming(u)' => k < u
  <2>1. manager = "live" => \A j \in Range(managerBox) : k < j
    BY <1>3, <1>6 DEF PipeInv
  <2>2. k < Len(log) + 1
    BY <1>3, SentLength, SMT
  <2>3. QED
    BY <1>5, <2>1, <2>2 DEF Upcoming
<1>9. PipeInv'
  <2>1. \A j \in Position : [command |-> j] \in Range(groupBox') =>
          j <= Len(log') /\ (manager' = "live" => \A i \in Range(managerBox') : j < i)
    BY <1>6 DEF PipeInv
  <2>2. ASSUME NEW j \in Position, Started(j)' PROVE j <= Len(log') /\ \A u \in Place : Upcoming(u)' => j < u
    <3>1. CASE Started(j)
      BY <1>7, <3>1 DEF PipeInv
    <3>2. CASE j = k
      BY <1>3, <1>8, <3>2, SentLength, SMT
    <3>3. QED
      BY <2>2, <3>1, <3>2
  <2>3. /\ Sorted(managerBox', Earlier) /\ \A j \in Range(managerBox') : j <= Len(log')
        /\ group' = "stopped" => manager' = "stopped"
    BY DEF PipeInv
  <2>4. QED
    BY <1>4, <2>1, <2>2, <2>3 DEF PipeInv
<1>10. Flow(k)
  <2>1. ASSUME NEW l, Relevant(l)' PROVE Relevant(l)
    <3>1. PICK u \in Place : l < u /\ (Upcoming(u)' \/ Started(u)')
      BY <2>1 DEF Relevant
    <3>2. Upcoming(u) \/ Started(u)
      BY <1>7, <3>1
    <3>3. QED
      BY <3>1, <3>2 DEF Relevant
  <2>2. \A l, n : IsRecordOf(l, n)' <=> IsRecordOf(l, n)
    BY DEF IsRecordOf
  <2>3. QED
    BY <1>7, <2>1, <2>2 DEF Flow
<1>11. QED
  BY <1>3, <1>7, <1>8, <1>9, <1>10

LEMMA GroupTerminatedFlow ==
    ASSUME TypeInv, PipeInv, GroupTerminated
    PROVE  PipeInv' /\ Flow(0)
<1>1. /\ groupBox \in Seq(CommandItem \cup SignalItem) /\ groupBox # <<>> /\ groupBox' = Tail(groupBox)
      /\ IsSignal(Head(groupBox)) /\ UNCHANGED <<log, managerBox, manager, group, query>> /\ GroupHandles
  BY DEF TypeInv, GroupHandles, GroupTerminated, clientVars, queryVars
<1>2. \A k : [command |-> k] \in Range(groupBox') <=> [command |-> k] \in Range(groupBox)
  BY <1>1, GroupTakes, GroupItems
<1>3. Sorted(groupBox', GroupOrder)
  BY <1>1, SortedTail DEF PipeInv
<1>4. (\A u : Upcoming(u)' <=> Upcoming(u)) /\ \A u : Started(u)' <=> Started(u)
  BY <1>1, <1>2 DEF Upcoming, Started
<1>5. Quiet
  BY <1>1, <1>4 DEF Quiet
<1>6. PipeInv'
  <2>1. \A k \in Position : [command |-> k] \in Range(groupBox') =>
          k <= Len(log') /\ (manager' = "live" => \A j \in Range(managerBox') : k < j)
    BY <1>1, <1>2 DEF PipeInv
  <2>2. \A j \in Position : Started(j)' => j <= Len(log') /\ \A u \in Place : Upcoming(u)' => j < u
    BY <1>1, <1>4 DEF PipeInv
  <2>3. /\ Sorted(managerBox', Earlier) /\ \A j \in Range(managerBox') : j <= Len(log')
        /\ group' = "stopped" => manager' = "stopped"
    BY <1>1 DEF PipeInv
  <2>4. QED
    BY <1>3, <2>1, <2>2, <2>3 DEF PipeInv
<1>7. QED
  BY <1>5, <1>6, QuietFlow

(* The group stops: all it still had was behind every query that started.  *)
LEMMA GroupStoppedFlow ==
    ASSUME TypeInv, PipeInv, GroupStopped
    PROVE  PipeInv' /\ Flow(0)
<1>1. /\ groupBox' = <<>> /\ manager = "stopped" /\ UNCHANGED <<log, managerBox, manager, query>>
  BY DEF GroupStopped, queryVars
<1>2. \A m : m \notin Range(groupBox')
  BY <1>1, EmptyBox
<1>3. (\A u : ~ Upcoming(u)') /\ \A u : Started(u)' <=> Started(u)
  BY <1>1, <1>2 DEF Upcoming, Started
<1>4. PipeInv'
  <2>1. Sorted(groupBox', GroupOrder)
    BY <1>1, EmptyBox
  <2>2. QED
    BY <1>1, <1>2, <1>3, <2>1 DEF PipeInv
<1>5. ASSUME NEW n \in Names, NEW l \in Position, IsRecordOf(l, n)', Relevant(l)'
      PROVE  IsRecordOf(l, n) /\ Relevant(l) /\ ~ Upcoming(l)
  <2>1. PICK u \in Place : l < u /\ Started(u)
    BY <1>3, <1>5 DEF Relevant
  <2>2. u \in Position /\ u \in Nat /\ l \in Nat /\ l \in Place
    BY <2>1, SentLength DEF Started
  <2>3. Upcoming(l) => u < l
    BY <2>1, <2>2 DEF PipeInv
  <2>4. Relevant(l)
    BY <2>1 DEF Relevant
  <2>5. IsRecordOf(l, n)
    BY <1>1, <1>5 DEF IsRecordOf
  <2>6. QED
    BY <2>1, <2>2, <2>3, <2>4, <2>5, SMT
<1>6. Flow(0)
  BY <1>3, <1>5 DEF Flow
<1>7. QED
  BY <1>4, <1>6

LEMMA GroupAverageFlow ==
    ASSUME TypeInv, PipeInv, GroupAverage
    PROVE  /\ PipeInv' /\ Flow(0)
           /\ ~ Started(Head(groupBox).command) /\ Head(groupBox).command \in Position
<1>1. PICK k : k = Head(groupBox).command
  OBVIOUS
<1>2. /\ GroupHandles /\ ~ IsSignal(Head(groupBox)) /\ log[k] = Average
      /\ UNCHANGED <<log, managerBox, manager, group>> /\ query' = [query EXCEPT ![k] = "starting"]
  BY <1>1 DEF GroupAverage, clientVars
<1>3. k \in Position
  BY <1>1, <1>2, GroupTakes
<1>4. \A u : Started(u)' <=> Started(u) \/ (u = k /\ Started(k)')
  BY <1>2, <1>3 DEF Started, TypeInv
<1>5. PipeInv' /\ Flow(k) /\ Upcoming(k)
  BY <1>1, <1>2, <1>4, GroupPasses
<1>6. ~ Started(k)
  <2>1. k \in Place /\ k \in Nat
    BY <1>3, SentLength
  <2>2. QED
    BY <1>3, <1>5, <2>1, SMT DEF PipeInv
<1>7. \A n : ~ IsRecordOf(k, n)
  BY <1>2, SMT DEF IsRecordOf, Average
<1>8. Flow(0)
  BY <1>5, <1>7 DEF Flow
<1>9. QED
  BY <1>1, <1>3, <1>5, <1>6, <1>8

(* Queries and devices only move what is past the group.                   *)
LEMMA OtherFlow ==
    ASSUME TypeInv, PipeInv, \/ \E k \in Position : Query(k)
                             \/ \E d \in Devices : Device(d)
                             \/ UNCHANGED vars
    PROVE  PipeInv' /\ Quiet
<1>1. CASE \E d \in Devices : Device(d)
  <2>1. PICK d \in Devices : Device(d)
    BY <1>1
  <2>2. /\ UNCHANGED <<log, managerBox, manager, group, query>>
        /\ groupBox' = groupBox \/ groupBox' = Append(groupBox, Terminated(d))
    BY <2>1 DEF Device, DeviceRecord, DeviceRead, DeviceRestarts, DeviceGivesUp, DeviceStopped,
                DeviceDrops, DeviceSignals, clientVars, queryVars
  <2>3. \A u : Started(u)' <=> Started(u)
    BY <2>2 DEF Started
  <2>4. QED
    BY <2>2, <2>3, QuietPipe
<1>2. CASE \E k \in Position : Query(k)
  <2>1. PICK k \in Position : Query(k)
    BY <1>2
  <2>2. UNCHANGED <<log, managerBox, manager, group, groupBox>>
    BY <2>1 DEF Query, QueryStart, QueryWatch, QueryRead, QueryReading, QueryTerminated, QuerySkips,
                QueryStopped, clientVars
  <2>3. /\ \A j \in Position \ {k} : query'[j] = query[j]
        /\ query'[k] # query[k] => query[k] # "none" /\ query'[k] # "none"
    <3>1. CASE QueryStart(k) \/ QueryStopped(k) \/ QueryRead(k)
      BY <3>1 DEF QueryStart, QueryStopped, QueryRead, Conclude, TypeInv
    <3>2. CASE QueryWatch(k) \/ QuerySkips(k)
      BY <3>2 DEF QueryWatch, QuerySkips, queryVars
    <3>3. CASE QueryReading(k) \/ QueryTerminated(k)
      <4>1. ConcludeOrContinue(k) /\ query[k] = "running"
        BY <3>3 DEF QueryReading, QueryTerminated
      <4>2. QED
        BY <4>1, ConcludeTypes
    <3>4. QED
      BY <2>1, <3>1, <3>2, <3>3 DEF Query
  <2>4. \A u : Started(u)' <=> Started(u)
    BY <2>3 DEF Started
  <2>5. QED
    BY <2>2, <2>4, QuietPipe
<1>3. CASE UNCHANGED vars
  <2>1. UNCHANGED <<log, managerBox, manager, group, groupBox, query>>
    BY <1>3 DEF vars, clientVars, queryVars
  <2>2. \A u : Started(u)' <=> Started(u)
    BY <2>1 DEF Started
  <2>3. QED
    BY <2>1, <2>2, QuietPipe
<1>4. QED
  BY <1>1, <1>2, <1>3

----------------------------------------------------------------------------
(* Devices.                                                                *)

LEMMA DeviceOrders ==
    \A m, x \in RecordItem \cup ReadItem :
      <<m, x>> \in DeviceOrder <=>
        /\ IsRecord(m) /\ IsRecord(x) => m.record < x.record
        /\ ~ IsRecord(m) /\ IsRecord(x) => m.read < x.record
        /\ ~ IsRecord(m) /\ ~ IsRecord(x) => m.read # x.read
BY SMT DEF DeviceOrder

LEMMA BoxItems ==
    ASSUME TypeInv, NEW d \in Devices
    PROVE  /\ deviceBox[d] \in Seq(RecordItem \cup ReadItem)
           /\ \A m \in Range(deviceBox[d]) : m \in RecordItem \cup ReadItem
           /\ \A l : [record |-> l] \in Range(deviceBox[d]) => l \in Position
           /\ \A k : [read |-> k] \in Range(deviceBox[d]) => k \in Position
<1>1. deviceBox[d] \in Seq(RecordItem \cup ReadItem)
  BY DEF TypeInv
<1>2. \A m \in Range(deviceBox[d]) : m \in RecordItem \cup ReadItem
  BY <1>1, Members
<1>3. QED
  BY <1>1, <1>2, DeviceItems, SMT

LEMMA RecordsStay ==
    ASSUME TypeInv, NEW c, log' = log \/ Send(c), NEW l, NEW n, IsRecordOf(l, n)
    PROVE  IsRecordOf(l, n)'
<1>1. CASE log' = log
  BY <1>1 DEF IsRecordOf
<1>2. CASE Send(c)
  <2>1. log' = Append(log, c) /\ log \in Seq(Command) /\ l \in 1 .. Len(log)
    BY <1>2 DEF Send, TypeInv, IsRecordOf
  <2>2. log'[l] = log[l] /\ l \in 1 .. Len(log')
    BY <2>1, SMT
  <2>3. QED
    BY <2>2 DEF IsRecordOf
<1>3. QED
  BY <1>1, <1>2

(* The devices that are left hold and have ahead what they did.            *)
LEMMA HeldKept ==
    ASSUME HeldInv, Flow(0),
           \A n \in Names : \A d \in devices'[n] : device'[d] = "live" =>
             /\ d \in devices[n] /\ device[d] = "live" /\ last_reading'[d] = last_reading[d]
             /\ \A l \in Position :
                  [record |-> l] \in Range(deviceBox'[d]) <=> [record |-> l] \in Range(deviceBox[d])
    PROVE  HeldInv'
<1> SUFFICES ASSUME NEW n \in Names, NEW d \in devices'[n], NEW l \in Position,
                    device'[d] = "live", IsRecordOf(l, n)', Relevant(l)', ~ Upcoming(l)',
                    [record |-> l] \notin Range(deviceBox'[d])
             PROVE  /\ \A r \in Position : [record |-> r] \in Range(deviceBox'[d]) => l < r
                    /\ last_reading'[d] = 0 \/ l <= last_reading'[d]
  BY DEF HeldInv
<1>1. IsRecordOf(l, n) /\ Relevant(l) /\ ~ Upcoming(l)
  <2>1. l # 0
    BY Numbers, SMT DEF Position
  <2>2. QED
    BY <2>1 DEF Flow
<1>2. /\ d \in devices[n] /\ device[d] = "live" /\ last_reading'[d] = last_reading[d]
      /\ \A r \in Position :
           [record |-> r] \in Range(deviceBox'[d]) <=> [record |-> r] \in Range(deviceBox[d])
  OBVIOUS
<1>3. /\ \A r \in Position : [record |-> r] \in Range(deviceBox[d]) => l < r
      /\ last_reading[d] = 0 \/ l <= last_reading[d]
  BY <1>1, <1>2 DEF HeldInv
<1>4. QED
  BY <1>2, <1>3

LEMMA BoxKept ==
    ASSUME BoxInv, \A l, n : IsRecordOf(l, n) => IsRecordOf(l, n)',
           \A d \in Devices : Sorted(deviceBox'[d], DeviceOrder),
           \A d \in Devices : \A k \in Position : [read |-> k] \in Range(deviceBox'[d]) => Started(k)',
           \A n \in Names : \A d \in devices'[n] :
             /\ d \in devices[n] /\ last_reading'[d] = last_reading[d]
             /\ \A l \in Position :
                  [record |-> l] \in Range(deviceBox'[d]) => [record |-> l] \in Range(deviceBox[d])
    PROVE  BoxInv'
<1>1. ASSUME NEW n \in Names, NEW d \in devices'[n], NEW l \in Position,
             [record |-> l] \in Range(deviceBox'[d])
      PROVE  IsRecordOf(l, n)' /\ last_reading'[d] < l
  BY <1>1 DEF BoxInv
<1>2. ASSUME NEW n \in Names, NEW d \in devices'[n], last_reading'[d] # 0
      PROVE  IsRecordOf(last_reading[d], n)' /\ last_reading'[d] = last_reading[d]
  BY <1>2 DEF BoxInv
<1>3. QED
  BY <1>1, <1>2, SMT DEF BoxInv, IsRecordOf

(* Steps which leave the devices alone.                                    *)
LEMMA DevicesAlone ==
    ASSUME TypeInv, TreeInv, BoxInv, HeldInv, Flow(0), NEW c, log' = log \/ Send(c),
           UNCHANGED <<devices, device, deviceBox, last_reading>>,
           \A d \in Devices : Terminated(d) \in Range(groupBox') => Terminated(d) \in Range(groupBox),
           \A u : Started(u) => Started(u)'
    PROVE  TreeInv' /\ BoxInv' /\ HeldInv'
<1>1. TreeInv'
  BY DEF TreeInv
<1>2. BoxInv'
  <2>1. /\ \A d \in Devices : Sorted(deviceBox'[d], DeviceOrder)
        /\ \A d \in Devices : \A k \in Position : [read |-> k] \in Range(deviceBox'[d]) => Started(k)'
    BY DEF BoxInv
  <2>2. \A l, n : IsRecordOf(l, n) => IsRecordOf(l, n)'
    BY RecordsStay
  <2>3. QED
    BY <2>1, <2>2, BoxKept
<1>3. HeldInv'
  BY HeldKept
<1>4. QED
  BY <1>1, <1>2, <1>3

(* A query tells a device to be read, and a device is read.                *)
LEMMA ReadsComeAndGo ==
    ASSUME TypeInv, TreeInv, BoxInv, HeldInv, Flow(0),
           UNCHANGED <<log, groupBox, devices, device, last_reading>>, \A u : Started(u) => Started(u)',
           \A d \in Devices : device[d] # "live" => deviceBox'[d] = <<>>,
           \A d \in Devices : Sorted(deviceBox'[d], DeviceOrder),
           \A d \in Devices : \A k \in Position : [read |-> k] \in Range(deviceBox'[d]) => Started(k)',
           \A d \in Devices : \A l \in Position :
             [record |-> l] \in Range(deviceBox'[d]) <=> [record |-> l] \in Range(deviceBox[d])
    PROVE  TreeInv' /\ BoxInv' /\ HeldInv'
<1>1. \A n \in Names : devices[n] \subseteq Devices
  BY DEF TypeInv
<1>2. TreeInv'
  BY DEF TreeInv
<1>3. BoxInv'
  <2>1. \A l, n : IsRecordOf(l, n) => IsRecordOf(l, n)'
    BY DEF IsRecordOf
  <2>2. QED
    BY <1>1, <2>1, BoxKept
<1>4. HeldInv'
  BY <1>1, HeldKept
<1>5. QED
  BY <1>2, <1>3, <1>4

LEMMA ToldSorted ==
    ASSUME TypeInv, TreeInv, BoxInv, NEW d \in Devices, NEW x \in RecordItem \cup ReadItem,
           TellDevice(d, x), \A m \in Range(deviceBox[d]) : <<m, x>> \in DeviceOrder
    PROVE  /\ \A e \in Devices : Sorted(deviceBox'[e], DeviceOrder)
           /\ \A e \in Devices : device[e] # "live" => deviceBox'[e] = <<>>
           /\ \A e \in Devices : \A m :
                m \in Range(deviceBox'[e]) <=>
                  m \in Range(deviceBox[e]) \/ (e = d /\ m = x /\ device[d] = "live")
<1>1. /\ \A e \in Devices \ {d} : deviceBox'[e] = deviceBox[e]
      /\ device[d] # "live" => deviceBox'[d] = deviceBox[d]
      /\ device[d] = "live" => deviceBox'[d] = Append(deviceBox[d], x)
  BY TellTypes
<1>2. deviceBox[d] \in Seq(RecordItem \cup ReadItem)
  BY DEF TypeInv
<1>3. Sorted(Append(deviceBox[d], x), DeviceOrder)
  BY <1>2, SortedAppend DEF BoxInv
<1>4. \A e \in Devices : Sorted(deviceBox'[e], DeviceOrder)
  BY <1>1, <1>3 DEF BoxInv
<1>5. \A e \in Devices : device[e] # "live" => deviceBox'[e] = <<>>
  BY <1>1 DEF TreeInv
<1>6. \A m : m \in Range(Append(deviceBox[d], x)) <=> m = x \/ m \in Range(deviceBox[d])
  BY <1>2, Added
<1>7. \A e \in Devices : \A m :
        m \in Range(deviceBox'[e]) <=>
          m \in Range(deviceBox[e]) \/ (e = d /\ m = x /\ device[d] = "live")
  BY <1>1, <1>6
<1>8. QED
  BY <1>4, <1>5, <1>7

LEMMA QueryReadDevices ==
    ASSUME TypeInv, TreeInv, BoxInv, HeldInv, QueryInv, Quiet, NEW k \in Position, QueryRead(k)
    PROVE  TreeInv' /\ BoxInv' /\ HeldInv'
<1>1. PICK d : d \in asked[k] /\ TellDevice(d, [read |-> k])
  BY DEF QueryRead
<1>2. /\ UNCHANGED <<log, groupBox, devices, device, last_reading>>
      /\ query[k] # "none" /\ d \in Devices /\ [read |-> k] \in RecordItem \cup ReadItem
  BY <1>1 DEF QueryRead, clientVars, deviceVars, TypeInv, ReadItem
<1>3. [read |-> k] \notin Range(deviceBox[d])
  BY <1>1, <1>2 DEF QueryInv, Awaits
<1>4. ASSUME NEW m \in Range(deviceBox[d]) PROVE <<m, [read |-> k]>> \in DeviceOrder
  <2>1. m \in RecordItem \cup ReadItem /\ (~ IsRecord(m) => m = [read |-> m.read])
    BY <1>2, <1>4, BoxItems, DeviceItems
  <2>2. ~ IsRecord(m) => m.read # k
    BY <1>3, <1>4, <2>1
  <2>3. QED
    BY <1>2, <2>1, <2>2, DeviceOrders, DeviceItems
<1>5. /\ \A e \in Devices : Sorted(deviceBox'[e], DeviceOrder)
      /\ \A e \in Devices : device[e] # "live" => deviceBox'[e] = <<>>
      /\ \A e \in Devices : \A m :
           m \in Range(deviceBox'[e]) <=>
             m \in Range(deviceBox[e]) \/ (e = d /\ m = [read |-> k] /\ device[d] = "live")
  BY <1>1, <1>2, <1>4, ToldSorted
<1>6. \A e \in Devices : \A l \in Position :
        [record |-> l] \in Range(deviceBox'[e]) <=> [record |-> l] \in Range(deviceBox[e])
  BY <1>5, DeviceItems
<1>7. \A u : Started(u) => Started(u)'
  BY DEF Quiet
<1>8. Started(k)
  BY <1>2 DEF Started
<1>9. ASSUME NEW e \in Devices, NEW j \in Position, [read |-> j] \in Range(deviceBox'[e]) PROVE Started(j)'
  <2>1. [read |-> j] \in Range(deviceBox[e]) \/ [read |-> j] = [read |-> k]
    BY <1>5, <1>9, SMT
  <2>2. [read |-> j] \in Range(deviceBox[e]) \/ j = k
    BY <2>1, DeviceItems
  <2>3. QED
    BY <1>7, <1>8, <2>2 DEF BoxInv
<1>10. Flow(0)
  BY QuietFlow
<1>11. QED
  BY <1>2, <1>5, <1>6, <1>7, <1>9, <1>10, ReadsComeAndGo

(* The head of a device's mailbox precedes what is left of it.             *)
LEMMA DeviceHead ==
    ASSUME TypeInv, TreeInv, BoxInv, NEW d \in Devices, device[d] = "live", deviceBox[d] # <<>>,
           deviceBox' = [deviceBox EXCEPT ![d] = Tail(@)], NEW x, x = Head(deviceBox[d])
    PROVE  /\ \A e \in Devices : Sorted(deviceBox'[e], DeviceOrder)
           /\ \A e \in Devices : device[e] # "live" => deviceBox'[e] = <<>>
           /\ \A e \in Devices \ {d} : deviceBox'[e] = deviceBox[e]
           /\ \A m : m \in Range(deviceBox[d]) <=> m = x \/ m \in Range(deviceBox'[d])
           /\ \A m \in Range(deviceBox'[d]) : m \in RecordItem \cup ReadItem /\ <<x, m>> \in DeviceOrder
           /\ x \in RecordItem \cup ReadItem
<1>1. /\ \A e \in Devices \ {d} : deviceBox'[e] = deviceBox[e]
      /\ deviceBox'[d] = Tail(deviceBox[d])
      /\ x \in RecordItem \cup ReadItem
      /\ \A m : m \in Range(deviceBox[d]) <=> m = x \/ m \in Range(deviceBox'[d])
  BY DeviceTakes
<1>2. Sorted(deviceBox'[d], DeviceOrder) /\ \A m \in Range(deviceBox'[d]) : <<x, m>> \in DeviceOrder
  BY <1>1, SortedTail, SMT DEF BoxInv, TypeInv
<1>3. \A e \in Devices : Sorted(deviceBox'[e], DeviceOrder)
  BY <1>1, <1>2 DEF BoxInv
<1>4. \A e \in Devices : device[e] # "live" => deviceBox'[e] = <<>>
  BY <1>1 DEF TreeInv
<1>5. \A m \in Range(deviceBox'[d]) : m \in RecordItem \cup ReadItem
  BY <1>1, BoxItems
<1>6. QED
  BY <1>1, <1>2, <1>3, <1>4, <1>5

LEMMA DeviceReadDevices ==
    ASSUME TypeInv, TreeInv, BoxInv, HeldInv, Quiet, NEW d \in Devices, DeviceRead(d)
    PROVE  TreeInv' /\ BoxInv' /\ HeldInv'
<1>1. PICK x : x = Head(deviceBox[d])
  OBVIOUS
<1>2. /\ UNCHANGED <<log, groupBox, devices, device, last_reading>>
      /\ device[d] = "live" /\ deviceBox[d] # <<>> /\ "read" \in DOMAIN x
      /\ deviceBox' = [deviceBox EXCEPT ![d] = Tail(@)]
  BY <1>1 DEF DeviceRead, Handles, clientVars, deviceVars
<1>3. /\ \A e \in Devices : Sorted(deviceBox'[e], DeviceOrder)
      /\ \A e \in Devices : device[e] # "live" => deviceBox'[e] = <<>>
      /\ \A e \in Devices \ {d} : deviceBox'[e] = deviceBox[e]
      /\ \A m : m \in Range(deviceBox[d]) <=> m = x \/ m \in Range(deviceBox'[d])
      /\ x \in RecordItem \cup ReadItem
  BY <1>1, <1>2, DeviceHead
<1>4. \A l : x # [record |-> l]
  BY <1>2, <1>3, DeviceItems
<1>5. \A e \in Devices : \A l \in Position :
        [record |-> l] \in Range(deviceBox'[e]) <=> [record |-> l] \in Range(deviceBox[e])
  BY <1>3, <1>4
<1>6. \A u : Started(u) => Started(u)'
  BY DEF Quiet
<1>7. \A e \in Devices : \A k \in Position : [read |-> k] \in Range(deviceBox'[e]) => Started(k)'
  BY <1>3, <1>6 DEF BoxInv
<1>8. Flow(0)
  BY QuietFlow
<1>9. QED
  BY <1>2, <1>3, <1>5, <1>6, <1>7, <1>8, ReadsComeAndGo

(* A record is handled: the device holds it, or restarts with nothing.     *)
LEMMA RecordHandled ==
    ASSUME TypeInv, TreeInv, BoxInv, HeldInv, Quiet, NEW d \in Devices,
           DeviceRecord(d) \/ DeviceRestarts(d)
    PROVE  TreeInv' /\ BoxInv' /\ HeldInv'
<1>1. PICK x, k : x = Head(deviceBox[d]) /\ k = x.record
  OBVIOUS
<1>2. PICK v : (v = 0 \/ v = k) /\ last_reading' = [last_reading EXCEPT ![d] = v]
  BY <1>1 DEF DeviceRecord, DeviceRestarts, Restarted
<1>3. /\ UNCHANGED <<log, groupBox, devices, device>>
      /\ device[d] = "live" /\ deviceBox[d] # <<>> /\ IsRecord(x)
      /\ deviceBox' = [deviceBox EXCEPT ![d] = Tail(@)]
  BY <1>1 DEF DeviceRecord, DeviceRestarts, Handles, clientVars, deviceVars, IsRecord
<1>4. /\ \A e \in Devices : Sorted(deviceBox'[e], DeviceOrder)
      /\ \A e \in Devices : device[e] # "live" => deviceBox'[e] = <<>>
      /\ \A e \in Devices \ {d} : deviceBox'[e] = deviceBox[e]
      /\ \A m : m \in Range(deviceBox[d]) <=> m = x \/ m \in Range(deviceBox'[d])
      /\ \A m \in Range(deviceBox'[d]) : m \in RecordItem \cup ReadItem /\ <<x, m>> \in DeviceOrder
      /\ x \in RecordItem \cup ReadItem
  BY <1>1, <1>3, DeviceHead
<1>5. x = [record |-> k] /\ k \in Position /\ k \in Nat /\ k > 0
  BY <1>1, <1>3, <1>4, DeviceItems, SentLength, SMT DEF Position
<1>6. \A l : [record |-> l] \in Range(deviceBox[d]) <=> [record |-> l] \in Range(deviceBox'[d]) \/ l = k
  BY <1>4, <1>5, DeviceItems
<1>7. ASSUME NEW l, [record |-> l] \in Range(deviceBox'[d]) PROVE l \in Position /\ l \in Nat /\ k < l
  <2>1. PICK m : m = [record |-> l]
    OBVIOUS
  <2>2. m \in RecordItem \cup ReadItem /\ <<x, m>> \in DeviceOrder /\ IsRecord(m) /\ m.record = l
    BY <1>4, <1>7, <2>1, DeviceItems
  <2>3. k < l
    BY <1>1, <1>3, <1>4, <2>2, DeviceOrders
  <2>4. QED
    BY <2>2, <2>3, DeviceItems, SentLength
<1>8. /\ last_reading'[d] = v /\ \A e \in Devices \ {d} : last_reading'[e] = last_reading[e]
      /\ \A n \in Names : devices[n] \subseteq Devices
  BY <1>2 DEF TypeInv
<1>9. TreeInv'
  <2>1. \A e \in Devices : device'[e] = "free" => last_reading'[e] = 0
    BY <1>3, <1>8 DEF TreeInv
  <2>2. \A e \in Devices : device'[e] # "live" => deviceBox'[e] = <<>>
    BY <1>3, <1>4
  <2>3. QED
    BY <1>3, <2>1, <2>2, SMT DEF TreeInv
<1>10. (\A u : Started(u)' <=> Started(u)) /\ (\A u : Upcoming(u)' <=> Upcoming(u))
       /\ \A l, n : IsRecordOf(l, n)' <=> IsRecordOf(l, n)
  BY <1>3 DEF Quiet, IsRecordOf
<1>11. BoxInv'
  <2>1. \A e \in Devices : \A j \in Position : [read |-> j] \in Range(deviceBox'[e]) => Started(j)'
    BY <1>4, <1>10 DEF BoxInv
  <2>2. ASSUME NEW n \in Names, NEW e \in devices'[n], NEW l \in Position,
               [record |-> l] \in Range(deviceBox'[e])
        PROVE  IsRecordOf(l, n)' /\ last_reading'[e] < l
    <3>1. e \in devices[n] /\ e \in Devices
      BY <1>3, <1>8
    <3>2. CASE e = d
      <4>1. IsRecordOf(l, n)
        BY <1>6, <2>2, <3>1, <3>2 DEF BoxInv
      <4>2. v < l
        BY <1>2, <1>5, <1>7, <2>2, <3>2, SMT
      <4>3. QED
        BY <1>8, <1>10, <3>2, <4>1, <4>2
    <3>3. CASE e # d
      BY <1>4, <1>8, <1>10, <2>2, <3>1, <3>3 DEF BoxInv
    <3>4. QED
      BY <3>2, <3>3
  <2>3. ASSUME NEW n \in Names, NEW e \in devices'[n], last_reading'[e] # 0
        PROVE  IsRecordOf(last_reading[e], n)'
    <3>1. e \in devices[n] /\ e \in Devices
      BY <1>3, <1>8
    <3>2. CASE e = d
      <4>1. IsRecordOf(k, n)
        BY <1>5, <1>6, <3>1, <3>2 DEF BoxInv
      <4>2. last_reading'[e] = k
        BY <1>2, <1>8, <2>3, <3>2
      <4>3. QED
        BY <1>10, <4>1, <4>2 DEF IsRecordOf
    <3>3. CASE e # d
      <4>1. last_reading'[e] = last_reading[e] /\ IsRecordOf(last_reading[e], n)
        BY <1>8, <2>3, <3>1, <3>3 DEF BoxInv
      <4>2. QED
        BY <1>3, <4>1 DEF IsRecordOf
    <3>4. QED
      BY <3>2, <3>3
  <2>4. QED
    BY <1>4, <2>1, <2>2, <2>3 DEF BoxInv
<1>12. HeldInv'
  <2> SUFFICES ASSUME NEW n \in Names, NEW e \in devices'[n], NEW l \in Position,
                      device'[e] = "live", IsRecordOf(l, n)', Relevant(l)', ~ Upcoming(l)',
                      [record |-> l] \notin Range(deviceBox'[e])
               PROVE  /\ \A r \in Position : [record |-> r] \in Range(deviceBox'[e]) => l < r
                      /\ last_reading'[e] = 0 \/ l <= last_reading'[e]
    BY DEF HeldInv
  <2>1. e \in devices[n] /\ e \in Devices /\ device[e] = "live" /\ l \in Nat
    BY <1>3, <1>8, SentLength
  <2>2. IsRecordOf(l, n) /\ Relevant(l) /\ ~ Upcoming(l)
    BY <1>10 DEF Relevant
  <2>3. \/ [record |-> l] \in Range(deviceBox[e])
        \/ /\ \A r \in Position : [record |-> r] \in Range(deviceBox[e]) => l < r
           /\ last_reading[e] = 0 \/ l <= last_reading[e]
    BY <2>1, <2>2 DEF HeldInv
  <2>4. CASE e # d
    BY <1>4, <1>8, <2>1, <2>3, <2>4
  <2>5. CASE e = d
    <3>1. l <= k
      BY <1>5, <1>6, <2>1, <2>3, <2>5, SMT
    <3>2. \A r \in Position : [record |-> r] \in Range(deviceBox'[d]) => l < r
      BY <1>5, <1>7, <2>1, <3>1, SMT
    <3>3. v = 0 \/ l <= v
      BY <1>2, <3>1
    <3>4. QED
      BY <1>8, <2>5, <3>2, <3>3
  <2>6. QED
    BY <2>4, <2>5
<1>13. QED
  BY <1>9, <1>11, <1>12

(* A device drops what is ahead and ends.                                  *)
LEMMA DeviceEnds ==
    ASSUME TypeInv, TreeInv, BoxInv, HeldInv, Quiet, NEW d \in Devices,
           DeviceGivesUp(d) \/ DeviceStopped(d) \/ DeviceSignals(d)
    PROVE  TreeInv' /\ BoxInv' /\ HeldInv'
<1>1. /\ UNCHANGED <<log, devices, last_reading>>
      /\ \A e \in Devices \ {d} : device'[e] = device[e] /\ deviceBox'[e] = deviceBox[e]
      /\ device[d] # "free" /\ device'[d] \in {"stopping", "stopped"}
      /\ device[d] = "stopped" => device'[d] = "stopped"
  <2>1. CASE DeviceSignals(d)
    BY <2>1 DEF DeviceSignals, clientVars, TypeInv
  <2>2. CASE DeviceGivesUp(d) \/ DeviceStopped(d)
    <3>1. DeviceDrops(d) /\ device[d] = "live" /\ UNCHANGED clientVars
      BY <2>2 DEF DeviceGivesUp, DeviceStopped, Handles
    <3>2. QED
      BY <3>1 DEF DeviceDrops, clientVars, TypeInv
  <2>3. QED
    BY <2>1, <2>2
<1>2. deviceBox'[d] = <<>>
  <2>1. CASE DeviceSignals(d)
    BY <2>1 DEF DeviceSignals, TreeInv
  <2>2. CASE DeviceGivesUp(d) \/ DeviceStopped(d)
    <3>1. DeviceDrops(d)
      BY <2>2 DEF DeviceGivesUp, DeviceStopped
    <3>2. QED
      BY <3>1 DEF DeviceDrops, TypeInv
  <2>3. QED
    BY <2>1, <2>2
<1>3. \A m : m \notin Range(deviceBox'[d])
  BY <1>2, EmptyBox
<1>4. \A e \in Devices :
        Terminated(e) \in Range(groupBox') => Terminated(e) \in Range(groupBox) \/ (e = d /\ device'[d] = "stopped")
  <2>1. CASE DeviceSignals(d)
    <3>1. device'[d] = "stopped" /\ (groupBox' = groupBox \/ groupBox' = Append(groupBox, Terminated(d)))
      BY <2>1 DEF DeviceSignals, TypeInv
    <3>2. groupBox \in Seq(CommandItem \cup SignalItem) /\ Terminated(d) \in CommandItem \cup SignalItem
      BY DEF TypeInv, Terminated, SignalItem
    <3>3. \A m : m \in Range(groupBox') => m \in Range(groupBox) \/ m = Terminated(d)
      BY <3>1, <3>2, Added
    <3>4. QED
      BY <3>1, <3>3, GroupItems
  <2>2. CASE DeviceGivesUp(d) \/ DeviceStopped(d)
    BY <2>2 DEF DeviceGivesUp, DeviceStopped, DeviceDrops
  <2>3. QED
    BY <2>1, <2>2
<1>5. \A n \in Names : devices[n] \subseteq Devices
  BY DEF TypeInv
<1>6. TreeInv'
  <2>1. \A e \in Devices : device'[e] # "live" => deviceBox'[e] = <<>>
    BY <1>1, <1>2 DEF TreeInv
  <2>2. \A e \in Devices : device'[e] = "free" => last_reading'[e] = 0
    BY <1>1 DEF TreeInv
  <2>3. \A e \in Devices : Terminated(e) \in Range(groupBox') => device'[e] = "stopped"
    BY <1>1, <1>4 DEF TreeInv
  <2>4. \A e \in Devices : device'[e] = "live" => \E n \in Names : e \in devices'[n]
    BY <1>1 DEF TreeInv
  <2>5. \A n \in Names : \A e \in devices'[n] : device'[e] # "free"
    BY <1>1, <1>5, SMT DEF TreeInv
  <2>6. QED
    BY <1>1, <2>1, <2>2, <2>3, <2>4, <2>5, SMT DEF TreeInv
<1>7. BoxInv'
  <2>1. \A l, n : IsRecordOf(l, n) => IsRecordOf(l, n)'
    BY <1>1 DEF IsRecordOf
  <2>2. \A e \in Devices : Sorted(deviceBox'[e], DeviceOrder)
    BY <1>1, <1>2, EmptyBox DEF BoxInv
  <2>3. \A e \in Devices : \A k \in Position : [read |-> k] \in Range(deviceBox'[e]) => Started(k)'
    BY <1>1, <1>3 DEF BoxInv, Quiet
  <2>4. \A e \in Devices : \A m : m \in Range(deviceBox'[e]) => m \in Range(deviceBox[e])
    BY <1>1, <1>3
  <2>5. QED
    BY <1>1, <1>5, <2>1, <2>2, <2>3, <2>4, BoxKept
<1>8. HeldInv'
  <2>1. \A e \in Devices : device'[e] = "live" => e # d
    BY <1>1
  <2>2. QED
    BY <1>1, <1>5, <2>1, QuietFlow, HeldKept
<1>9. QED
  BY <1>6, <1>7, <1>8

(* A step which tells no device of a record leaves those told behind.      *)
LEMMA ToldKept ==
    ASSUME TypeInv, BoxInv, ToldInv, NEW k, Flow(k),
           \A n \in Names : \A d \in devices'[n] :
             d \in devices[n] /\ \A l \in Position : Holds(d, l)' => Holds(d, l)
    PROVE  ToldInv'
<1> SUFFICES ASSUME NEW n \in Names, NEW d \in devices'[n], NEW l \in Position, Holds(d, l)',
                    NEW u \in Place, Upcoming(u)'
             PROVE  l < u
  BY DEF ToldInv
<1>1. d \in devices[n] /\ Holds(d, l)
  OBVIOUS
<1>2. l <= Len(log)
  <2>1. IsRecordOf(l, n)
    <3>1. l # 0
      BY Numbers, SMT DEF Position
    <3>2. QED
      BY <1>1, <3>1, SMT DEF Holds, BoxInv
  <2>2. QED
    BY <2>1, SentLength, SMT DEF IsRecordOf
<1>3. Upcoming(u) \/ l < u
  BY <1>2 DEF Flow
<1>4. Upcoming(u) => l < u
  BY <1>1 DEF ToldInv
<1>5. QED
  BY <1>3, <1>4

LEMMA ToldAlone ==
    ASSUME TypeInv, BoxInv, ToldInv, NEW k, Flow(k), UNCHANGED <<devices, last_reading>>,
           \A d \in Devices : \A l \in Position :
             [record |-> l] \in Range(deviceBox'[d]) => [record |-> l] \in Range(deviceBox[d])
    PROVE  ToldInv'
<1>1. \A n \in Names : devices[n] \subseteq Devices
  BY DEF TypeInv
<1>2. \A n \in Names : \A d \in devices'[n] :
        d \in devices[n] /\ \A l \in Position : Holds(d, l)' => Holds(d, l)
  BY <1>1 DEF Holds
<1>3. QED
  BY <1>2, ToldKept

(* The group handles a record of a name.                                   *)
LEMMA GroupHandlesRecord ==
    ASSUME TypeInv, PipeInv, PassedInv, GroupHandles, ~ IsSignal(Head(groupBox)),
           NEW k, k = Head(groupBox).command, log[k].op = "record",
           UNCHANGED <<log, managerBox, manager, group, query>>
    PROVE  /\ PipeInv' /\ Flow(k) /\ k \in Position /\ Upcoming(k)
           /\ \A u \in Place : Upcoming(u)' => k < u
           /\ PassedInv'
           /\ log[k].name \in Names /\ IsRecordOf(k, log[k].name)
           /\ [record |-> k] \in RecordItem
           /\ \A l, n : IsRecordOf(l, n)' <=> IsRecordOf(l, n)
           /\ \A u : Started(u)' <=> Started(u)
           /\ \A d : Terminated(d) \in Range(groupBox') => Terminated(d) \in Range(groupBox)
<1>1. \A u : Started(u)' <=> Started(u)
  BY DEF Started
<1>2. /\ PipeInv' /\ Flow(k) /\ k \in Position /\ Upcoming(k) /\ k \in 1 .. Len(log)
      /\ \A u \in Place : Upcoming(u)' => k < u
  BY <1>1, GroupPasses
<1>3. PassedInv'
  BY <1>2, FlowPassed
<1>4. log[k].name \in Names /\ IsRecordOf(k, log[k].name)
  BY <1>2, CommandFacts DEF IsRecordOf
<1>5. [record |-> k] \in RecordItem
  BY <1>2 DEF RecordItem
<1>6. \A l, n : IsRecordOf(l, n)' <=> IsRecordOf(l, n)
  BY DEF IsRecordOf
<1>7. \A d : Terminated(d) \in Range(groupBox') => Terminated(d) \in Range(groupBox)
  BY GroupTakes
<1>8. QED
  BY <1>1, <1>2, <1>3, <1>4, <1>5, <1>6, <1>7

(* The device of the name is told: the record is behind all the device     *)
(* has, records of earlier commands and reads of earlier queries.          *)
LEMMA GroupRecordDevices ==
    ASSUME TypeInv, PipeInv, TreeInv, BoxInv, ToldInv, PassedInv, HeldInv, GroupRecord
    PROVE  PipeInv' /\ PassedInv' /\ TreeInv' /\ BoxInv' /\ ToldInv' /\ HeldInv'
<1>1. PICK k : k = Head(groupBox).command
  OBVIOUS
<1>2. /\ GroupHandles /\ ~ IsSignal(Head(groupBox)) /\ log[k].op = "record"
      /\ UNCHANGED <<log, managerBox, manager, group, query>>
      /\ UNCHANGED <<devices, device, last_reading>>
  BY <1>1 DEF GroupRecord, clientVars, deviceVars, queryVars
<1>3. PICK name : name = log[k].name
  OBVIOUS
<1>4. /\ PipeInv' /\ Flow(k) /\ k \in Position /\ Upcoming(k)
      /\ \A u \in Place : Upcoming(u)' => k < u
      /\ PassedInv'
      /\ name \in Names /\ IsRecordOf(k, name)
      /\ [record |-> k] \in RecordItem
      /\ \A l, n : IsRecordOf(l, n)' <=> IsRecordOf(l, n)
      /\ \A u : Started(u)' <=> Started(u)
      /\ \A d : Terminated(d) \in Range(groupBox') => Terminated(d) \in Range(groupBox)
  BY <1>1, <1>2, <1>3, GroupHandlesRecord
<1>5. PICK d : d \in devices[name] /\ TellDevice(d, [record |-> k])
  BY <1>1, <1>3 DEF GroupRecord
<1>6. d \in Devices /\ k \in Place /\ \A n \in Names : devices[n] \subseteq Devices
  BY <1>4, <1>5, SentLength DEF TypeInv
<1>7. PICK x : x = [record |-> k] /\ x \in RecordItem \cup ReadItem /\ IsRecord(x) /\ x.record = k
  BY <1>4, DeviceItems
<1>8. \A m \in Range(deviceBox[d]) : <<m, x>> \in DeviceOrder
  <2> SUFFICES ASSUME NEW m \in Range(deviceBox[d])
               PROVE  <<m, x>> \in DeviceOrder
    OBVIOUS
  <2>1. m \in RecordItem \cup ReadItem
    BY <1>6, BoxItems
  <2>2. CASE IsRecord(m)
    <3>1. m.record \in Position /\ m = [record |-> m.record]
      BY <2>1, <2>2, DeviceItems
    <3>2. Holds(d, m.record)
      BY <3>1 DEF Holds
    <3>3. m.record < k
      BY <1>4, <1>5, <1>6, <3>1, <3>2 DEF ToldInv
    <3>4. QED
      BY <1>7, <2>1, <2>2, <3>3, DeviceOrders
  <2>3. CASE ~ IsRecord(m)
    <3>1. m.read \in Position /\ m = [read |-> m.read]
      BY <2>1, <2>3, DeviceItems
    <3>2. Started(m.read)
      BY <1>6, <3>1 DEF BoxInv
    <3>3. m.read < k
      BY <1>4, <1>6, <3>1, <3>2 DEF PipeInv
    <3>4. QED
      BY <1>7, <2>1, <2>3, <3>3, DeviceOrders
  <2>4. QED
    BY <2>2, <2>3
<1>9. /\ \A e \in Devices : Sorted(deviceBox'[e], DeviceOrder)
      /\ \A e \in Devices : device[e] # "live" => deviceBox'[e] = <<>>
      /\ \A e \in Devices : \A m :
           m \in Range(deviceBox'[e]) <=>
             m \in Range(deviceBox[e]) \/ (e = d /\ m = x /\ device[d] = "live")
  BY <1>5, <1>6, <1>7, <1>8, ToldSorted, SMT
<1>10. \A e \in Devices : \A l :
         [record |-> l] \in Range(deviceBox'[e]) <=>
           [record |-> l] \in Range(deviceBox[e]) \/ (e = d /\ l = k /\ device[d] = "live")
  <2>1. \A l : [record |-> l] = x <=> l = k
    BY <1>7, DeviceItems
  <2>2. QED
    BY <1>9, <2>1
<1>11. \A e \in Devices : \A j :
         [read |-> j] \in Range(deviceBox'[e]) <=> [read |-> j] \in Range(deviceBox[e])
  <2>1. \A j : [read |-> j] # x
    BY <1>7, DeviceItems
  <2>2. QED
    BY <1>9, <2>1
<1>12. TreeInv'
  BY <1>2, <1>4, <1>9 DEF TreeInv
<1>13. BoxInv'
  <2>1. \A e \in Devices : \A j \in Position : [read |-> j] \in Range(deviceBox'[e]) => Started(j)'
    BY <1>4, <1>11 DEF BoxInv
  <2>2. ASSUME NEW n \in Names, NEW e \in devices'[n], NEW l \in Position,
               [record |-> l] \in Range(deviceBox'[e])
        PROVE  IsRecordOf(l, n)' /\ last_reading'[e] < l
    <3>1. e \in devices[n] /\ e \in Devices /\ last_reading'[e] = last_reading[e]
      BY <1>2, <1>6
    <3>2. CASE [record |-> l] \in Range(deviceBox[e])
      BY <1>4, <3>1, <3>2 DEF BoxInv
    <3>3. CASE e = d /\ l = k
      <4>1. n = name
        BY <1>4, <1>5, <1>6, <3>1, <3>3 DEF TreeInv
      <4>2. last_reading[d] \in Nat /\ (last_reading[d] # 0 => last_reading[d] \in Position)
        BY <1>6, Numbers, SMT DEF TypeInv, Position
      <4>3. last_reading[d] # 0 => last_reading[d] < k
        BY <1>4, <1>5, <1>6, <4>2 DEF ToldInv, Holds
      <4>4. last_reading[d] < k
        BY <1>4, <4>2, <4>3, SentLength, Numbers, SMT DEF Position
      <4>5. QED
        BY <1>4, <3>1, <3>3, <4>1, <4>4
    <3>4. QED
      BY <1>10, <2>2, <3>1, <3>2, <3>3
  <2>3. ASSUME NEW n \in Names, NEW e \in devices'[n], last_reading'[e] # 0
        PROVE  IsRecordOf(last_reading[e], n)' /\ last_reading'[e] = last_reading[e]
    BY <1>2, <1>4, <2>3, SMT DEF BoxInv, IsRecordOf
  <2>4. QED
    BY <1>9, <2>1, <2>2, <2>3, SMT DEF BoxInv, IsRecordOf
<1>14. ToldInv'
  <2> SUFFICES ASSUME NEW n \in Names, NEW e \in devices'[n], NEW l \in Position, Holds(e, l)',
                      NEW u \in Place, Upcoming(u)'
               PROVE  l < u
    BY DEF ToldInv
  <2>1. e \in devices[n] /\ e \in Devices
    BY <1>2, <1>6
  <2>2. Holds(e, l) \/ l = k
    BY <1>2, <1>10, <2>1 DEF Holds
  <2>3. CASE l = k
    BY <1>4, <2>3
  <2>4. CASE Holds(e, l)
    <3>1. l <= Len(log)
      <4>1. l # 0
        BY Numbers, SMT DEF Position
      <4>2. IsRecordOf(l, n)
        BY <2>1, <2>4, <4>1 DEF Holds, BoxInv
      <4>3. QED
        BY <4>2, SentLength, SMT DEF IsRecordOf
    <3>2. Upcoming(u) \/ l < u
      BY <1>4, <3>1 DEF Flow
    <3>3. QED
      BY <2>1, <2>4, <3>2 DEF ToldInv
  <2>5. QED
    BY <2>2, <2>3, <2>4
<1>15. HeldInv'
  <2> SUFFICES ASSUME NEW n \in Names, NEW e \in devices'[n], NEW l \in Position,
                      device'[e] = "live", IsRecordOf(l, n)', Relevant(l)', ~ Upcoming(l)',
                      [record |-> l] \notin Range(deviceBox'[e])
               PROVE  /\ \A r \in Position : [record |-> r] \in Range(deviceBox'[e]) => l < r
                      /\ last_reading'[e] = 0 \/ l <= last_reading'[e]
    BY DEF HeldInv
  <2>1. e \in devices[n] /\ e \in Devices /\ device[e] = "live" /\ last_reading'[e] = last_reading[e]
    BY <1>2, <1>6
  <2>2. IsRecordOf(l, n) /\ Relevant(l) /\ (~ Upcoming(l) \/ l = k)
    BY <1>4 DEF Flow
  <2>3. l # k
    <3>1. SUFFICES ASSUME l = k
                   PROVE  FALSE
      OBVIOUS
    <3>2. n = name
      BY <1>3, <2>2, <3>1 DEF IsRecordOf
    <3>3. e = d
      BY <1>4, <1>5, <2>1, <3>2, SMT DEF TreeInv
    <3>4. QED
      BY <1>10, <2>1, <3>1, <3>3
  <2>4. ~ Upcoming(l) /\ [record |-> l] \notin Range(deviceBox[e])
    BY <1>10, <2>1, <2>2, <2>3
  <2>5. /\ \A r \in Position : [record |-> r] \in Range(deviceBox[e]) => l < r
        /\ last_reading[e] = 0 \/ l <= last_reading[e]
    BY <2>1, <2>2, <2>4 DEF HeldInv
  <2>6. l < k
    BY <1>4, <1>6, <2>2, <2>4 DEF PassedInv
  <2>7. QED
    BY <1>10, <2>1, <2>5, <2>6
<1>16. QED
  BY <1>4, <1>12, <1>13, <1>14, <1>15

(* A device is spawned for the name, and told first of this record: none   *)
(* of the name that went before comes behind.                              *)
LEMMA GroupSpawnsDevices ==
    ASSUME TypeInv, PipeInv, TreeInv, BoxInv, ToldInv, PassedInv, HeldInv, GroupSpawns
    PROVE  PipeInv' /\ PassedInv' /\ TreeInv' /\ BoxInv' /\ ToldInv' /\ HeldInv'
<1>1. PICK k : k = Head(groupBox).command
  OBVIOUS
<1>2. /\ GroupHandles /\ ~ IsSignal(Head(groupBox)) /\ log[k].op = "record"
      /\ UNCHANGED <<log, managerBox, manager, group, query>>
      /\ UNCHANGED last_reading
  BY <1>1 DEF GroupSpawns, clientVars, queryVars
<1>3. PICK name : name = log[k].name
  OBVIOUS
<1>4. /\ PipeInv' /\ Flow(k) /\ k \in Position /\ Upcoming(k)
      /\ \A u \in Place : Upcoming(u)' => k < u
      /\ PassedInv'
      /\ name \in Names /\ IsRecordOf(k, name)
      /\ [record |-> k] \in RecordItem
      /\ \A l, n : IsRecordOf(l, n)' <=> IsRecordOf(l, n)
      /\ \A u : Started(u)' <=> Started(u)
      /\ \A d : Terminated(d) \in Range(groupBox') => Terminated(d) \in Range(groupBox)
  BY <1>1, <1>2, <1>3, GroupHandlesRecord
<1>5. devices[name] = {}
  BY <1>1, <1>3 DEF GroupSpawns
<1>6. PICK d \in Devices : /\ IsNextFree(d)
                           /\ devices' = [devices EXCEPT ![name] = {d}]
                           /\ device' = [device EXCEPT ![d] = "live"]
                           /\ deviceBox' = [deviceBox EXCEPT ![d] = <<[record |-> k]>>]
  BY <1>1, <1>3 DEF GroupSpawns
<1>7. /\ devices'[name] = {d} /\ \A n \in Names \ {name} : devices'[n] = devices[n]
      /\ device'[d] = "live" /\ \A e \in Devices \ {d} : device'[e] = device[e]
      /\ deviceBox'[d] = <<[record |-> k]>>
      /\ \A e \in Devices \ {d} : deviceBox'[e] = deviceBox[e]
      /\ \A n \in Names : devices[n] \subseteq Devices
      /\ k \in Place
  BY <1>4, <1>6, SentLength DEF TypeInv
<1>8. /\ device[d] = "free" /\ last_reading[d] = 0 /\ \A n \in Names : d \notin devices[n]
  BY <1>6 DEF IsNextFree, TreeInv
<1>9. PICK s : s = deviceBox'[d] /\ (\A R : Sorted(s, R)) /\ \A m : m \in Range(s) <=> m = [record |-> k]
  <2>1. PICK s, x : s = deviceBox'[d] /\ x = [record |-> k]
    OBVIOUS
  <2>2. s = <<x>>
    BY <1>7, <2>1
  <2>3. (\A R : Sorted(s, R)) /\ \A m : m \in Range(s) <=> m = x
    BY <2>2, Single
  <2>4. QED
    BY <2>1, <2>3, SMT
<1>10. \A n \in Names : \A e : e \in devices'[n] <=> (n = name /\ e = d) \/ e \in devices[n]
  BY <1>5, <1>7
<1>11. \A n \in Names : \A e \in devices[n] : e \in Devices /\ e # d
  BY <1>7, <1>8
<1>12. TreeInv'
  <2>1. \A e \in Devices : device'[e] # "live" => deviceBox'[e] = <<>>
    BY <1>7 DEF TreeInv
  <2>2. \A e \in Devices : device'[e] = "free" => last_reading'[e] = 0
    BY <1>2, <1>7, SMT DEF TreeInv
  <2>3. \A e \in Devices : Terminated(e) \in Range(groupBox') => device'[e] = "stopped"
    BY <1>4, <1>7, <1>8, SMT DEF TreeInv
  <2>4. ASSUME NEW e \in Devices, device'[e] = "live"
        PROVE  \E n \in Names : e \in devices'[n]
    <3>1. CASE e = d
      BY <1>4, <1>10, <3>1
    <3>2. CASE e # d
      <4>1. device[e] = "live"
        BY <1>7, <2>4, <3>2
      <4>2. PICK n \in Names : e \in devices[n]
        BY <4>1 DEF TreeInv
      <4>3. QED
        BY <1>10, <4>2
    <3>3. QED
      BY <3>1, <3>2
  <2>5. \A n \in Names : \A e \in devices'[n] : device'[e] # "free"
    BY <1>7, <1>10, <1>11, SMT DEF TreeInv
  <2>6. \A n \in Names : \A e, f \in devices'[n] : e = f
    BY <1>7, SMT DEF TreeInv
  <2>7. \A m, n \in Names : \A e \in Devices : e \in devices'[m] /\ e \in devices'[n] => m = n
    BY <1>8, <1>10, SMT DEF TreeInv
  <2>8. QED
    BY <2>1, <2>2, <2>3, <2>4, <2>5, <2>6, <2>7 DEF TreeInv
<1>13. BoxInv'
  <2>1. \A e \in Devices : Sorted(deviceBox'[e], DeviceOrder)
    BY <1>7, <1>9 DEF BoxInv
  <2>2. \A e \in Devices : \A j \in Position : [read |-> j] \in Range(deviceBox'[e]) => Started(j)'
    BY <1>4, <1>7, <1>9, DeviceItems DEF BoxInv
  <2>3. ASSUME NEW n \in Names, NEW e \in devices'[n], NEW l \in Position,
               [record |-> l] \in Range(deviceBox'[e])
        PROVE  IsRecordOf(l, n)' /\ last_reading'[e] < l
    <3>1. CASE e \in devices[n]
      BY <1>2, <1>4, <1>7, <1>11, <2>3, <3>1 DEF BoxInv
    <3>2. CASE n = name /\ e = d
      <4>1. l = k
        BY <1>9, <2>3, <3>2, DeviceItems, SMT
      <4>2. 0 < k
        BY <1>4, Numbers, SMT DEF Position
      <4>3. QED
        BY <1>2, <1>4, <1>8, <3>2, <4>1, <4>2
    <3>3. QED
      BY <1>10, <3>1, <3>2
  <2>4. ASSUME NEW n \in Names, NEW e \in devices'[n], last_reading'[e] # 0
        PROVE  IsRecordOf(last_reading[e], n)' /\ last_reading'[e] = last_reading[e]
    BY <1>2, <1>4, <1>8, <1>10, <2>4, SMT DEF BoxInv, IsRecordOf
  <2>5. QED
    BY <2>1, <2>2, <2>3, <2>4 DEF BoxInv, IsRecordOf
<1>14. ToldInv'
  <2> SUFFICES ASSUME NEW n \in Names, NEW e \in devices'[n], NEW l \in Position, Holds(e, l)',
                      NEW u \in Place, Upcoming(u)'
               PROVE  l < u
    BY DEF ToldInv
  <2>1. l # 0
    BY Numbers, SMT DEF Position
  <2>2. CASE n = name /\ e = d
    <3>1. l = k
      BY <1>2, <1>8, <1>9, <2>1, <2>2, DeviceItems, SMT DEF Holds
    <3>2. QED
      BY <1>4, <3>1
  <2>3. CASE e \in devices[n]
    <3>1. Holds(e, l)
      BY <1>2, <1>7, <1>11, <2>3 DEF Holds
    <3>2. IsRecordOf(l, n)
      BY <2>1, <2>3, <3>1 DEF Holds, BoxInv
    <3>3. l <= Len(log)
      BY <3>2, SentLength, SMT DEF IsRecordOf
    <3>4. Upcoming(u) \/ l < u
      BY <1>4, <3>3 DEF Flow
    <3>5. QED
      BY <2>3, <3>1, <3>4 DEF ToldInv
  <2>4. QED
    BY <1>10, <2>2, <2>3
<1>15. HeldInv'
  <2> SUFFICES ASSUME NEW n \in Names, NEW e \in devices'[n], NEW l \in Position,
                      device'[e] = "live", IsRecordOf(l, n)', Relevant(l)', ~ Upcoming(l)',
                      [record |-> l] \notin Range(deviceBox'[e])
               PROVE  /\ \A r \in Position : [record |-> r] \in Range(deviceBox'[e]) => l < r
                      /\ last_reading'[e] = 0 \/ l <= last_reading'[e]
    BY DEF HeldInv
  <2>1. IsRecordOf(l, n) /\ Relevant(l) /\ (~ Upcoming(l) \/ l = k)
    BY <1>4 DEF Flow
  <2>2. CASE n = name /\ e = d
    <3>1. l # k
      BY <1>9, <2>2
    <3>2. l < k
      BY <1>4, <1>7, <2>1, <3>1 DEF PassedInv
    <3>3. QED
      BY <1>2, <1>8, <1>9, <2>2, <3>2, DeviceItems, SMT
  <2>3. CASE e \in devices[n]
    <3>1. n # name
      BY <1>5, <2>3
    <3>2. ~ Upcoming(l)
      BY <1>3, <2>1, <3>1 DEF IsRecordOf
    <3>3. /\ device[e] = "live" /\ deviceBox'[e] = deviceBox[e] /\ last_reading'[e] = last_reading[e]
      BY <1>2, <1>7, <1>11, <2>3
    <3>4. /\ \A r \in Position : [record |-> r] \in Range(deviceBox[e]) => l < r
          /\ last_reading[e] = 0 \/ l <= last_reading[e]
      BY <2>1, <2>3, <3>2, <3>3 DEF HeldInv
    <3>5. QED
      BY <3>3, <3>4
  <2>4. QED
    BY <1>10, <2>2, <2>3
<1>16. QED
  BY <1>4, <1>12, <1>13, <1>14, <1>15

(* The group forgets a device that has stopped.                            *)
LEMMA GroupTerminatedDevices ==
    ASSUME TypeInv, PipeInv, TreeInv, BoxInv, ToldInv, HeldInv, GroupTerminated, Flow(0)
    PROVE  TreeInv' /\ BoxInv' /\ ToldInv' /\ HeldInv'
<1>1. PICK x : x = Head(groupBox).terminated
  OBVIOUS
<1>2. /\ GroupHandles /\ IsSignal(Head(groupBox))
      /\ devices' = [n \in Names |-> devices[n] \ {x}]
      /\ UNCHANGED <<log, deviceBox, device, last_reading, query>>
  BY <1>1 DEF GroupTerminated, clientVars, deviceVars, queryVars
<1>3. /\ x \in Devices /\ Terminated(x) \in Range(groupBox)
      /\ \A m : m \in Range(groupBox') => m \in Range(groupBox)
  BY <1>1, <1>2, GroupTakes
<1>4. device[x] = "stopped"
  BY <1>3 DEF TreeInv
<1>5. \A n \in Names : \A d : d \in devices'[n] <=> d \in devices[n] /\ d # x
  BY <1>2
<1>6. TreeInv'
  <2>1. \A d \in Devices : device'[d] = "live" => \E n \in Names : d \in devices'[n]
    BY <1>2, <1>4, <1>5 DEF TreeInv
  <2>2. /\ \A n \in Names : \A d \in devices'[n] : device'[d] # "free"
        /\ \A n \in Names : \A d, e \in devices'[n] : d = e
        /\ \A m, n \in Names : \A d \in Devices : d \in devices'[m] /\ d \in devices'[n] => m = n
    BY <1>2, <1>5 DEF TreeInv
  <2>3. QED
    BY <1>2, <1>3, <2>1, <2>2 DEF TreeInv
<1>7. BoxInv'
  <2>1. \A l, n : IsRecordOf(l, n) => IsRecordOf(l, n)'
    BY <1>2 DEF IsRecordOf
  <2>2. /\ \A d \in Devices : Sorted(deviceBox'[d], DeviceOrder)
        /\ \A d \in Devices : \A k \in Position : [read |-> k] \in Range(deviceBox'[d]) => Started(k)'
    BY <1>2 DEF BoxInv, Started
  <2>3. QED
    BY <1>2, <1>5, <2>1, <2>2, BoxKept
<1>8. ToldInv'
  BY <1>2, <1>5, ToldKept DEF Holds
<1>9. HeldInv'
  BY <1>2, <1>5, HeldKept
<1>10. QED
  BY <1>6, <1>7, <1>8, <1>9

(* What each process does to the pipe and to the devices.                  *)
LEMMA ClientDevices ==
    ASSUME TypeInv, TypeInv', PipeInv, TreeInv, BoxInv, ToldInv, PassedInv, HeldInv, Client
    PROVE  PipeInv' /\ PassedInv' /\ TreeInv' /\ BoxInv' /\ ToldInv' /\ HeldInv'
<1>1. PICK c : Send(c)
  BY DEF Client
<1>2. PipeInv' /\ Flow(0)
  BY <1>1, SendFlow
<1>3. PassedInv'
  BY <1>2, Numbers, FlowPassed, SMT DEF Position
<1>4. UNCHANGED <<groupBox, devices, device, deviceBox, last_reading, query>>
  BY <1>1 DEF Send, deviceVars, queryVars
<1>5. TreeInv' /\ BoxInv' /\ HeldInv'
  BY <1>1, <1>2, <1>4, DevicesAlone DEF Started
<1>6. ToldInv'
  BY <1>2, <1>4, ToldAlone
<1>7. QED
  BY <1>2, <1>3, <1>5, <1>6

LEMMA ManagerDevices ==
    ASSUME TypeInv, PipeInv, TreeInv, BoxInv, ToldInv, PassedInv, HeldInv, Manager
    PROVE  PipeInv' /\ PassedInv' /\ TreeInv' /\ BoxInv' /\ ToldInv' /\ HeldInv'
<1>1. PipeInv' /\ Flow(0)
  BY ManagerFlow
<1>2. PassedInv'
  BY <1>1, Numbers, FlowPassed, SMT DEF Position
<1>3. UNCHANGED <<log, devices, device, deviceBox, last_reading, query>>
  BY DEF Manager, ManagerRecord, ManagerAverage, ManagerShutdown, ManagerCloses, clientVars,
         deviceVars, queryVars
<1>4. \A d \in Devices : Terminated(d) \in Range(groupBox') => Terminated(d) \in Range(groupBox)
  <2>1. CASE groupBox' = groupBox
    BY <2>1
  <2>2. CASE managerBox # <<>> /\ groupBox' = Append(groupBox, [command |-> Head(managerBox)])
    <3>1. PICK x : x = [command |-> Head(managerBox)] /\ x \in CommandItem \cup SignalItem
                   /\ \A d : x # Terminated(d)
      BY <2>2, GroupItems, SMT DEF TypeInv, CommandItem
    <3>2. groupBox' = Append(groupBox, x) /\ groupBox \in Seq(CommandItem \cup SignalItem)
      BY <2>2, <3>1 DEF TypeInv
    <3>3. \A m : m \in Range(groupBox') <=> m = x \/ m \in Range(groupBox)
      BY <3>1, <3>2, Added
    <3>4. QED
      BY <3>1, <3>3
  <2>3. QED
    BY <2>1, <2>2 DEF Manager, ManagerRecord, ManagerAverage, ManagerShutdown, ManagerCloses
<1>5. TreeInv' /\ BoxInv' /\ HeldInv'
  BY <1>1, <1>3, <1>4, DevicesAlone DEF Started
<1>6. ToldInv'
  BY <1>1, <1>3, ToldAlone
<1>7. QED
  BY <1>1, <1>2, <1>5, <1>6

LEMMA GroupDevices ==
    ASSUME TypeInv, PipeInv, TreeInv, BoxInv, ToldInv, PassedInv, HeldInv, Group
    PROVE  PipeInv' /\ PassedInv' /\ TreeInv' /\ BoxInv' /\ ToldInv' /\ HeldInv'
<1>1. CASE GroupRecord
  BY <1>1, GroupRecordDevices
<1>2. CASE GroupSpawns
  BY <1>2, GroupSpawnsDevices
<1>3. CASE GroupTerminated
  <2>1. PipeInv' /\ Flow(0)
    BY <1>3, GroupTerminatedFlow
  <2>2. PassedInv'
    BY <2>1, Numbers, FlowPassed, SMT DEF Position
  <2>3. QED
    BY <1>3, <2>1, <2>2, GroupTerminatedDevices
<1>4. CASE GroupAverage
  <2>1. PipeInv' /\ Flow(0) /\ Head(groupBox).command \in Position
    BY <1>4, GroupAverageFlow
  <2>2. PassedInv'
    BY <2>1, Numbers, FlowPassed, SMT DEF Position
  <2>3. UNCHANGED <<log, devices, device, deviceBox, last_reading>>
    BY <1>4 DEF GroupAverage, clientVars, deviceVars
  <2>4. \A d \in Devices : Terminated(d) \in Range(groupBox') => Terminated(d) \in Range(groupBox)
    BY <1>4, GroupTakes DEF GroupAverage
  <2>5. \A u : Started(u) => Started(u)'
    BY <1>4, <2>1 DEF GroupAverage, Started, TypeInv
  <2>6. TreeInv' /\ BoxInv' /\ HeldInv'
    BY <2>1, <2>3, <2>4, <2>5, DevicesAlone
  <2>7. ToldInv'
    BY <2>1, <2>3, ToldAlone
  <2>8. QED
    BY <2>1, <2>2, <2>6, <2>7
<1>5. CASE GroupStopped
  <2>1. PipeInv' /\ Flow(0)
    BY <1>5, GroupStoppedFlow
  <2>2. PassedInv'
    BY <2>1, Numbers, FlowPassed, SMT DEF Position
  <2>3. UNCHANGED <<log, devices, device, deviceBox, last_reading, query>> /\ groupBox' = <<>>
    BY <1>5 DEF GroupStopped, deviceVars, queryVars
  <2>4. \A d : Terminated(d) \notin Range(groupBox')
    BY <2>3, EmptyBox
  <2>5. TreeInv' /\ BoxInv' /\ HeldInv'
    BY <2>1, <2>3, <2>4, DevicesAlone DEF Started
  <2>6. ToldInv'
    BY <2>1, <2>3, ToldAlone
  <2>7. QED
    BY <2>1, <2>2, <2>5, <2>6
<1>6. QED
  BY <1>1, <1>2, <1>3, <1>4, <1>5 DEF Group

LEMMA QueryDevices ==
    ASSUME TypeInv, PipeInv, TreeInv, BoxInv, ToldInv, PassedInv, HeldInv, QueryInv,
           NEW k \in Position, Query(k)
    PROVE  PipeInv' /\ PassedInv' /\ TreeInv' /\ BoxInv' /\ ToldInv' /\ HeldInv'
<1>1. PipeInv' /\ Quiet
  BY OtherFlow
<1>2. Flow(0)
  BY <1>1, QuietFlow
<1>3. PassedInv'
  BY <1>2, Numbers, FlowPassed, SMT DEF Position
<1>4. CASE QueryRead(k)
  <2>1. TreeInv' /\ BoxInv' /\ HeldInv'
    BY <1>1, <1>4, QueryReadDevices
  <2>2. UNCHANGED <<devices, last_reading>>
    BY <1>4 DEF QueryRead, deviceVars
  <2>3. PICK d : d \in asked[k] /\ TellDevice(d, [read |-> k])
    BY <1>4 DEF QueryRead
  <2>4. d \in Devices
    BY <2>3 DEF TypeInv
  <2>5. PICK x : x = [read |-> k] /\ x \in RecordItem \cup ReadItem /\ \A l : [record |-> l] # x
    BY DeviceItems DEF ReadItem
  <2>6. /\ \A e \in Devices \ {d} : deviceBox'[e] = deviceBox[e]
        /\ device[d] # "live" => deviceBox'[d] = deviceBox[d]
        /\ device[d] = "live" => deviceBox'[d] = Append(deviceBox[d], x)
    BY <2>3, <2>4, <2>5, TellTypes
  <2>7. \A m : m \in Range(Append(deviceBox[d], x)) <=> m = x \/ m \in Range(deviceBox[d])
    BY <2>4, <2>5, BoxItems, Added
  <2>8. \A e \in Devices : \A l \in Position :
          [record |-> l] \in Range(deviceBox'[e]) => [record |-> l] \in Range(deviceBox[e])
    BY <2>4, <2>5, <2>6, <2>7
  <2>9. ToldInv'
    BY <1>2, <2>2, <2>8, ToldAlone
  <2>10. QED
    BY <1>1, <1>3, <2>1, <2>9
<1>5. CASE ~ QueryRead(k)
  <2>1. UNCHANGED <<log, groupBox, devices, device, deviceBox, last_reading>>
    BY <1>5 DEF Query, QueryStart, QueryWatch, QueryReading, QueryTerminated, QuerySkips,
                QueryStopped, clientVars, deviceVars
  <2>2. \A u : Started(u) => Started(u)'
    BY <1>1 DEF Quiet
  <2>3. TreeInv' /\ BoxInv' /\ HeldInv'
    BY <1>2, <2>1, <2>2, DevicesAlone
  <2>4. ToldInv'
    BY <1>2, <2>1, ToldAlone
  <2>5. QED
    BY <1>1, <1>3, <2>3, <2>4
<1>6. QED
  BY <1>4, <1>5

LEMMA DeviceDevices ==
    ASSUME TypeInv, PipeInv, TreeInv, BoxInv, ToldInv, PassedInv, HeldInv,
           NEW d \in Devices, Device(d)
    PROVE  PipeInv' /\ PassedInv' /\ TreeInv' /\ BoxInv' /\ ToldInv' /\ HeldInv'
<1>1. PipeInv' /\ Quiet
  BY OtherFlow
<1>2. Flow(0)
  BY <1>1, QuietFlow
<1>3. PassedInv'
  BY <1>2, Numbers, FlowPassed, SMT DEF Position
<1>4. TreeInv' /\ BoxInv' /\ HeldInv'
  BY <1>1, DeviceReadDevices, RecordHandled, DeviceEnds DEF Device
<1>5. devices' = devices
  BY DEF Device, DeviceRecord, DeviceRead, DeviceRestarts, DeviceGivesUp, DeviceStopped,
         DeviceSignals, DeviceDrops
<1>6. \A n \in Names : devices[n] \subseteq Devices
  BY DEF TypeInv
<1>7. CASE DeviceRead(d)
  <2>1. UNCHANGED last_reading /\ deviceBox[d] # <<>> /\ deviceBox' = [deviceBox EXCEPT ![d] = Tail(@)]
    BY <1>7 DEF DeviceRead, Handles, deviceVars
  <2>2. \A e \in Devices : \A m : m \in Range(deviceBox'[e]) => m \in Range(deviceBox[e])
    BY <2>1, DeviceTakes
  <2>3. ToldInv'
    BY <1>2, <1>5, <2>1, <2>2, ToldAlone
  <2>4. QED
    BY <1>1, <1>3, <1>4, <2>3
<1>8. CASE DeviceRecord(d) \/ DeviceRestarts(d)
  <2>1. PICK x : x = Head(deviceBox[d])
    OBVIOUS
  <2>2. /\ "record" \in DOMAIN x /\ deviceBox[d] # <<>>
        /\ deviceBox' = [deviceBox EXCEPT ![d] = Tail(@)]
        /\ \/ last_reading' = [last_reading EXCEPT ![d] = x.record]
           \/ last_reading' = [last_reading EXCEPT ![d] = 0]
    BY <1>8, <2>1 DEF DeviceRecord, DeviceRestarts, Handles, Restarted
  <2>3. /\ \A e \in Devices \ {d} : deviceBox'[e] = deviceBox[e]
        /\ x \in RecordItem \cup ReadItem
        /\ \A m : m \in Range(deviceBox[d]) <=> m = x \/ m \in Range(deviceBox'[d])
    BY <2>1, <2>2, DeviceTakes
  <2>4. x = [record |-> x.record]
    BY <2>2, <2>3, DeviceItems DEF IsRecord
  <2>5. /\ last_reading'[d] = x.record \/ last_reading'[d] = 0
        /\ \A e \in Devices \ {d} : last_reading'[e] = last_reading[e]
    BY <2>2 DEF TypeInv
  <2>6. \A l \in Position : l # 0
    BY Numbers, SMT DEF Position
  <2>7. \A e \in Devices : \A l \in Position : Holds(e, l)' => Holds(e, l)
    BY <2>3, <2>4, <2>5, <2>6 DEF Holds
  <2>8. ToldInv'
    BY <1>2, <1>5, <1>6, <2>7, ToldKept
  <2>9. QED
    BY <1>1, <1>3, <1>4, <2>8
<1>9. CASE DeviceGivesUp(d) \/ DeviceStopped(d) \/ DeviceSignals(d)
  <2>1. UNCHANGED last_reading
        /\ (deviceBox' = deviceBox \/ deviceBox' = [deviceBox EXCEPT ![d] = <<>>])
    BY <1>9 DEF DeviceGivesUp, DeviceStopped, DeviceSignals, DeviceDrops
  <2>2. \A e \in Devices : deviceBox'[e] = deviceBox[e] \/ deviceBox'[e] = <<>>
    BY <2>1 DEF TypeInv
  <2>3. \A e \in Devices : \A m : m \in Range(deviceBox'[e]) => m \in Range(deviceBox[e])
    BY <2>2, EmptyBox
  <2>4. ToldInv'
    BY <1>2, <1>5, <2>1, <2>3, ToldAlone
  <2>5. QED
    BY <1>1, <1>3, <1>4, <2>4
<1>10. QED
  BY <1>7, <1>8, <1>9 DEF Device

----------------------------------------------------------------------------
(* Queries.                                                                *)

LEMMA QueryOrders ==
    \A m, x \in ReadingItem \cup SignalItem :
      <<m, x>> \in QueryOrder <=>
        (IsReading(x) => /\ IsReading(m) => m.device_id # x.device_id
                         /\ ~ IsReading(m) => m.terminated # x.device_id)
BY DEF QueryOrder

LEMMA LetterItems ==
    ASSUME TypeInv, NEW k \in Position
    PROVE  /\ queryBox[k] \in Seq(ReadingItem \cup SignalItem)
           /\ \A m \in Range(queryBox[k]) : m \in ReadingItem \cup SignalItem
<1>1. queryBox[k] \in Seq(ReadingItem \cup SignalItem)
  BY DEF TypeInv
<1>2. QED
  BY <1>1, Members

(* Steps that concern a query no more than by taking what its devices were *)
(* told, or by stopping them.                                              *)
LEMMA QueryKept ==
    ASSUME NEW k \in Position, Awaits(k),
           queryBox'[k] = queryBox[k] /\ query'[k] = query[k] /\ pending'[k] = pending[k],
           asked'[k] = asked[k] /\ unasked'[k] = unasked[k],
           \A d \in Devices : [read |-> k] \in Range(deviceBox'[d]) => [read |-> k] \in Range(deviceBox[d]),
           \A d \in Devices : device[d] = "stopped" => device'[d] = "stopped"
    PROVE  Awaits(k)'
BY DEF Awaits

(* A query takes a message: none behind is a reading of the same device.   *)
LEMMA TakenLetter ==
    ASSUME TypeInv, NEW k \in Position, Awaits(k), queryBox[k] # <<>>,
           queryBox' = [queryBox EXCEPT ![k] = Tail(@)], NEW x, x = Head(queryBox[k])
    PROVE  /\ x \in ReadingItem \cup SignalItem /\ x \in Range(queryBox[k])
           /\ Sorted(queryBox'[k], QueryOrder)
           /\ \A m \in Range(queryBox'[k]) :
                /\ m \in Range(queryBox[k])
                /\ IsReading(m) /\ IsReading(x) => m.device_id # x.device_id
                /\ IsReading(m) /\ ~ IsReading(x) => m.device_id # x.terminated
<1>1. PICK s : s = queryBox[k]
  OBVIOUS
<1>2. s \in Seq(ReadingItem \cup SignalItem) /\ s # <<>> /\ Sorted(s, QueryOrder) /\ x = Head(s)
  BY <1>1, LetterItems DEF Awaits
<1>3. queryBox'[k] = Tail(s)
  BY <1>1, QueryTakes
<1>4. Sorted(Tail(s), QueryOrder) /\ \A m \in Range(Tail(s)) : <<x, m>> \in QueryOrder
  BY <1>2, SortedTail
<1>5. x \in ReadingItem \cup SignalItem /\ x \in Range(s) /\ \A m \in Range(Tail(s)) : m \in Range(s)
  BY <1>2, Taken
<1>6. \A m \in Range(Tail(s)) : m \in ReadingItem \cup SignalItem
  BY <1>1, <1>5, LetterItems
<1>7. QED
  BY <1>1, <1>3, <1>4, <1>5, <1>6, QueryOrders

LEMMA QueryReadingAwaits ==
    ASSUME TypeInv, QueryInv, NEW k \in Position, QueryReading(k)
    PROVE  Awaits(k)'
<1>1. PICK x : x = Head(queryBox[k])
  OBVIOUS
<1>2. /\ queryBox[k] # <<>> /\ IsReading(x) /\ pending'[k] = pending[k] \ {x.device_id}
      /\ queryBox' = [queryBox EXCEPT ![k] = Tail(@)]
      /\ query[k] = "running" /\ ConcludeOrContinue(k)
      /\ UNCHANGED <<deviceBox, device, asked, unasked>>
  BY <1>1 DEF QueryReading, TypeInv, deviceVars
<1>3. Awaits(k)
  BY DEF QueryInv
<1>4. query'[k] # "none" /\ query'[k] # "starting"
  BY <1>2, ConcludeTypes
<1>5. /\ x \in Range(queryBox[k])
      /\ Sorted(queryBox'[k], QueryOrder)
      /\ \A m \in Range(queryBox'[k]) :
           m \in Range(queryBox[k]) /\ (IsReading(m) => m.device_id # x.device_id)
  BY <1>1, <1>2, <1>3, TakenLetter
<1>6. \A m \in Range(queryBox'[k]) :
        IsReading(m) => /\ m.device_id \in pending'[k]
                        /\ m.device_id \notin asked'[k] /\ m.device_id \notin unasked'[k]
  BY <1>2, <1>3, <1>5 DEF Awaits
<1>7. ASSUME NEW d \in Devices, [read |-> k] \in Range(deviceBox'[d])
      PROVE  /\ \A m \in Range(queryBox'[k]) : IsReading(m) => m.device_id # d
             /\ d \in pending'[k] /\ d \notin asked'[k] /\ d \notin unasked'[k]
  <2>1. [read |-> k] \in Range(deviceBox[d])
    BY <1>2, <1>7
  <2>2. /\ \A m \in Range(queryBox[k]) : IsReading(m) => m.device_id # d
        /\ d \in pending[k] /\ d \notin asked[k] /\ d \notin unasked[k]
    BY <1>2, <1>3, <2>1 DEF Awaits
  <2>3. QED
    BY <1>2, <1>5, <2>2
<1>8. QED
  BY <1>2, <1>3, <1>4, <1>5, <1>6, <1>7 DEF Awaits

LEMMA QueryTerminatedAwaits ==
    ASSUME TypeInv, TreeInv, QueryInv, NEW k \in Position, QueryTerminated(k)
    PROVE  Awaits(k)'
<1>1. PICK x : x = Head(queryBox[k])
  OBVIOUS
<1>2. /\ queryBox[k] # <<>> /\ ~ IsReading(x) /\ pending'[k] = pending[k] \ {x.terminated}
      /\ queryBox' = [queryBox EXCEPT ![k] = Tail(@)]
      /\ query[k] = "running" /\ ConcludeOrContinue(k)
      /\ UNCHANGED <<deviceBox, device, asked, unasked>>
  BY <1>1 DEF QueryTerminated, TypeInv, deviceVars
<1>3. Awaits(k)
  BY DEF QueryInv
<1>4. query'[k] # "none" /\ query'[k] # "starting"
  BY <1>2, ConcludeTypes
<1>5. /\ x \in ReadingItem \cup SignalItem /\ x \in Range(queryBox[k])
      /\ Sorted(queryBox'[k], QueryOrder)
      /\ \A m \in Range(queryBox'[k]) :
           m \in Range(queryBox[k]) /\ (IsReading(m) => m.device_id # x.terminated)
  BY <1>1, <1>2, <1>3, TakenLetter
<1>6. deviceBox[x.terminated] = <<>>
  <2>1. x.terminated \in Devices /\ x = Terminated(x.terminated)
    BY <1>2, <1>5, QueryItems
  <2>2. device[x.terminated] = "stopped"
    BY <1>3, <1>5, <2>1 DEF Awaits
  <2>3. QED
    BY <2>1, <2>2 DEF TreeInv
<1>7. \A m \in Range(queryBox'[k]) :
        IsReading(m) => /\ m.device_id \in pending'[k]
                        /\ m.device_id \notin asked'[k] /\ m.device_id \notin unasked'[k]
  BY <1>2, <1>3, <1>5 DEF Awaits
<1>8. ASSUME NEW d \in Devices, [read |-> k] \in Range(deviceBox'[d])
      PROVE  /\ \A m \in Range(queryBox'[k]) : IsReading(m) => m.device_id # d
             /\ d \in pending'[k] /\ d \notin asked'[k] /\ d \notin unasked'[k]
  <2>1. [read |-> k] \in Range(deviceBox[d])
    BY <1>2, <1>8
  <2>2. /\ \A m \in Range(queryBox[k]) : IsReading(m) => m.device_id # d
        /\ d \in pending[k] /\ d \notin asked[k] /\ d \notin unasked[k]
    BY <1>2, <1>3, <2>1 DEF Awaits
  <2>3. d # x.terminated
    BY <1>6, <2>1, EmptyBox
  <2>4. QED
    BY <1>2, <1>5, <2>2, <2>3
<1>9. QED
  BY <1>2, <1>3, <1>4, <1>5, <1>7, <1>8 DEF Awaits

(* A signal is put behind what a query has.                                *)
LEMMA SignalSorted ==
    ASSUME TypeInv, NEW k \in Position, Awaits(k), NEW d \in Devices, NEW s,
           s = Append(queryBox[k], Terminated(d))
    PROVE  /\ Sorted(s, QueryOrder)
           /\ \A m : m \in Range(s) <=> m = Terminated(d) \/ m \in Range(queryBox[k])
<1>1. PICK x : x = Terminated(d) /\ x \in ReadingItem \cup SignalItem /\ ~ IsReading(x)
  BY QueryItems DEF Terminated, SignalItem
<1>2. /\ queryBox[k] \in Seq(ReadingItem \cup SignalItem)
      /\ \A m \in Range(queryBox[k]) : m \in ReadingItem \cup SignalItem
  BY LetterItems
<1>3. \A m \in Range(queryBox[k]) : <<m, x>> \in QueryOrder
  BY <1>1, <1>2, QueryOrders
<1>4. Sorted(queryBox[k], QueryOrder)
  BY DEF Awaits
<1>5. Sorted(s, QueryOrder)
  BY <1>1, <1>2, <1>3, <1>4, SortedAppend
<1>6. \A m : m \in Range(s) <=> m = x \/ m \in Range(queryBox[k])
  BY <1>1, <1>2, Added
<1>7. QED
  BY <1>1, <1>5, <1>6

LEMMA QueryWatchAwaits ==
    ASSUME TypeInv, QueryInv, NEW k \in Position, QueryWatch(k)
    PROVE  Awaits(k)'
<1>1. PICK d \in unasked[k] : /\ Watch(k, d)
                              /\ asked' = [asked EXCEPT ![k] = {d}]
                              /\ unasked' = [unasked EXCEPT ![k] = @ \ {d}]
  BY DEF QueryWatch
<1>2. /\ d \in Devices /\ asked'[k] = {d} /\ unasked'[k] = unasked[k] \ {d}
      /\ UNCHANGED <<deviceBox, device, query, pending>> /\ query[k] = "asking"
  BY <1>1 DEF QueryWatch, TypeInv, deviceVars
<1>3. Awaits(k)
  BY DEF QueryInv
<1>4. /\ Sorted(queryBox'[k], QueryOrder)
      /\ \A m \in Range(queryBox'[k]) :
           m \in Range(queryBox[k]) \/ (m = Terminated(d) /\ device[d] = "stopped")
  <2>1. CASE queryBox' = queryBox
    BY <1>3, <2>1 DEF Awaits
  <2>2. CASE device[d] = "stopped" /\ queryBox' = [queryBox EXCEPT ![k] = Append(@, Terminated(d))]
    <3>1. queryBox'[k] = Append(queryBox[k], Terminated(d))
      BY <2>2 DEF TypeInv
    <3>2. PICK s : s = queryBox'[k]
      OBVIOUS
    <3>3. /\ Sorted(s, QueryOrder)
          /\ \A m : m \in Range(s) <=> m = Terminated(d) \/ m \in Range(queryBox[k])
      BY <1>2, <1>3, <3>1, <3>2, SignalSorted
    <3>4. QED
      BY <2>2, <3>2, <3>3
  <2>3. QED
    BY <1>1, <2>1, <2>2 DEF Watch
<1>5. ASSUME NEW m \in Range(queryBox'[k]), IsReading(m)
      PROVE  m \in Range(queryBox[k]) /\ m.device_id # d
  <2>1. m \in Range(queryBox[k])
    BY <1>4, <1>5, QueryItems, SMT
  <2>2. QED
    BY <1>3, <1>5, <2>1 DEF Awaits
<1>6. \A m \in Range(queryBox'[k]) :
        IsReading(m) => /\ m.device_id \in pending'[k]
                        /\ m.device_id \notin asked'[k] /\ m.device_id \notin unasked'[k]
  BY <1>2, <1>3, <1>5 DEF Awaits
<1>7. \A e \in Devices : Terminated(e) \in Range(queryBox'[k]) => device'[e] = "stopped"
  <2>1. \A e : Terminated(e) = Terminated(d) => e = d
    BY DEF Terminated
  <2>2. QED
    BY <1>2, <1>3, <1>4, <2>1 DEF Awaits
<1>8. ASSUME NEW e \in Devices, [read |-> k] \in Range(deviceBox'[e])
      PROVE  /\ \A m \in Range(queryBox'[k]) : IsReading(m) => m.device_id # e
             /\ e \in pending'[k] /\ e \notin asked'[k] /\ e \notin unasked'[k]
  <2>1. /\ \A m \in Range(queryBox[k]) : IsReading(m) => m.device_id # e
        /\ e \in pending[k] /\ e \notin asked[k] /\ e \notin unasked[k]
    BY <1>2, <1>3, <1>8 DEF Awaits
  <2>2. QED
    BY <1>2, <1>5, <2>1
<1>9. QED
  BY <1>2, <1>4, <1>6, <1>7, <1>8 DEF Awaits

LEMMA QueryReadAwaits ==
    ASSUME TypeInv, QueryInv, NEW k \in Position, QueryRead(k)
    PROVE  \A j \in Position : Awaits(j)'
<1>1. PICK d : d \in asked[k] /\ TellDevice(d, [read |-> k])
  BY DEF QueryRead
<1>2. /\ UNCHANGED <<queryBox, device, unasked>>
      /\ pending'[k] = pending[k] \cup asked[k] /\ asked'[k] = {}
      /\ query[k] = "asking" /\ query'[k] \in {"asking", "running"}
      /\ \A j \in Position \ {k} : /\ query'[j] = query[j] /\ pending'[j] = pending[j]
                                   /\ asked'[j] = asked[j]
  BY DEF QueryRead, TypeInv, deviceVars
<1>3. d \in Devices
  BY <1>1 DEF TypeInv
<1>4. PICK x : x = [read |-> k] /\ x \in RecordItem \cup ReadItem /\ \A j : [read |-> j] = x => j = k
  <2>1. [read |-> k] \in RecordItem \cup ReadItem
    BY DEF ReadItem
  <2>2. \A j : [read |-> j] = [read |-> k] => j = k
    BY DeviceItems
  <2>3. QED
    BY <2>1, <2>2
<1>5. /\ \A e \in Devices \ {d} : deviceBox'[e] = deviceBox[e]
      /\ device[d] # "live" => deviceBox'[d] = deviceBox[d]
      /\ device[d] = "live" => deviceBox'[d] = Append(deviceBox[d], x)
  BY <1>1, <1>3, <1>4, TellTypes
<1>6. \A m : m \in Range(Append(deviceBox[d], x)) <=> m = x \/ m \in Range(deviceBox[d])
  BY <1>3, <1>4, BoxItems, Added
<1>7. ASSUME NEW j \in Position, j # k
      PROVE  Awaits(j)'
  <2>1. \A e \in Devices : [read |-> j] \in Range(deviceBox'[e]) => [read |-> j] \in Range(deviceBox[e])
    BY <1>4, <1>5, <1>6, <1>7
  <2>2. Awaits(j)
    BY DEF QueryInv
  <2>3. QED
    BY <1>2, <1>7, <2>1, <2>2, QueryKept
<1>8. Awaits(k)'
  <2>1. Awaits(k)
    BY DEF QueryInv
  <2>2. \A m \in Range(queryBox[k]) :
          IsReading(m) => /\ m.device_id \in pending[k]
                          /\ m.device_id \notin asked[k] /\ m.device_id \notin unasked[k]
    BY <1>2, <2>1 DEF Awaits
  <2>3. ASSUME NEW e \in Devices, [read |-> k] \in Range(deviceBox'[e])
        PROVE  /\ \A m \in Range(queryBox'[k]) : IsReading(m) => m.device_id # e
               /\ e \in pending'[k] /\ e \notin asked'[k] /\ e \notin unasked'[k]
    <3>1. e = d \/ [read |-> k] \in Range(deviceBox[e])
      BY <1>5, <2>3
    <3>2. CASE e = d
      BY <1>1, <1>2, <2>1, <2>2, <3>2, SMT DEF Awaits
    <3>3. CASE [read |-> k] \in Range(deviceBox[e])
      <4>1. /\ \A m \in Range(queryBox[k]) : IsReading(m) => m.device_id # e
            /\ e \in pending[k] /\ e \notin unasked[k]
        BY <1>2, <2>1, <3>3 DEF Awaits
      <4>2. QED
        BY <1>2, <4>1
    <3>4. QED
      BY <3>1, <3>2, <3>3
  <2>4. QED
    BY <1>2, <2>1, <2>2, <2>3 DEF Awaits
<1>9. QED
  BY <1>7, <1>8

LEMMA QueryStepAwaits ==
    ASSUME TypeInv, TreeInv, QueryInv, NEW k \in Position, Query(k)
    PROVE  QueryInv'
<1>1. CASE QueryRead(k)
  BY <1>1, QueryReadAwaits DEF QueryInv
<1>2. CASE ~ QueryRead(k)
  <2>1. UNCHANGED <<deviceBox, device>>
    BY <1>2 DEF Query, QueryStart, QueryWatch, QueryReading, QueryTerminated, QuerySkips,
                QueryStopped, deviceVars
  <2>2. ASSUME NEW j \in Position, j # k
        PROVE  Awaits(j)'
    <3> DEFINE Same == /\ queryBox'[j] = queryBox[j] /\ asked'[j] = asked[j]
                       /\ unasked'[j] = unasked[j] /\ pending'[j] = pending[j]
                       /\ query'[j] = query[j]
    <3>1. QueryStart(k) => Same
      BY <2>2, SMT DEF QueryStart, Conclude, TypeInv
    <3>2. QueryStopped(k) \/ QuerySkips(k) => Same
      BY <2>2, SMT DEF QueryStopped, QuerySkips, queryVars, TypeInv
    <3>3. QueryWatch(k) => Same
      BY <2>2, SMT DEF QueryWatch, Watch, TypeInv
    <3>4. ASSUME QueryReading(k)
          PROVE  Same
      <4>1. query'[j] = query[j]
        BY <2>2, <3>4, ConcludeTypes DEF QueryReading
      <4>2. QED
        BY <2>2, <3>4, <4>1, SMT DEF QueryReading, TypeInv
    <3>5. ASSUME QueryTerminated(k)
          PROVE  Same
      <4>1. query'[j] = query[j]
        BY <2>2, <3>5, ConcludeTypes DEF QueryTerminated
      <4>2. QED
        BY <2>2, <3>5, <4>1, SMT DEF QueryTerminated, TypeInv
    <3>6. Same
      BY <1>2, <3>1, <3>2, <3>3, <3>4, <3>5 DEF Query
    <3>7. Awaits(j)
      BY DEF QueryInv
    <3>8. QED
      BY <2>1, <3>6, <3>7, QueryKept
  <2>3. Awaits(k)'
    <3>1. Awaits(k)
      BY DEF QueryInv
    <3>2. CASE QueryStart(k)
      <4>1. /\ UNCHANGED <<queryBox, asked, unasked, pending>> /\ query[k] = "starting"
            /\ query'[k] \in {"asking", "stopped"}
        BY <3>2 DEF QueryStart, Conclude, TypeInv
      <4>2. QED
        BY <2>1, <3>1, <4>1 DEF Awaits
    <3>3. CASE QueryStopped(k)
      <4>1. UNCHANGED <<queryBox, asked, unasked, pending>> /\ query'[k] = "stopped"
        BY <3>3 DEF QueryStopped, TypeInv
      <4>2. QED
        BY <2>1, <3>1, <4>1 DEF Awaits
    <3>4. CASE QuerySkips(k)
      <4>1. PICK x : x = Head(queryBox[k])
        OBVIOUS
      <4>2. /\ UNCHANGED <<asked, unasked, pending, query>> /\ queryBox[k] # <<>>
            /\ queryBox' = [queryBox EXCEPT ![k] = Tail(@)]
        BY <3>4 DEF QuerySkips, queryVars
      <4>3. Sorted(queryBox'[k], QueryOrder) /\ \A m \in Range(queryBox'[k]) : m \in Range(queryBox[k])
        BY <3>1, <4>1, <4>2, TakenLetter
      <4>4. QED
        BY <2>1, <3>1, <4>2, <4>3 DEF Awaits
    <3>5. QED
      BY <1>2, <3>2, <3>3, <3>4, QueryWatchAwaits, QueryReadingAwaits, QueryTerminatedAwaits DEF Query
  <2>4. QED
    BY <2>2, <2>3 DEF QueryInv
<1>3. QED
  BY <1>1, <1>2

(* A device is read: its reading was asked for, is awaited, and is the     *)
(* first of it, in front of its signal.                                    *)
LEMMA DeviceReadAwaits ==
    ASSUME TypeInv, TreeInv, BoxInv, QueryInv, NEW d \in Devices, DeviceRead(d)
    PROVE  QueryInv'
<1>1. PICK k, y : y = Head(deviceBox[d]) /\ k = y.read
  OBVIOUS
<1>2. /\ device[d] = "live" /\ deviceBox[d] # <<>> /\ "read" \in DOMAIN y
      /\ deviceBox' = [deviceBox EXCEPT ![d] = Tail(@)]
      /\ UNCHANGED <<device, query, asked, unasked, pending>>
  BY <1>1 DEF DeviceRead, Handles, deviceVars, queryVars
<1>3. /\ \A e \in Devices \ {d} : deviceBox'[e] = deviceBox[e]
      /\ \A m : m \in Range(deviceBox[d]) <=> m = y \/ m \in Range(deviceBox'[d])
      /\ \A m \in Range(deviceBox'[d]) : m \in RecordItem \cup ReadItem /\ <<y, m>> \in DeviceOrder
      /\ y \in RecordItem \cup ReadItem
  BY <1>1, <1>2, DeviceHead
<1>4. ~ IsRecord(y) /\ k \in Position /\ y = [read |-> k]
  BY <1>1, <1>2, <1>3, DeviceItems
<1>5. [read |-> k] \notin Range(deviceBox'[d]) /\ [read |-> k] \in Range(deviceBox[d])
  BY <1>1, <1>3, <1>4, DeviceOrders, DeviceItems
<1>6. \A e \in Devices : \A m : m \in Range(deviceBox'[e]) => m \in Range(deviceBox[e])
  BY <1>3
<1>7. ASSUME NEW j \in Position, queryBox'[j] = queryBox[j]
      PROVE  Awaits(j)'
  BY <1>2, <1>6, <1>7, QueryKept DEF QueryInv
<1>8. CASE query[k] = "stopped"
  BY <1>1, <1>7, <1>8 DEF DeviceRead, QueryInv
<1>9. CASE query[k] # "stopped"
  <2>1. PICK x, r : x = [reading |-> r, device_id |-> d] /\ r = last_reading[d]
    OBVIOUS
  <2>2. /\ x \in ReadingItem \cup SignalItem /\ IsReading(x) /\ x.device_id = d
    BY <2>1, QueryItems DEF ReadingItem, TypeInv
  <2>3. queryBox'[k] = Append(queryBox[k], x) /\ \A j \in Position \ {k} : queryBox'[j] = queryBox[j]
    BY <1>1, <1>4, <1>9, <2>1 DEF DeviceRead, TypeInv
  <2>4. /\ queryBox[k] \in Seq(ReadingItem \cup SignalItem)
        /\ \A m \in Range(queryBox[k]) : m \in ReadingItem \cup SignalItem
    BY <1>4, LetterItems
  <2>5. Awaits(k)
    BY <1>4 DEF QueryInv
  <2>6. /\ \A m \in Range(queryBox[k]) : IsReading(m) => m.device_id # d
        /\ d \in pending[k] /\ d \notin asked[k] /\ d \notin unasked[k] /\ query[k] # "none"
    BY <1>4, <1>5, <1>9, <2>5 DEF Awaits, BoxInv, Started
  <2>7. \A m \in Range(queryBox[k]) : <<m, x>> \in QueryOrder
    <3> SUFFICES ASSUME NEW m \in Range(queryBox[k])
                 PROVE  <<m, x>> \in QueryOrder
      OBVIOUS
    <3>1. ~ IsReading(m) => m.terminated # d
      <4>1. ~ IsReading(m) => m.terminated \in Devices /\ m = Terminated(m.terminated)
        BY <2>4, QueryItems
      <4>2. QED
        BY <1>2, <2>5, <4>1 DEF Awaits
    <3>2. QED
      BY <2>2, <2>4, <2>6, <3>1, QueryOrders
  <2>8. Sorted(queryBox'[k], QueryOrder)
    BY <2>2, <2>3, <2>4, <2>5, <2>7, SortedAppend, SMT DEF Awaits
  <2>9. \A m : m \in Range(queryBox'[k]) <=> m = x \/ m \in Range(queryBox[k])
    BY <2>2, <2>3, <2>4, Added, SMT
  <2>10. \A m \in Range(queryBox'[k]) :
           IsReading(m) => /\ m.device_id \in pending'[k]
                           /\ m.device_id \notin asked'[k] /\ m.device_id \notin unasked'[k]
    BY <1>2, <1>9, <2>2, <2>5, <2>6, <2>9 DEF Awaits
  <2>11. \A e \in Devices : Terminated(e) \in Range(queryBox'[k]) => device'[e] = "stopped"
    <3>1. \A e : Terminated(e) # x
      BY <2>2, QueryItems
    <3>2. QED
      BY <1>2, <2>5, <2>9, <3>1 DEF Awaits
  <2>12. ASSUME NEW e \in Devices, [read |-> k] \in Range(deviceBox'[e])
         PROVE  /\ \A m \in Range(queryBox'[k]) : IsReading(m) => m.device_id # e
                /\ e \in pending'[k] /\ e \notin asked'[k] /\ e \notin unasked'[k]
    <3>1. e # d /\ [read |-> k] \in Range(deviceBox[e])
      BY <1>5, <1>6, <2>12
    <3>2. /\ \A m \in Range(queryBox[k]) : IsReading(m) => m.device_id # e
          /\ e \in pending[k] /\ e \notin asked[k] /\ e \notin unasked[k]
      BY <1>9, <2>5, <3>1 DEF Awaits
    <3>3. QED
      BY <1>2, <2>2, <2>9, <3>1, <3>2
  <2>13. Awaits(k)'
    BY <1>2, <2>5, <2>6, <2>8, <2>10, <2>11, <2>12 DEF Awaits
  <2>14. QED
    BY <1>7, <2>3, <2>13 DEF QueryInv
<1>10. QED
  BY <1>8, <1>9

LEMMA DeviceSignalsAwaits ==
    ASSUME TypeInv, QueryInv, NEW d \in Devices, DeviceSignals(d)
    PROVE  QueryInv'
<1> SUFFICES ASSUME NEW k \in Position
             PROVE  Awaits(k)'
  BY DEF QueryInv
<1>1. /\ UNCHANGED <<deviceBox, query, asked, unasked, pending>>
      /\ device'[d] = "stopped" /\ \A e \in Devices \ {d} : device'[e] = device[e]
      /\ queryBox'[k] = queryBox[k] \/ queryBox'[k] = Append(queryBox[k], Terminated(d))
  BY Numbers DEF DeviceSignals, Signalled, queryVars, TypeInv
<1>2. Awaits(k)
  BY DEF QueryInv
<1>3. CASE queryBox'[k] = queryBox[k]
  BY <1>1, <1>2, <1>3, QueryKept
<1>4. CASE queryBox'[k] = Append(queryBox[k], Terminated(d))
  <2>1. PICK s : s = queryBox'[k]
    OBVIOUS
  <2>2. /\ Sorted(s, QueryOrder)
        /\ \A m : m \in Range(s) <=> m = Terminated(d) \/ m \in Range(queryBox[k])
    BY <1>2, <1>4, <2>1, SignalSorted
  <2>3. \A m \in Range(s) : IsReading(m) => m \in Range(queryBox[k])
    BY <2>2, QueryItems, SMT
  <2>4. \A e \in Devices : Terminated(e) \in Range(s) => device'[e] = "stopped"
    <3>1. \A e \in Devices : device[e] = "stopped" => device'[e] = "stopped"
      BY <1>1
    <3>2. \A e : Terminated(e) = Terminated(d) => e = d
      BY DEF Terminated
    <3>3. QED
      BY <1>1, <1>2, <2>2, <3>1, <3>2 DEF Awaits
  <2>5. QED
    BY <1>1, <1>2, <2>1, <2>2, <2>3, <2>4 DEF Awaits
<1>5. QED
  BY <1>1, <1>3, <1>4

LEMMA DeviceStepAwaits ==
    ASSUME TypeInv, TreeInv, BoxInv, QueryInv, NEW d \in Devices, Device(d)
    PROVE  QueryInv'
<1>1. CASE DeviceRead(d)
  BY <1>1, DeviceReadAwaits
<1>2. CASE DeviceSignals(d)
  BY <1>2, DeviceSignalsAwaits
<1>3. CASE DeviceRecord(d) \/ DeviceRestarts(d)
  <2>1. /\ deviceBox[d] # <<>> /\ deviceBox' = [deviceBox EXCEPT ![d] = Tail(@)]
        /\ UNCHANGED <<device, queryBox, query, asked, unasked, pending>>
    BY <1>3 DEF DeviceRecord, DeviceRestarts, Handles, queryVars
  <2>2. \A e \in Devices : \A m : m \in Range(deviceBox'[e]) => m \in Range(deviceBox[e])
    BY <2>1, DeviceTakes
  <2>3. QED
    BY <2>1, <2>2, QueryKept DEF QueryInv
<1>4. CASE DeviceGivesUp(d) \/ DeviceStopped(d)
  <2>1. /\ device[d] = "live" /\ device' = [device EXCEPT ![d] = "stopping"]
        /\ deviceBox' = [deviceBox EXCEPT ![d] = <<>>]
        /\ UNCHANGED <<queryBox, query, asked, unasked, pending>>
    BY <1>4 DEF DeviceGivesUp, DeviceStopped, DeviceDrops, Handles, queryVars
  <2>2. \A e \in Devices : deviceBox'[e] = deviceBox[e] \/ deviceBox'[e] = <<>>
    BY <2>1 DEF TypeInv
  <2>3. \A e \in Devices : \A m : m \in Range(deviceBox'[e]) => m \in Range(deviceBox[e])
    BY <2>2, EmptyBox
  <2>4. \A e \in Devices : device[e] = "stopped" => device'[e] = "stopped"
    BY <2>1 DEF TypeInv
  <2>5. QED
    BY <2>1, <2>3, <2>4, QueryKept DEF QueryInv
<1>5. QED
  BY <1>1, <1>2, <1>3, <1>4 DEF Device

LEMMA GroupStepAwaits ==
    ASSUME TypeInv, PipeInv, TreeInv, BoxInv, QueryInv, Group
    PROVE  QueryInv'
<1>1. CASE GroupRecord
  <2>1. PICK k, d : d \in devices[log[k].name] /\ k = Head(groupBox).command /\ TellDevice(d, [record |-> k])
    BY <1>1 DEF GroupRecord
  <2>2. /\ GroupHandles /\ ~ IsSignal(Head(groupBox)) /\ log[k].op = "record"
        /\ UNCHANGED <<device, queryBox, query, asked, unasked, pending>>
    BY <1>1, <2>1 DEF GroupRecord, deviceVars, queryVars
  <2>3. k \in 1 .. Len(log) /\ k \in Position
    BY <2>1, <2>2, GroupTakes
  <2>4. d \in Devices
    BY <2>1, <2>2, <2>3, CommandFacts DEF TypeInv
  <2>5. PICK x : x = [record |-> k] /\ x \in RecordItem \cup ReadItem /\ \A j : [read |-> j] # x
    BY <2>3, DeviceItems DEF RecordItem
  <2>6. /\ \A e \in Devices \ {d} : deviceBox'[e] = deviceBox[e]
        /\ device[d] # "live" => deviceBox'[d] = deviceBox[d]
        /\ device[d] = "live" => deviceBox'[d] = Append(deviceBox[d], x)
    BY <2>1, <2>4, <2>5, TellTypes
  <2>7. \A m : m \in Range(Append(deviceBox[d], x)) <=> m = x \/ m \in Range(deviceBox[d])
    BY <2>4, <2>5, BoxItems, Added
  <2>8. \A e \in Devices : \A j :
          [read |-> j] \in Range(deviceBox'[e]) => [read |-> j] \in Range(deviceBox[e])
    BY <2>4, <2>5, <2>6, <2>7
  <2>9. QED
    BY <2>2, <2>8, QueryKept DEF QueryInv
<1>2. CASE GroupSpawns
  <2>1. PICK k, d : /\ d \in Devices /\ IsNextFree(d)
                    /\ device' = [device EXCEPT ![d] = "live"]
                    /\ deviceBox' = [deviceBox EXCEPT ![d] = <<[record |-> k]>>]
    BY <1>2 DEF GroupSpawns
  <2>2. UNCHANGED <<queryBox, query, asked, unasked, pending>>
    BY <1>2 DEF GroupSpawns, queryVars
  <2>3. \A e \in Devices : device[e] = "stopped" => device'[e] = "stopped"
    BY <2>1 DEF TypeInv, IsNextFree
  <2>4. /\ deviceBox'[d] = <<[record |-> k]>> /\ \A e \in Devices \ {d} : deviceBox'[e] = deviceBox[e]
    BY <2>1 DEF TypeInv
  <2>5. \A m : m \in Range(deviceBox'[d]) => m = [record |-> k]
    <3>1. PICK s, x : s = deviceBox'[d] /\ x = [record |-> k] /\ s = <<x>>
      BY <2>4
    <3>2. QED
      BY <3>1, Single
  <2>6. \A e \in Devices : \A j :
          [read |-> j] \in Range(deviceBox'[e]) => [read |-> j] \in Range(deviceBox[e])
    BY <2>4, <2>5, DeviceItems
  <2>7. QED
    BY <2>2, <2>3, <2>6, QueryKept DEF QueryInv
<1>3. CASE GroupTerminated \/ GroupStopped
  <2>1. UNCHANGED <<deviceBox, device, queryBox, query, asked, unasked, pending>>
    BY <1>3 DEF GroupTerminated, GroupStopped, deviceVars, queryVars
  <2>2. QED
    BY <2>1, QueryKept DEF QueryInv
<1>4. CASE GroupAverage
  <2>1. PICK k : k = Head(groupBox).command
    OBVIOUS
  <2>2. k \in Position /\ query[k] = "none"
    BY <1>4, <2>1, GroupAverageFlow DEF Started
  <2>3. /\ UNCHANGED <<deviceBox, device, queryBox, asked, pending>> /\ query'[k] = "starting"
        /\ \A j \in Position \ {k} : query'[j] = query[j] /\ unasked'[j] = unasked[j]
    BY <1>4, <2>1, <2>2 DEF GroupAverage, deviceVars, TypeInv
  <2>4. \A j \in Position : j # k => Awaits(j)'
    BY <2>3, QueryKept DEF QueryInv
  <2>5. Awaits(k)
    BY <2>2 DEF QueryInv
  <2>6. /\ \A m \in Range(queryBox[k]) : ~ IsReading(m)
        /\ \A d \in Devices : [read |-> k] \notin Range(deviceBox[d])
        /\ asked[k] = {}
    BY <2>2, <2>5 DEF Awaits, BoxInv, Started
  <2>7. Awaits(k)'
    BY <2>3, <2>5, <2>6 DEF Awaits
  <2>8. QED
    BY <2>4, <2>7 DEF QueryInv
<1>5. QED
  BY <1>1, <1>2, <1>3, <1>4 DEF Group

LEMMA NextAwaits ==
    ASSUME TypeInv, PipeInv, TreeInv, BoxInv, QueryInv, [Next]_vars
    PROVE  QueryInv'
<1>1. CASE Client \/ Manager \/ UNCHANGED vars
  <2>1. UNCHANGED <<deviceBox, device, queryBox, query, asked, unasked, pending>>
    BY <1>1 DEF Client, Send, Manager, ManagerRecord, ManagerAverage, ManagerShutdown,
                ManagerCloses, vars, deviceVars, queryVars
  <2>2. QED
    BY <2>1, QueryKept DEF QueryInv
<1>2. CASE Group
  BY <1>2, GroupStepAwaits
<1>3. CASE \E k \in Position : Query(k)
  BY <1>3, QueryStepAwaits
<1>4. CASE \E d \in Devices : Device(d)
  BY <1>4, DeviceStepAwaits
<1>5. QED
  BY <1>1, <1>2, <1>3, <1>4, Numbers DEF Next

----------------------------------------------------------------------------
(* Readings.                                                               *)

LEMMA CurrentStays ==
    ASSUME TypeInv, NEW c, log' = log \/ Send(c), NEW k \in Position, NEW j, Current(k, j)
    PROVE  Current(k, j)'
<1>1. CASE log' = log
  BY <1>1 DEF Current
<1>2. CASE Send(c)
  <2>1. log' = Append(log, c) /\ log \in Seq(Command)
    BY <1>2 DEF Send, TypeInv
  <2>2. Len(log) \in Nat /\ Len(log') = Len(log) + 1 /\ \A i \in 1 .. Len(log) : log'[i] = log[i]
    BY <2>1, AppendParts, SMT
  <2>3. k \in Nat /\ k <= Len(log) /\ j \in 1 .. Len(log)
    BY SentLength DEF Current
  <2>4. \A l \in j + 1 .. k - 1 : l \in 1 .. Len(log)
    BY <2>2, <2>3, SMT
  <2>5. QED
    BY <2>2, <2>3, <2>4, SMT DEF Current
<1>3. QED
  BY <1>1, <1>2

LEMMA CurrentKept ==
    ASSUME TypeInv, CurrentInv, NEW c, log' = log \/ Send(c),
           \A k \in Position : \A m \in Range(queryBox'[k]) : IsReading(m) => m \in Range(queryBox[k]),
           \A k \in Position : \A j \in Range(readings'[k]) : Current(k, j)'
    PROVE  CurrentInv'
<1>1. ASSUME NEW k \in Position, NEW m \in Range(queryBox'[k]), IsReading(m), m.reading # 0
      PROVE  Current(k, m.reading)'
  <2>1. PICK j : j = m.reading
    OBVIOUS
  <2>2. Current(k, j)
    BY <1>1, <2>1 DEF CurrentInv
  <2>3. Current(k, j)'
    BY <2>2, CurrentStays
  <2>4. QED
    BY <2>1, <2>3
<1>2. QED
  BY <1>1 DEF CurrentInv

LEMMA CurrentAlone ==
    ASSUME TypeInv, CurrentInv, NEW c, log' = log \/ Send(c), UNCHANGED <<queryBox, readings>>
    PROVE  CurrentInv'
<1>1. \A k \in Position : \A j \in Range(readings'[k]) : Current(k, j)'
  BY CurrentStays DEF CurrentInv
<1>2. QED
  BY <1>1, CurrentKept

(* The reading of a device for a query: a record that was sent before the  *)
(* query is not on its way anymore, nor behind the read, so that the       *)
(* device has handled it.                                                  *)
LEMMA ReadIsCurrent ==
    ASSUME TypeInv, PipeInv, TreeInv, BoxInv, HeldInv, NEW d \in Devices, device[d] = "live",
           NEW k \in Position, deviceBox[d] # <<>>, Head(deviceBox[d]) = [read |-> k],
           NEW r, r = last_reading[d], r # 0
    PROVE  Current(k, r)
<1>1. PICK n \in Names : d \in devices[n]
  BY DEF TreeInv
<1>2. IsRecordOf(r, n)
  BY <1>1 DEF BoxInv
<1>3. PICK y : y = [read |-> k] /\ ~ IsRecord(y) /\ y.read = k
  BY DeviceItems
<1>4. PICK s : s = deviceBox[d]
  OBVIOUS
<1>5. /\ s \in Seq(RecordItem \cup ReadItem) /\ s # <<>> /\ Head(s) = y /\ Sorted(s, DeviceOrder)
      /\ \A m \in Range(s) : m \in RecordItem \cup ReadItem
  BY <1>3, <1>4, BoxItems DEF BoxInv
<1>6. /\ y \in Range(s) /\ \A m : m \in Range(s) <=> m = y \/ m \in Range(Tail(s))
  BY <1>5, Taken
<1>7. \A m \in Range(Tail(s)) : <<y, m>> \in DeviceOrder
  BY <1>5, SortedTail
<1>8. Started(k)
  BY <1>3, <1>4, <1>6 DEF BoxInv
<1>9. k <= Len(log) /\ \A u \in Place : Upcoming(u) => k < u
  BY <1>8 DEF PipeInv
<1>10. ASSUME NEW l \in Position, [record |-> l] \in Range(s)
       PROVE  k < l
  <2>1. PICK x : x = [record |-> l] /\ IsRecord(x) /\ x.record = l
    BY DeviceItems
  <2>2. x # y
    BY <1>3, <2>1
  <2>3. <<y, x>> \in DeviceOrder /\ x \in RecordItem \cup ReadItem /\ y \in RecordItem \cup ReadItem
    BY <1>5, <1>6, <1>7, <1>10, <2>1, <2>2
  <2>4. QED
    BY <1>3, <2>1, <2>3, DeviceOrders
<1>11. ASSUME NEW l \in r + 1 .. k - 1, log[l].op = "record", log[l].name = log[r].name
       PROVE  FALSE
  <2>1. r \in Nat /\ k \in Nat /\ l \in Nat /\ r < l /\ l < k /\ Len(log) \in Nat /\ r \in 1 .. Len(log)
    BY <1>2, <1>11, SentLength, SMT DEF IsRecordOf
  <2>2. l \in 1 .. Len(log) /\ l \in Position /\ k \in Place /\ l \in Place
    BY <1>9, <2>1, SentLength, SMT DEF Position
  <2>3. IsRecordOf(l, n)
    BY <1>2, <1>11, <2>2 DEF IsRecordOf
  <2>4. Relevant(l)
    BY <1>8, <2>1, <2>2 DEF Relevant
  <2>5. \/ Upcoming(l)
        \/ [record |-> l] \in Range(deviceBox[d])
        \/ last_reading[d] = 0 \/ l <= last_reading[d]
    BY <1>1, <2>2, <2>3, <2>4 DEF HeldInv
  <2>6. ~ Upcoming(l)
    BY <1>9, <2>1, <2>2, SMT
  <2>7. [record |-> l] \notin Range(deviceBox[d])
    BY <1>4, <1>10, <2>1, <2>2, SMT
  <2>8. QED
    BY <2>1, <2>5, <2>6, <2>7, SMT
<1>12. QED
  BY <1>2, <1>9, <1>11 DEF Current, IsRecordOf

LEMMA DeviceReadCurrent ==
    ASSUME TypeInv, PipeInv, TreeInv, BoxInv, HeldInv, CurrentInv, NEW d \in Devices, DeviceRead(d)
    PROVE  CurrentInv'
<1>1. PICK k, y : y = Head(deviceBox[d]) /\ k = y.read
  OBVIOUS
<1>2. /\ device[d] = "live" /\ deviceBox[d] # <<>> /\ "read" \in DOMAIN y /\ UNCHANGED <<log, readings>>
  BY <1>1 DEF DeviceRead, Handles, clientVars, queryVars
<1>3. y \in RecordItem \cup ReadItem
  BY <1>1, <1>2, BoxItems, Taken
<1>4. k \in Position /\ y = [read |-> k]
  BY <1>1, <1>2, <1>3, DeviceItems
<1>5. PICK x, r : x = [reading |-> r, device_id |-> d] /\ r = last_reading[d]
  OBVIOUS
<1>6. x \in ReadingItem \cup SignalItem /\ x.reading = r
  BY <1>5, QueryItems DEF ReadingItem, TypeInv
<1>7. \A j \in Position : queryBox'[j] = queryBox[j] \/ (j = k /\ queryBox'[j] = Append(queryBox[j], x))
  BY <1>1, <1>4, <1>5 DEF DeviceRead, TypeInv
<1>8. \A j, i : Current(j, i)' <=> Current(j, i)
  BY <1>2 DEF Current
<1>9. r # 0 => Current(k, r)
  BY <1>1, <1>2, <1>4, <1>5, ReadIsCurrent
<1>10. ASSUME NEW j \in Position, NEW m \in Range(queryBox'[j]), IsReading(m), m.reading # 0
       PROVE  Current(j, m.reading)
  <2>1. CASE m \in Range(queryBox[j])
    BY <1>10, <2>1 DEF CurrentInv
  <2>2. CASE j = k /\ m = x
    BY <1>6, <1>9, <1>10, <2>2
  <2>3. CASE queryBox'[j] = queryBox[j]
    BY <1>10, <2>1, <2>3
  <2>4. CASE j = k /\ queryBox'[j] = Append(queryBox[j], x)
    <3>1. queryBox[j] \in Seq(ReadingItem \cup SignalItem)
      BY LetterItems
    <3>2. \A z : z \in Range(Append(queryBox[j], x)) <=> z = x \/ z \in Range(queryBox[j])
      BY <1>6, <3>1, Added
    <3>3. QED
      BY <2>1, <2>2, <2>4, <3>2
  <2>5. QED
    BY <1>7, <2>3, <2>4
<1>11. \A j \in Position : \A i \in Range(readings'[j]) : Current(j, i)
  BY <1>2 DEF CurrentInv
<1>12. QED
  BY <1>8, <1>10, <1>11 DEF CurrentInv

LEMMA QueryReadingCurrent ==
    ASSUME TypeInv, CurrentInv, NEW k \in Position, QueryReading(k)
    PROVE  CurrentInv'
<1>1. PICK x : x = Head(queryBox[k])
  OBVIOUS
<1>2. /\ queryBox[k] # <<>> /\ IsReading(x) /\ log' = log
      /\ queryBox' = [queryBox EXCEPT ![k] = Tail(@)]
      /\ readings'[k] = IF x.reading = 0 THEN readings[k] ELSE Append(readings[k], x.reading)
      /\ \A j \in Position \ {k} : readings'[j] = readings[j]
  BY <1>1 DEF QueryReading, TypeInv
<1>3. /\ \A j \in Position \ {k} : queryBox'[j] = queryBox[j]
      /\ x \in ReadingItem \cup SignalItem /\ x \in Range(queryBox[k])
      /\ \A m : m \in Range(queryBox[k]) <=> m = x \/ m \in Range(queryBox'[k])
  BY <1>1, <1>2, QueryTakes
<1>4. \A j \in Position : \A m \in Range(queryBox'[j]) : m \in Range(queryBox[j])
  BY <1>3
<1>5. \A j, i : Current(j, i)' <=> Current(j, i)
  BY <1>2 DEF Current
<1>6. ASSUME NEW j \in Position, NEW i \in Range(readings'[j])
      PROVE  Current(j, i)
  <2>1. CASE i \in Range(readings[j])
    BY <2>1 DEF CurrentInv
  <2>2. CASE j = k /\ x.reading # 0 /\ i = x.reading
    BY <1>2, <1>3, <2>2 DEF CurrentInv
  <2>3. CASE readings'[j] = readings[j]
    BY <1>6, <2>1, <2>3
  <2>4. CASE j = k /\ x.reading # 0 /\ readings'[j] = Append(readings[j], x.reading)
    <3>1. readings[j] \in Seq(Position) /\ x.reading \in Position
      <4>1. x.reading \in 0 .. MaxCommands
        BY <1>2, <1>3, QueryItems
      <4>2. x.reading \in Position
        BY <2>4, <4>1, Numbers, SMT DEF Position
      <4>3. QED
        BY <4>2 DEF TypeInv
    <3>2. \A z : z \in Range(Append(readings[j], x.reading)) <=> z = x.reading \/ z \in Range(readings[j])
      BY <3>1, Added
    <3>3. QED
      BY <2>1, <2>2, <2>4, <3>2
  <2>5. QED
    BY <1>2, <2>3, <2>4
<1>7. QED
  BY <1>2, <1>4, <1>5, <1>6, CurrentKept

(* Other steps of queries and devices take from the mailboxes, or put only *)
(* signals into them.                                                      *)
LEMMA SignalsCurrent ==
    ASSUME TypeInv, CurrentInv, NEW d \in Devices, UNCHANGED <<log, readings>>,
           \A k \in Position : \/ queryBox'[k] = queryBox[k]
                               \/ queryBox'[k] = Append(queryBox[k], Terminated(d))
                               \/ queryBox[k] # <<>> /\ queryBox'[k] = Tail(queryBox[k])
    PROVE  CurrentInv'
<1>1. ASSUME NEW k \in Position, NEW m \in Range(queryBox'[k]), IsReading(m)
      PROVE  m \in Range(queryBox[k])
  <2>1. queryBox[k] \in Seq(ReadingItem \cup SignalItem)
    BY LetterItems
  <2>2. CASE queryBox'[k] = queryBox[k]
    BY <1>1, <2>2
  <2>3. CASE queryBox'[k] = Append(queryBox[k], Terminated(d))
    <3>1. PICK x : x = Terminated(d) /\ x \in ReadingItem \cup SignalItem /\ ~ IsReading(x)
      BY QueryItems DEF Terminated, SignalItem
    <3>2. \A z : z \in Range(Append(queryBox[k], x)) <=> z = x \/ z \in Range(queryBox[k])
      BY <2>1, <3>1, Added
    <3>3. QED
      BY <1>1, <2>3, <3>1, <3>2
  <2>4. CASE queryBox[k] # <<>> /\ queryBox'[k] = Tail(queryBox[k])
    BY <1>1, <2>1, <2>4, Taken
  <2>5. QED
    BY <2>2, <2>3, <2>4
<1>2. \A k \in Position : \A j \in Range(readings'[k]) : Current(k, j)'
  BY CurrentStays DEF CurrentInv
<1>3. QED
  BY <1>1, <1>2, CurrentKept

LEMMA NextCurrent ==
    ASSUME TypeInv, PipeInv, TreeInv, BoxInv, HeldInv, CurrentInv, [Next]_vars
    PROVE  CurrentInv'
<1>1. CASE Client
  <2>1. PICK c : Send(c)
    BY <1>1 DEF Client
  <2>2. UNCHANGED <<queryBox, readings>>
    BY <2>1 DEF Send, queryVars
  <2>3. QED
    BY <2>1, <2>2, CurrentAlone
<1>2. CASE Manager \/ Group \/ UNCHANGED vars
  <2>1. UNCHANGED <<log, queryBox, readings>>
    BY <1>2 DEF Manager, ManagerRecord, ManagerAverage, ManagerShutdown, ManagerCloses, Group,
                GroupRecord, GroupSpawns, GroupAverage, GroupTerminated, GroupStopped, vars,
                clientVars, queryVars
  <2>2. QED
    BY <2>1, CurrentAlone
<1>3. ASSUME NEW k \in Position, Query(k)
      PROVE  CurrentInv'
  <2>1. CASE QueryReading(k)
    BY <2>1, QueryReadingCurrent
  <2>2. CASE QueryWatch(k)
    <3>1. PICK d \in unasked[k] : Watch(k, d)
      BY <2>2 DEF QueryWatch
    <3>2. d \in Devices /\ UNCHANGED <<log, readings>>
      BY <2>2, <3>1 DEF QueryWatch, TypeInv, clientVars
    <3>3. \A j \in Position : \/ queryBox'[j] = queryBox[j]
                              \/ queryBox'[j] = Append(queryBox[j], Terminated(d))
      BY <3>1 DEF Watch, TypeInv
    <3>4. QED
      BY <3>2, <3>3, SignalsCurrent
  <2>3. CASE QueryTerminated(k) \/ QuerySkips(k)
    <3>1. /\ queryBox[k] # <<>> /\ queryBox' = [queryBox EXCEPT ![k] = Tail(@)]
          /\ UNCHANGED <<log, readings>>
      BY <2>3 DEF QueryTerminated, QuerySkips, clientVars, queryVars
    <3>2. \A j \in Position : \/ queryBox'[j] = queryBox[j]
                              \/ queryBox[j] # <<>> /\ queryBox'[j] = Tail(queryBox[j])
      BY <3>1, QueryTakes
    <3>3. k \in Devices
      BY Numbers
    <3>4. QED
      BY <3>1, <3>2, <3>3, SignalsCurrent
  <2>4. CASE QueryStart(k) \/ QueryRead(k) \/ QueryStopped(k)
    <3>1. UNCHANGED <<log, queryBox, readings>>
      BY <2>4 DEF QueryStart, QueryRead, QueryStopped, clientVars
    <3>2. QED
      BY <3>1, CurrentAlone
  <2>5. QED
    BY <1>3, <2>1, <2>2, <2>3, <2>4 DEF Query
<1>4. ASSUME NEW d \in Devices, Device(d)
      PROVE  CurrentInv'
  <2>1. CASE DeviceRead(d)
    BY <2>1, DeviceReadCurrent
  <2>2. CASE DeviceSignals(d)
    <3>1. UNCHANGED <<log, readings>>
      BY <2>2 DEF DeviceSignals, clientVars, queryVars
    <3>2. \A j \in Position : \/ queryBox'[j] = queryBox[j]
                              \/ queryBox'[j] = Append(queryBox[j], Terminated(d))
      BY <2>2, Numbers DEF DeviceSignals, Signalled
    <3>3. QED
      BY <3>1, <3>2, SignalsCurrent
  <2>3. CASE DeviceRecord(d) \/ DeviceRestarts(d) \/ DeviceGivesUp(d) \/ DeviceStopped(d)
    <3>1. UNCHANGED <<log, queryBox, readings>>
      BY <2>3 DEF DeviceRecord, DeviceRestarts, DeviceGivesUp, DeviceStopped, DeviceDrops,
                  clientVars, queryVars
    <3>2. QED
      BY <3>1, CurrentAlone
  <2>4. QED
    BY <1>4, <2>1, <2>2, <2>3 DEF Device
<1>5. QED
  BY <1>1, <1>2, <1>3, <1>4, Numbers DEF Next

----------------------------------------------------------------------------
(* The inductive invariant.                                                *)

LEMMA InitInv ==
    ASSUME Init
    PROVE  Inv
<1>1. /\ log = <<>> /\ managerBox = <<>> /\ groupBox = <<>>
      /\ manager = "live" /\ group = "none"
      /\ \A d \in Devices : /\ deviceBox[d] = <<>> /\ device[d] = "free" /\ last_reading[d] = 0
      /\ \A k \in Position : /\ queryBox[k] = <<>> /\ query[k] = "none" /\ asked[k] = {}
                             /\ readings[k] = <<>>
      /\ \A n \in Names : devices[n] = {}
  BY Numbers DEF Init
<1>2. \A s : s = <<>> => (\A R : Sorted(s, R)) /\ (\A m : m \notin Range(s)) /\ \A S : s \in Seq(S)
  BY EmptyBox
<1>3. Len(log) = 0
  BY <1>1
<1>4. TypeInv
  <2>1. /\ log \in Seq(Command) /\ Len(log) <= MaxCommands
        /\ managerBox \in Seq(Position) /\ groupBox \in Seq(CommandItem \cup SignalItem)
    BY <1>1, <1>2, <1>3, Numbers, SMT
  <2>2. <<>> \in Seq(RecordItem \cup ReadItem) /\ <<>> \in Seq(ReadingItem \cup SignalItem)
        /\ <<>> \in Seq(Position)
    BY <1>2
  <2>3. /\ deviceBox \in [Devices -> Seq(RecordItem \cup ReadItem)]
        /\ queryBox \in [Position -> Seq(ReadingItem \cup SignalItem)]
        /\ readings \in [Position -> Seq(Position)]
    BY <2>2, Numbers DEF Init
  <2>4. last_reading \in [Devices -> 0 .. MaxCommands]
    BY Numbers, SMT DEF Init
  <2>5. QED
    BY <2>1, <2>3, <2>4, Numbers DEF Init, TypeInv
<1>5. PipeInv
  <2>1. \A k : ~ Started(k)
    BY <1>1 DEF Started
  <2>2. Sorted(managerBox, Earlier) /\ Sorted(groupBox, GroupOrder)
        /\ (\A m : m \notin Range(managerBox)) /\ \A m : m \notin Range(groupBox)
    BY <1>1, <1>2
  <2>3. QED
    BY <1>1, <2>1, <2>2 DEF PipeInv
<1>6. TreeInv
  <2>1. \A m : m \notin Range(groupBox)
    BY <1>1, <1>2
  <2>2. QED
    BY <1>1, <2>1 DEF TreeInv
<1>7. BoxInv
  <2>1. \A d \in Devices : Sorted(deviceBox[d], DeviceOrder) /\ \A m : m \notin Range(deviceBox[d])
    BY <1>1, <1>2
  <2>2. QED
    BY <1>1, <2>1 DEF BoxInv
<1>8. ToldInv /\ HeldInv
  BY <1>1 DEF ToldInv, HeldInv
<1>9. PassedInv
  <2>1. \A l, n : ~ IsRecordOf(l, n)
    BY <1>3, SMT DEF IsRecordOf
  <2>2. QED
    BY <2>1 DEF PassedInv
<1>10. QueryInv
  <2>1. \A k \in Position : Sorted(queryBox[k], QueryOrder) /\ \A m : m \notin Range(queryBox[k])
    BY <1>1, <1>2
  <2>2. \A d \in Devices : \A m : m \notin Range(deviceBox[d])
    BY <1>1, <1>2
  <2>3. QED
    BY <1>1, <2>1, <2>2 DEF QueryInv, Awaits
<1>11. CurrentInv
  <2>1. \A k \in Position : (\A m : m \notin Range(queryBox[k])) /\ \A m : m \notin Range(readings[k])
    BY <1>1, <1>2
  <2>2. QED
    BY <2>1 DEF CurrentInv
<1>12. QED
  BY <1>4, <1>5, <1>6, <1>7, <1>8, <1>9, <1>10, <1>11 DEF Inv

LEMMA NextInv ==
    ASSUME Inv, [Next]_vars
    PROVE  Inv'
<1>1. /\ TypeInv /\ PipeInv /\ TreeInv /\ BoxInv /\ ToldInv /\ PassedInv /\ HeldInv
      /\ QueryInv /\ CurrentInv
  BY DEF Inv
<1>2. TypeInv'
  BY <1>1, NextTypes
<1>3. PipeInv' /\ PassedInv' /\ TreeInv' /\ BoxInv' /\ ToldInv' /\ HeldInv'
  <2>1. CASE Client
    BY <1>1, <1>2, <2>1, ClientDevices
  <2>2. CASE Manager
    BY <1>1, <2>2, ManagerDevices
  <2>3. CASE Group
    BY <1>1, <2>3, GroupDevices
  <2>4. CASE \E k \in Position : Query(k)
    BY <1>1, <2>4, QueryDevices
  <2>5. CASE \E d \in Devices : Device(d)
    BY <1>1, <2>5, DeviceDevices
  <2>6. CASE UNCHANGED vars
    <3>1. PipeInv' /\ Quiet
      BY <1>1, <2>6, OtherFlow
    <3>2. Flow(0)
      BY <3>1, QuietFlow
    <3>3. PassedInv'
      BY <1>1, <3>2, Numbers, FlowPassed, SMT DEF Position
    <3>4. UNCHANGED <<log, groupBox, devices, device, deviceBox, last_reading, query>>
      BY <2>6 DEF vars, clientVars, deviceVars, queryVars
    <3>5. TreeInv' /\ BoxInv' /\ HeldInv'
      BY <1>1, <3>2, <3>4, DevicesAlone DEF Started
    <3>6. ToldInv'
      BY <1>1, <3>2, <3>4, ToldAlone
    <3>7. QED
      BY <3>1, <3>3, <3>5, <3>6
  <2>7. QED
    BY <2>1, <2>2, <2>3, <2>4, <2>5, <2>6, Numbers DEF Next
<1>4. QueryInv'
  BY <1>1, NextAwaits
<1>5. CurrentInv'
  BY <1>1, NextCurrent
<1>6. QED
  BY <1>2, <1>3, <1>4, <1>5 DEF Inv

(* Every mailbox of the tree of actors is in order, and what a device      *)
(* holds, is told and has told a query is as recent as that order allows.  *)
THEOREM DeviceManagerInvariant == Spec => []Inv
<1>1. Init => Inv
  BY InitInv
<1>2. Inv /\ [Next]_vars => Inv'
  BY NextInv
<1>3. QED
  BY <1>1, <1>2, PTL DEF Spec

(* Query::receive relies on the order of signals and messages when it      *)
(* drops a device that has terminated from pending: a reading that is      *)
(* queued is of a device that is awaited, and neither a reading nor the    *)
(* signal of the same device is in front of it.                            *)
THEOREM ReadingsAwaited == Spec => []ReadingsAreAwaited
<1>1. Inv => ReadingsAreAwaited
  <2> SUFFICES ASSUME Inv, NEW k \in Commands, NEW i \in DOMAIN queryBox[k], IsReading(queryBox[k][i])
               PROVE  /\ query[k] # "stopped" => queryBox[k][i].device_id \in pending[k]
                      /\ \A j \in 1 .. i - 1 :
                           /\ queryBox[k][j] # Terminated(queryBox[k][i].device_id)
                           /\ IsReading(queryBox[k][j]) =>
                                queryBox[k][j].device_id # queryBox[k][i].device_id
    BY DEF ReadingsAreAwaited
  <2>1. k \in Position /\ TypeInv /\ Awaits(k)
    BY Numbers DEF Inv, QueryInv
  <2>2. PICK s, x : s = queryBox[k] /\ x = s[i]
    OBVIOUS
  <2>3. /\ s \in Seq(ReadingItem \cup SignalItem) /\ Sorted(s, QueryOrder) /\ x \in Range(s)
        /\ \A m \in Range(s) : m \in ReadingItem \cup SignalItem
    BY <2>1, <2>2, LetterItems, RangeOf DEF Awaits
  <2>4. query[k] # "stopped" => x.device_id \in pending[k]
    BY <2>1, <2>2, <2>3 DEF Awaits
  <2>5. ASSUME NEW j \in 1 .. i - 1
        PROVE  s[j] # Terminated(x.device_id) /\ (IsReading(s[j]) => s[j].device_id # x.device_id)
    <3>1. j \in DOMAIN s /\ i \in DOMAIN s /\ j < i
      BY <2>2, <2>3, <2>5, SMT
    <3>2. PICK m : m = s[j] /\ m \in Range(s)
      BY <3>1, RangeOf
    <3>3. <<m, x>> \in QueryOrder
      BY <2>2, <2>3, <3>1, <3>2 DEF Sorted
    <3>4. /\ IsReading(m) => m.device_id # x.device_id
          /\ ~ IsReading(m) => m.terminated # x.device_id
      BY <2>2, <2>3, <3>2, <3>3, QueryOrders
    <3>5. m # Terminated(x.device_id)
      BY <3>4, QueryItems, SMT
    <3>6. QED
      BY <3>2, <3>4, <3>5
  <2>6. QED
    BY <2>2, <2>4, <2>5
<1>2. QED
  BY <1>1, DeviceManagerInvariant, PTL

(* Group::receive and Query::receive pass records and reads to the devices *)
(* on different paths, and a device that restarts loses its reading; yet   *)
(* no reading added up for an average is older than a record of the same   *)
(* name sent before the average was asked for.                             *)
THEOREM OwnWritesRead == Spec => []ReadsOwnWrites
<1>1. Inv => ReadsOwnWrites
  <2>1. SUFFICES ASSUME Inv, NEW k \in 1 .. Len(log), NEW j \in Range(readings[k])
                 PROVE  \A l \in j + 1 .. k - 1 : log[l].op = "record" => log[l].name # log[j].name
    BY DEF ReadsOwnWrites
  <2>2. k \in Position
    BY <2>1, SentLength, SMT DEF Inv, Position
  <2>3. Current(k, j)
    BY <2>1, <2>2 DEF Inv, CurrentInv
  <2>4. QED
    BY <2>3 DEF Current
<1>2. QED
  BY <1>1, DeviceManagerInvariant, PTL

=============================================================================
