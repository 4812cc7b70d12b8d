--------------------------- MODULE DeviceManager ---------------------------
(***************************************************************************)
(* The device_manager example: a tree of actors that spawn, watch, restart *)
(* and query each other, driven by a client that tells and asks.           *)
(*   src/tellus/examples/device_manager.rs                                 *)
(*                                                                         *)
(* Of one group and its devices; groups do not interact.  How actors are   *)
(* restarted, stopped and watched is in Lifecycle, here a callback and a   *)
(* termination are steps.  Nobody fails but devices.                       *)
(***************************************************************************)
EXTENDS Naturals, Sequences, Functions

CONSTANTS
    Names,          \* names of devices
    MaxCommands,    \* bound: commands of the client
    MAX_RESTARTS    \* of a device

ASSUME BoundAssumption == MaxCommands \in Nat /\ MAX_RESTARTS \in Nat

VARIABLES
    log,            \* the commands sent; one is known by its position
    outcome,        \* outcome[k]: what the ask of command k resolved to
    managerBox, groupBox, deviceBox, queryBox,  \* the mailboxes
    manager,        \* live, draining or stopped
    group,          \* none, live or stopped
    devices,        \* the group's map: the device of a name, if any
    device,         \* device[d]: free, live, stopping or stopped
    last_reading,   \* last_reading[d]: the command whose degrees it holds, 0 for None
    restarts,       \* restarts[d]: restarts of the streak
    watchers,       \* watchers[d]: the queries that watch d; the group always does
    query,          \* query[k]: none, starting, asking, running or stopped
    asked,          \* asked[k]: the device being asked, a set of at most one
    unasked,        \* unasked[k]: the devices still to be asked
    pending,        \* pending[k]: the devices whose reading is awaited
    readings        \* readings[k]: the readings added up

clientVars == <<log, outcome>>
deviceVars == <<device, last_reading, restarts>>
queryVars == <<query, asked, unasked, pending, readings>>
vars == <<clientVars, managerBox, groupBox, deviceBox, queryBox, manager, group, devices,
          deviceVars, watchers, queryVars>>

Commands == 1 .. MaxCommands
Devices == 1 .. MaxCommands     \* a device takes a command to be spawned

(* Of a Record only whether the degrees are a number matters.              *)
Record(n, nan) == [op |-> "record", name |-> n, nan |-> nan]
Average == [op |-> "average"]
Shutdown == [op |-> "shutdown"]

Init ==
    /\ log = <<>>
    /\ outcome = [k \in Commands |-> "none"]
    /\ managerBox = <<>>
    /\ groupBox = <<>>
    /\ deviceBox = [d \in Devices |-> <<>>]
    /\ queryBox = [k \in Commands |-> <<>>]
    /\ manager = "live"
    /\ group = "none"
    /\ devices = [n \in Names |-> {}]
    /\ device = [d \in Devices |-> "free"]
    /\ last_reading = [d \in Devices |-> 0]
    /\ restarts = [d \in Devices |-> 0]
    /\ watchers = [d \in Devices |-> {}]
    /\ query = [k \in Commands |-> "none"]
    /\ asked = [k \in Commands |-> {}]
    /\ unasked = [k \in Commands |-> {}]
    /\ pending = [k \in Commands |-> {}]
    /\ readings = [k \in Commands |-> <<>>]

----------------------------------------------------------------------------
(* The client: main sends records and awaits averages before it sends      *)
(* Shutdown; here it sends commands in any order and awaits none.          *)

Refusal(c) == IF c = Average THEN "ActorTerminated" ELSE "none"

Send(c) ==
    LET k == Len(log) + 1
    IN  /\ Len(log) < MaxCommands
        /\ log' = Append(log, c)
        /\ \/ manager # "stopped" /\ managerBox' = Append(managerBox, k) /\ UNCHANGED outcome
           \/ /\ manager = "stopped"
              /\ outcome' = [outcome EXCEPT ![k] = Refusal(c)]
              /\ UNCHANGED managerBox
        /\ UNCHANGED <<groupBox, deviceBox, queryBox, manager, group, devices, deviceVars,
                       watchers, queryVars>>

Client == Send(Average) \/ Send(Shutdown) \/ \E n \in Names, nan \in BOOLEAN : Send(Record(n, nan))

(* The ReplyTo of each of these asks is dropped.                           *)
NoReply(asks) == [k \in Commands |-> IF k \in asks THEN "NoReply" ELSE outcome[k]]
AsksIn(commands) == {k \in commands : log[k] = Average}

----------------------------------------------------------------------------
(* DeviceManager.                                                          *)

ManagerRecord ==
    /\ manager = "live" /\ managerBox # <<>>
    /\ log[Head(managerBox)].op = "record"
    /\ managerBox' = Tail(managerBox)
    /\ group' = "live"
    /\ groupBox' = Append(groupBox, [command |-> Head(managerBox)])
    /\ UNCHANGED <<clientVars, deviceBox, queryBox, manager, devices, deviceVars, watchers,
                   queryVars>>

ManagerAverage ==
    /\ manager = "live" /\ managerBox # <<>>
    /\ log[Head(managerBox)] = Average
    /\ managerBox' = Tail(managerBox)
    /\ \/ /\ group = "live"
          /\ groupBox' = Append(groupBox, [command |-> Head(managerBox)])
          /\ UNCHANGED outcome
       \/ /\ group = "none"
          /\ outcome' = [outcome EXCEPT ![Head(managerBox)] = "None"]
          /\ UNCHANGED groupBox
    /\ UNCHANGED <<log, deviceBox, queryBox, manager, group, devices, deviceVars, watchers,
                   queryVars>>

(* The manager stops: what is queued is dropped ...                        *)
ManagerShutdown ==
    /\ manager = "live" /\ managerBox # <<>>
    /\ log[Head(managerBox)] = Shutdown
    /\ manager' = "draining"
    /\ outcome' = NoReply(AsksIn(Range(managerBox)))
    /\ managerBox' = <<>>
    /\ UNCHANGED <<log, groupBox, deviceBox, queryBox, group, devices, deviceVars, watchers,
                   queryVars>>

(* ... and then the receiver, but not what was sent in between; its        *)
(* children are stopped next.                                              *)
ManagerCloses ==
    /\ manager = "draining"
    /\ manager' = "stopped"
    /\ UNCHANGED <<clientVars, managerBox, groupBox, deviceBox, queryBox, group, devices,
                   deviceVars, watchers, queryVars>>

----------------------------------------------------------------------------
(* Group.  Its mailbox holds commands, and terminated signals.             *)

Terminated(d) == [terminated |-> d]
IsSignal(m) == "terminated" \in DOMAIN m

TellDevice(d, m) ==
    deviceBox' = IF device[d] = "live" THEN [deviceBox EXCEPT ![d] = Append(@, m)] ELSE deviceBox

IsNextFree(d) == device[d] = "free" /\ \A e \in 1 .. d - 1 : device[e] # "free"

GroupHandles == group = "live" /\ groupBox # <<>> /\ groupBox' = Tail(groupBox)

GroupRecord ==
    LET k == Head(groupBox).command
    IN  /\ GroupHandles /\ ~ IsSignal(Head(groupBox)) /\ log[k].op = "record"
        /\ \E d \in devices[log[k].name] : TellDevice(d, [record |-> k])
        /\ UNCHANGED <<clientVars, managerBox, queryBox, manager, group, devices, deviceVars,
                       watchers, queryVars>>

(* or_insert_with: the device is spawned and watched.                      *)
GroupSpawns ==
    LET k == Head(groupBox).command
    IN  /\ GroupHandles /\ ~ IsSignal(Head(groupBox)) /\ log[k].op = "record"
        /\ devices[log[k].name] = {}
        /\ \E d \in Devices :
             /\ IsNextFree(d)
             /\ devices' = [devices EXCEPT ![log[k].name] = {d}]
             /\ device' = [device EXCEPT ![d] = "live"]
             /\ deviceBox' = [deviceBox EXCEPT ![d] = <<[record |-> k]>>]
        /\ UNCHANGED <<clientVars, managerBox, queryBox, manager, group, last_reading, restarts,
                       watchers, queryVars>>

GroupAverage ==
    LET k == Head(groupBox).command
    IN  /\ GroupHandles /\ ~ IsSignal(Head(groupBox)) /\ log[k] = Average
        /\ query' = [query EXCEPT ![k] = "starting"]
        /\ unasked' = [unasked EXCEPT ![k] = UNION {devices[n] : n \in Names}]
        /\ UNCHANGED <<clientVars, managerBox, deviceBox, queryBox, manager, group, devices,
                       deviceVars, watchers, asked, pending, readings>>

GroupTerminated ==
    LET m == Head(groupBox)
    IN  /\ GroupHandles /\ IsSignal(m)
        /\ devices' = [n \in Names |-> devices[n] \ {m.terminated}]
        /\ UNCHANGED <<clientVars, managerBox, deviceBox, queryBox, manager, group, deviceVars,
                       watchers, queryVars>>

----------------------------------------------------------------------------
(* Query: the start message, which carries the devices, is unasked.        *)

(* reply_to.reply and Stop.                                                *)
Conclude(k, o) ==
    /\ outcome' = [outcome EXCEPT ![k] = o]
    /\ query' = [query EXCEPT ![k] = "stopped"]

QueryStart(k) ==
    /\ query[k] = "starting"
    /\ \/ unasked[k] = {} /\ Conclude(k, "None")
       \/ unasked[k] # {} /\ query' = [query EXCEPT ![k] = "asking"] /\ UNCHANGED outcome
    /\ UNCHANGED <<log, managerBox, groupBox, deviceBox, queryBox, manager, group, devices,
                   deviceVars, watchers, asked, unasked, pending, readings>>

(* A faulty variant of Watch: the registry of a stopped device is silent.  *)
WatchSilently(k, d) ==
    /\ watchers' = [watchers EXCEPT ![d] = @ \cup {k}]
    /\ UNCHANGED queryBox

(* Watching a stopped device is answered with the signal.                  *)
Watch(k, d) ==
    \/ /\ device[d] # "stopped"
       /\ watchers' = [watchers EXCEPT ![d] = @ \cup {k}]
       /\ UNCHANGED queryBox
    \/ /\ device[d] = "stopped"
       /\ queryBox' = [queryBox EXCEPT ![k] = Append(@, Terminated(d))]
       /\ UNCHANGED watchers

QueryWatch(k) ==
    /\ query[k] = "asking" /\ asked[k] = {}
    /\ \E d \in unasked[k] :
         /\ Watch(k, d)
         /\ asked' = [asked EXCEPT ![k] = {d}]
         /\ unasked' = [unasked EXCEPT ![k] = @ \ {d}]
    /\ UNCHANGED <<clientVars, managerBox, groupBox, deviceBox, manager, group, devices,
                   deviceVars, query, pending, readings>>

QueryRead(k) ==
    /\ query[k] = "asking"
    /\ \E d \in asked[k] : TellDevice(d, [read |-> k])
    /\ pending' = [pending EXCEPT ![k] = @ \cup asked[k]]
    /\ asked' = [asked EXCEPT ![k] = {}]
    /\ query' = [query EXCEPT ![k] = IF unasked[k] = {} THEN "running" ELSE @]
    /\ UNCHANGED <<clientVars, managerBox, groupBox, queryBox, manager, group, devices,
                   deviceVars, watchers, unasked, readings>>

(* conclude: None without a reading.                                       *)
ConcludeOrContinue(k) ==
    \/ pending'[k] = {} /\ Conclude(k, IF readings'[k] = <<>> THEN "None" ELSE "average")
    \/ pending'[k] # {} /\ UNCHANGED <<outcome, query>>

IsReading(m) == "reading" \in DOMAIN m

QueryReading(k) ==
    LET m == Head(queryBox[k])
        removed == pending[k] \cap {m.device_id}
    IN  /\ query[k] = "running" /\ queryBox[k] # <<>> /\ IsReading(m)
        /\ pending' = [pending EXCEPT ![k] = @ \ {m.device_id}]
        /\ watchers' = [d \in Devices |-> IF d \in removed THEN watchers[d] \ {k} ELSE watchers[d]]
        /\ queryBox' = [queryBox EXCEPT ![k] = Tail(@)]
        /\ readings' = [readings EXCEPT ![k] = IF m.reading = 0 THEN @ ELSE Append(@, m.reading)]
        /\ ConcludeOrContinue(k)
        /\ UNCHANGED <<log, managerBox, groupBox, deviceBox, manager, group, devices, deviceVars,
                       asked, unasked>>

(* What a query watches is what it awaits.                                 *)
QueryTerminated(k) ==
    LET m == Head(queryBox[k])
    IN  /\ query[k] = "running" /\ queryBox[k] # <<>> /\ ~ IsReading(m)
        /\ m.terminated \in pending[k]
        /\ pending' = [pending EXCEPT ![k] = @ \ {m.terminated}]
        /\ queryBox' = [queryBox EXCEPT ![k] = Tail(@)]
        /\ UNCHANGED readings
        /\ ConcludeOrContinue(k)
        /\ UNCHANGED <<log, managerBox, groupBox, deviceBox, manager, group, devices, deviceVars,
                       watchers, asked, unasked>>

(* unwatch: a signal that is already queued is not delivered anymore.      *)
QuerySkips(k) ==
    LET m == Head(queryBox[k])
    IN  /\ query[k] = "running" /\ queryBox[k] # <<>> /\ ~ IsReading(m)
        /\ m.terminated \notin pending[k]
        /\ queryBox' = [queryBox EXCEPT ![k] = Tail(@)]
        /\ UNCHANGED <<clientVars, managerBox, groupBox, deviceBox, manager, group, devices,
                       deviceVars, watchers, queryVars>>

----------------------------------------------------------------------------
(* Device.  A live device handles the head of its mailbox.                 *)

Handles(d, field) ==
    /\ device[d] = "live" /\ deviceBox[d] # <<>>
    /\ field \in DOMAIN Head(deviceBox[d])

DeviceRecord(d) ==
    LET k == Head(deviceBox[d]).record
    IN  /\ Handles(d, "record") /\ ~ log[k].nan
        /\ last_reading' = [last_reading EXCEPT ![d] = k]
        /\ deviceBox' = [deviceBox EXCEPT ![d] = Tail(@)]
        /\ UNCHANGED <<clientVars, managerBox, groupBox, queryBox, manager, group, devices, device,
                       restarts, watchers, queryVars>>

(* reply_to of a query is a message to it, which is dead if it has stopped *)
DeviceRead(d) ==
    LET k == Head(deviceBox[d]).read
    IN  /\ Handles(d, "read")
        /\ deviceBox' = [deviceBox EXCEPT ![d] = Tail(@)]
        /\ queryBox' = IF query[k] = "stopped" THEN queryBox
                       ELSE [queryBox EXCEPT ![k] =
                               Append(@, [reading |-> last_reading[d], device_id |-> d])]
        /\ UNCHANGED <<clientVars, managerBox, groupBox, manager, group, devices, deviceVars,
                       watchers, queryVars>>

(* A faulty variant of Restarted: the state survives.                      *)
RestartedWithState(d) == last_reading[d]

(* init of a restarted device.                                             *)
Restarted(d) == 0

(* InvalidReading, with a streak of n restarts: a restart keeps the        *)
(* mailbox and not the state.                                              *)
DeviceRestarts(d) ==
    /\ Handles(d, "record") /\ log[Head(deviceBox[d]).record].nan
    /\ \E n \in {0, restarts[d]} :
         /\ n < MAX_RESTARTS
         /\ restarts' = [restarts EXCEPT ![d] = n + 1]
    /\ last_reading' = [last_reading EXCEPT ![d] = Restarted(d)]
    /\ deviceBox' = [deviceBox EXCEPT ![d] = Tail(@)]
    /\ UNCHANGED <<clientVars, managerBox, groupBox, queryBox, manager, group, devices, device,
                   watchers, queryVars>>

(* A faulty variant of Signalled: signals overtake messages.               *)
SignalledFirst(d, box) == <<Terminated(d)>> \o box

Signalled(d, box) == Append(box, Terminated(d))

(* terminate: what is queued is dropped ...                                *)
DeviceDrops(d) ==
    /\ device' = [device EXCEPT ![d] = "stopping"]
    /\ deviceBox' = [deviceBox EXCEPT ![d] = <<>>]
    /\ UNCHANGED <<managerBox, groupBox, queryBox, manager, group, devices, last_reading, restarts,
                   watchers, queryVars>>

(* ... and then the watchers get the signal.                               *)
DeviceSignals(d) ==
    /\ device[d] = "stopping"
    /\ device' = [device EXCEPT ![d] = "stopped"]
    /\ queryBox' = [k \in Commands |->
                      IF k \in watchers[d] /\ query[k] # "stopped"
                      THEN Signalled(d, queryBox[k]) ELSE queryBox[k]]
    /\ watchers' = [watchers EXCEPT ![d] = {}]
    /\ groupBox' = IF group = "live" THEN Append(groupBox, Terminated(d)) ELSE groupBox
    /\ UNCHANGED <<clientVars, managerBox, deviceBox, manager, group, devices, last_reading,
                   restarts, queryVars>>

DeviceGivesUp(d) ==
    /\ Handles(d, "record") /\ log[Head(deviceBox[d]).record].nan
    /\ restarts[d] >= MAX_RESTARTS
    /\ DeviceDrops(d)
    /\ UNCHANGED clientVars

----------------------------------------------------------------------------
(* The children of a stopped manager are stopped, and drop the ReplyTos    *)
(* they hold.                                                              *)

GroupStopped ==
    /\ manager = "stopped" /\ group = "live"
    /\ group' = "stopped"
    /\ outcome' = NoReply(AsksIn({m.command : m \in {m \in Range(groupBox) : ~ IsSignal(m)}}))
    /\ groupBox' = <<>>
    /\ UNCHANGED <<log, managerBox, deviceBox, queryBox, manager, devices, deviceVars, watchers,
                   queryVars>>

QueryStopped(k) ==
    /\ group = "stopped" /\ query[k] \in {"starting", "running"}
    /\ query' = [query EXCEPT ![k] = "stopped"]
    /\ outcome' = NoReply({k})
    /\ UNCHANGED <<log, managerBox, groupBox, deviceBox, queryBox, manager, group, devices,
                   deviceVars, watchers, asked, unasked, pending, readings>>

DeviceStopped(d) ==
    /\ group = "stopped" /\ device[d] = "live"
    /\ DeviceDrops(d)
    /\ UNCHANGED clientVars

----------------------------------------------------------------------------
Manager == ManagerRecord \/ ManagerAverage \/ ManagerShutdown \/ ManagerCloses
Group == GroupRecord \/ GroupSpawns \/ GroupAverage \/ GroupTerminated \/ GroupStopped
Query(k) == QueryStart(k) \/ QueryWatch(k) \/ QueryRead(k) \/ QueryReading(k)
              \/ QueryTerminated(k) \/ QuerySkips(k) \/ QueryStopped(k)
Device(d) == DeviceRecord(d) \/ DeviceRead(d) \/ DeviceRestarts(d) \/ DeviceGivesUp(d)
               \/ DeviceStopped(d) \/ DeviceSignals(d)

Next ==
    \/ Client \/ Manager \/ Group
    \/ \E k \in Commands : Query(k)
    \/ \E d \in Devices : Device(d)

(* The runtime runs each actor that has something to do; the client sends  *)
(* when it likes.                                                          *)
Fairness ==
    /\ WF_vars(Manager) /\ WF_vars(Group)
    /\ \A k \in Commands : WF_vars(Query(k))
    /\ \A d \in Devices : WF_vars(Device(d))

Spec == Init /\ [][Next]_vars
FairSpec == Spec /\ Fairness

----------------------------------------------------------------------------
(* Query: "The ordering guarantee proves this device's reply can no longer *)
(* arrive": a query that is told of the termination of a device never      *)
(* finds a reading of it behind, so that each reading it adds up is of a   *)
(* device it awaits, and of no device two.                                 *)
ReadingsAreAwaited ==
    \A k \in Commands : \A i \in DOMAIN queryBox[k] :
      IsReading(queryBox[k][i]) =>
        /\ query[k] # "stopped" => queryBox[k][i].device_id \in pending[k]
        /\ \A j \in 1 .. i - 1 :
             /\ queryBox[k][j] # Terminated(queryBox[k][i].device_id)
             /\ IsReading(queryBox[k][j]) =>
                  queryBox[k][j].device_id # queryBox[k][i].device_id

(* An average is of readings no older than the ask: records and queries    *)
(* take different paths to a device, through a restart that loses its      *)
(* reading too, and yet a record sent before the ask is never missed in    *)
(* favour of an earlier one.                                               *)
ReadsOwnWrites ==
    \A k \in 1 .. Len(log) : \A j \in Range(readings[k]) :
      \A l \in j + 1 .. k - 1 : log[l].op = "record" => log[l].name # log[j].name

(* Every average asked for is answered, or is known to be unanswered:      *)
(* whatever device fails, restarts or stops for good, no query waits for   *)
(* it forever, and Shutdown leaves no ask behind but those that slipped in *)
(* behind the drain of the manager, for which ask has its timeout.         *)
LeftBehind(k) == manager = "stopped" /\ k \in Range(managerBox)
AverageResolves ==
    \A k \in Commands :
      (Len(log) >= k /\ log[k] = Average) ~> outcome[k] # "none" \/ LeftBehind(k)
=============================================================================
