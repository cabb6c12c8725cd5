------------------------------ MODULE ShopFloor ------------------------------
(***************************************************************************)
(* The shop-floor page's telemetry: it signs a URL, connects to the MQTT   *)
(* broker, subscribes, and folds the messages into the machines' states    *)
(* and the newest readings.  The page may be left at any moment, and comes *)
(* up again with a connection of its own.  A client that connects after    *)
(* its page was left is not ended by anyone.                               *)
(***************************************************************************)
EXTENDS Naturals, FiniteSets, Sequences, SequencesExt

CONSTANTS
    Machines,
    MaxReadings,    \* 100
    MaxMessages, MaxMounts, MaxDrops    \* bounds: messages, mounts, disconnections

ASSUME ShopFloorAssumption ==
    /\ MaxReadings \in Nat \ {0} /\ {MaxMessages, MaxMounts, MaxDrops} \subseteq Nat

VARIABLES
    mounted,        \* the number of the mount that is shown, 0 when none is
    mounts,
    clients,        \* mount -> "signing", "connecting", "subscribed", "dropped", "ended"
    published,      \* messages so far
    arriving,       \* messages on their way to a client: [mount, message]
    machines,       \* machine -> [oee_percent, status, spindle_vibration_mm_s, lastUpdate]
    readings,       \* the newest first
    connected,
    drops

shopVars == <<mounted, mounts, clients, published, arriving, machines, readings, connected, drops>>
pageState == <<machines, readings, connected>>

\* What the simulators send; other metrics do not matter to a machine.
Metrics == {"oee_percent", "status", "spindle_vibration_mm_s"}
NoMachine == [m \in Metrics \cup {"lastUpdate"} |-> 0]

NothingShown ==
    /\ machines' = [m \in Machines |-> NoMachine] /\ readings' = <<>> /\ connected' = FALSE

-----------------------------------------------------------------------------
(* The connection *)

Mount ==
    /\ mounted = 0 /\ mounts < MaxMounts
    /\ mounts' = mounts + 1 /\ mounted' = mounts'
    /\ clients' = Append(clients, "signing")
    /\ NothingShown
    /\ UNCHANGED <<published, arriving, drops>>

\* The cleanup ends the client when there is one.
Unmount ==
    /\ mounted # 0 /\ mounted' = 0
    /\ clients' = [clients EXCEPT ![mounted] = IF @ = "signing" THEN @ ELSE "ended"]
    /\ arriving' = IF clients[mounted] = "signing" THEN arriving
                   ELSE {a \in arriving : a.mount # mounted}
    /\ UNCHANGED <<mounts, published, pageState, drops>>

\* The session and the signature are there: the client is made, whether or
\* not the page is still.
Signed(c) ==
    /\ clients[c] = "signing" /\ clients' = [clients EXCEPT ![c] = "connecting"]
    /\ UNCHANGED <<mounted, mounts, published, arriving, pageState, drops>>
SigningFails(c) ==
    /\ clients[c] = "signing" /\ clients' = [clients EXCEPT ![c] = "ended"]
    /\ UNCHANGED <<mounted, mounts, published, arriving, pageState, drops>>

Live(c) == mounted = c

Connects(c) ==
    /\ clients[c] \in {"connecting", "dropped"}
    /\ clients' = [clients EXCEPT ![c] = "subscribed"]
    /\ connected' = IF Live(c) THEN TRUE ELSE connected
    /\ UNCHANGED <<mounted, mounts, published, arriving, machines, readings, drops>>
\* The connection breaks; the client tries again after five seconds.
Drops(c) ==
    /\ clients[c] = "subscribed" /\ drops < MaxDrops /\ drops' = drops + 1
    /\ clients' = [clients EXCEPT ![c] = "dropped"]
    /\ connected' = IF Live(c) THEN FALSE ELSE connected
    /\ arriving' = {a \in arriving : a.mount # c}
    /\ UNCHANGED <<mounted, mounts, published, machines, readings>>

-----------------------------------------------------------------------------
(* Messages *)

\* A machine reports: whoever is subscribed gets it, in no
\* promised order.
Publish ==
    /\ published < MaxMessages /\ published' = published + 1
    /\ \E m \in Machines, metric \in Metrics :
        arriving' = arriving \cup
            {[mount |-> c, machine |-> m, metric |-> metric, value |-> published']
                : c \in {d \in DOMAIN clients : clients[d] = "subscribed"}}
    /\ UNCHANGED <<mounted, mounts, clients, pageState, drops>>

\* (mutant) new readings go to the end.
WithReadingLast(reading) ==
    LET all == Append(readings, reading)
    IN  SubSeq(all, 1, IF Len(all) < MaxReadings THEN Len(all) ELSE MaxReadings)
WithReading(reading) ==
    LET all == <<reading>> \o readings
    IN  SubSeq(all, 1, IF Len(all) < MaxReadings THEN Len(all) ELSE MaxReadings)

\* (mutant) cancelled is not looked at.
IgnoredNever(a) == FALSE
Ignored(a) == ~Live(a.mount)

\* The message handler.
MessageArrives(a) ==
    /\ arriving' = arriving \ {a}
    /\ IF Ignored(a) THEN UNCHANGED <<machines, readings>>
       ELSE /\ readings' = WithReading([machine |-> a.machine, metric |-> a.metric, value |-> a.value])
            /\ machines' = [machines EXCEPT ![a.machine] =
                                [@ EXCEPT ![a.metric] = a.value, !.lastUpdate = a.value]]
    /\ UNCHANGED <<mounted, mounts, clients, published, connected, drops>>

ShopFloorInit ==
    /\ mounted = 1 /\ mounts = 1 /\ clients = <<"signing">> /\ published = 0 /\ arriving = {}
    /\ machines = [m \in Machines |-> NoMachine] /\ readings = <<>> /\ connected = FALSE
    /\ drops = 0

ShopFloorIdle ==
    /\ mounted = 0 /\ mounts = 0 /\ clients = <<>> /\ published = 0 /\ arriving = {}
    /\ machines = [m \in Machines |-> NoMachine] /\ readings = <<>> /\ connected = FALSE
    /\ drops = 0

ShopFloorStep ==
    \/ Mount \/ Unmount \/ Publish
    \/ \E c \in DOMAIN clients : Signed(c) \/ SigningFails(c) \/ Connects(c) \/ Drops(c)
    \/ \E a \in arriving : MessageArrives(a)

-----------------------------------------------------------------------------
(* Properties *)

\* The place of a machine's newest reading about something, in a set.
NewestReading(machine, about) ==
    LET of(r) == r.machine = machine /\ r.metric \in about
    IN  {i \in DOMAIN readings : of(readings[i]) /\ \A j \in 1..(i - 1) : ~of(readings[j])}

\* The cards and the list of readings agree: a machine's value is the one of
\* its newest reading of that kind, and its time that of its newest reading,
\* whatever clients older pages have left behind
\* (useShopFloorTelemetry 150-222).
CardsAgreeWithReadings ==
    mounted # 0 =>
    \A m \in Machines :
        /\ \A metric \in Metrics : \A i \in NewestReading(m, {metric}) :
            machines[m][metric] = readings[i].value
        /\ \A i \in NewestReading(m, Metrics) : machines[m].lastUpdate = readings[i].value

\* No message is shown twice although clients of left pages are still
\* subscribed to the same messages (useShopFloorTelemetry 187, 216-222).
NoReadingTwice ==
    \A i, j \in DOMAIN readings : readings[i].value = readings[j].value => i = j
=============================================================================
