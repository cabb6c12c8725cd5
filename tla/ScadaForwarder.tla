--------------------------- MODULE ScadaForwarder ---------------------------
(***************************************************************************)
(* Machine telemetry to anomaly events: IoT Core rules invoke the          *)
(* forwarder asynchronously with each reading that matches, one event per  *)
(* machine and event type is let through per cooldown by a conditional put *)
(* on the debounce table, and the event is sent to MSK.  An invocation     *)
(* that raises is retried by Lambda.                                       *)
(***************************************************************************)
EXTENDS Integers, Sequences, FiniteSets

CONSTANTS
    Readings,       \* telemetry that is published (gen_scada)
    WornMachine,    \* the machine whose vibration has a rule
    Cooldown, LambdaRetries,
    FailingCalls,   \* of "put", "send": the calls whose failures are explored
    MaxCalls, MaxTime, MaxFaults    \* bounds

ASSUME ScadaAssumption ==
    /\ Cooldown \in Nat \ {0} /\ LambdaRetries \in Nat
    /\ MaxCalls \in Nat /\ MaxTime \in Nat /\ MaxFaults \in Nat

NoEventType == "none"
Calls == 1..MaxCalls

\* The three rules' WHERE clauses.
Matches(r) ==
    \/ r.metric = "status" /\ r.status = "FAULT"
    \/ r.metric = "oee_percent" /\ r.value < 75
    \/ r.metric = "spindle_vibration" /\ r.machine = WornMachine /\ r.value > 18

\* Vibration is counted in tenths.
DeriveEventType(r) ==
    CASE r.metric = "status" \/ r.status = "FAULT" -> "MACHINE_FAULT"
      [] r.status = "RUNNING" /\ r.previous = "FAULT" /\ r.metric # "status" -> "MACHINE_RESTORED"
      [] r.metric = "oee_percent" /\ r.value < r.threshold -> "OEE_THRESHOLD_BREACHED"
      [] r.metric = "spindle_vibration" /\ r.value > r.threshold -> "PARAMETER_ANOMALY"
      [] OTHER -> NoEventType

KeyOf(r) == <<r.machine, DeriveEventType(r)>>
Keys == {KeyOf(r) : r \in Readings}
NoRow == -1
NoCall == <<>>

VARIABLES
    now,        \* seconds, in steps of a fraction of the cooldown
    row,        \* debounce table: lastPublished, or NoRow
    calls,      \* the forwarder's invocations, NoCall before they start
    topic,      \* aerospace.scada.events
    faults

vars == <<now, row, calls, topic, faults>>

Init ==
    /\ now = 0 /\ row = [k \in Keys |-> NoRow]
    /\ calls = [c \in Calls |-> NoCall] /\ topic = <<>> /\ faults = 0

Fault(call) == call \in FailingCalls /\ faults < MaxFaults /\ faults' = faults + 1
At(c, pc) == calls[c] # NoCall /\ calls[c].pc = pc
Row(c) == row[calls[c].key]

\* gen_scada publishes a reading and a rule passes it on.
Read ==
    \E c \in Calls, r \in Readings :
        /\ calls[c] = NoCall /\ (c > 1 => calls[c - 1] # NoCall)
        /\ Matches(r) /\ KeyOf(r)[2] # NoEventType
        /\ calls' = [calls EXCEPT ![c] =
                [key |-> KeyOf(r), pc |-> "check", at |-> now, tries |-> 0, granted |-> FALSE]]
        /\ UNCHANGED <<now, row, topic, faults>>

\* (mutant) the condition forgets the cooldown.
CanPutLater(k) == row[k] = NoRow \/ row[k] < now

\* The put's condition: no row, or one older than the cooldown.
CanPut(k) == row[k] = NoRow \/ row[k] < now - Cooldown

\* (mutant) a suppressed reading also refreshes the row.
RowWhenSuppressed(c) == [row EXCEPT ![calls[c].key] = now]
RowAfterRefusal(c) == row

Grant(c) ==
    /\ At(c, "check") /\ CanPut(calls[c].key)
    /\ row' = [row EXCEPT ![calls[c].key] = now]
    /\ calls' = [calls EXCEPT ![c].pc = "send", ![c].at = now, ![c].granted = TRUE]
    /\ UNCHANGED <<now, topic, faults>>

Suppress(c) ==
    /\ At(c, "check") /\ ~CanPut(calls[c].key)
    /\ row' = RowAfterRefusal(c)
    /\ calls' = [calls EXCEPT ![c].pc = "suppressed", ![c].at = now]
    /\ UNCHANGED <<now, topic, faults>>

\* The store cannot be reached, or its answer is lost: publish anyway.
FailOpen(c) ==
    /\ At(c, "check") /\ Fault("put")
    /\ row' \in {row} \cup
          (IF CanPut(calls[c].key) THEN {[row EXCEPT ![calls[c].key] = now]} ELSE {})
    /\ calls' = [calls EXCEPT ![c].pc = "send", ![c].at = now, ![c].granted = FALSE]
    /\ UNCHANGED <<now, topic>>

\* The put's answer is lost and the SDK repeats it: it finds its own row.
RefusedByOwnRow(c) ==
    /\ At(c, "check") /\ CanPut(calls[c].key) /\ Fault("put")
    /\ row' = [row EXCEPT ![calls[c].key] = now]
    /\ calls' = [calls EXCEPT ![c].pc = "suppressed", ![c].at = now]
    /\ UNCHANGED <<now, topic>>

Entry(c) == [key |-> calls[c].key, at |-> calls[c].at, granted |-> calls[c].granted]

Send(c) ==
    /\ At(c, "send")
    /\ topic' = Append(topic, Entry(c))
    /\ calls' = [calls EXCEPT ![c].pc = "sent"]
    /\ UNCHANGED <<now, row, faults>>

\* The send raises, whether or not the event arrived; Lambda retries the
\* invocation from its start.
SendFails(c) ==
    /\ At(c, "send") /\ Fault("send")
    /\ topic' \in {topic, Append(topic, Entry(c))}
    /\ calls' = [calls EXCEPT ![c].tries = @ + 1,
                    ![c].pc = IF calls[c].tries < LambdaRetries THEN "check" ELSE "failed"]
    /\ UNCHANGED <<now, row>>

\* The table's time to live removes a row some time after its cooldown.
RowExpires(k) ==
    /\ row[k] # NoRow /\ row[k] + Cooldown <= now
    /\ row' = [row EXCEPT ![k] = NoRow]
    /\ UNCHANGED <<now, calls, topic, faults>>

\* An invocation takes at most 30 seconds, far less than the cooldown: it is
\* between its check and its send for less than one unit of time.
Tick ==
    /\ now < MaxTime /\ ~\E c \in Calls : At(c, "send")
    /\ now' = now + 1
    /\ UNCHANGED <<row, calls, topic, faults>>

Next ==
    \/ Read \/ Tick
    \/ \E c \in Calls : Grant(c) \/ Suppress(c) \/ FailOpen(c) \/ RefusedByOwnRow(c)
                        \/ Send(c) \/ SendFails(c)
    \/ \E k \in Keys : RowExpires(k)

Spec == Init /\ [][Next]_vars

-----------------------------------------------------------------------------
\* Flood control: two events of one machine and type that the table let
\* through are at least a cooldown apart, however many readings arrive at
\* once and whatever fails.
AtMostOnePerWindow ==
    \A i, j \in DOMAIN topic :
        (i < j /\ topic[i].key = topic[j].key /\ topic[i].granted /\ topic[j].granted) =>
        topic[i].at + Cooldown <= topic[j].at \/ topic[j].at + Cooldown <= topic[i].at

\* A suppressed reading is covered: unless something failed, an event of its
\* machine and type was let through within the cooldown before it and has
\* been sent or is about to be.
SuppressedIsCovered ==
    faults = 0 => \A c \in Calls : At(c, "suppressed") =>
        \/ \E i \in DOMAIN topic : topic[i].key = calls[c].key
                /\ topic[i].at <= calls[c].at /\ calls[c].at <= topic[i].at + Cooldown
        \/ \E d \in Calls : At(d, "send") /\ calls[d].key = calls[c].key
                /\ calls[d].at <= calls[c].at /\ calls[c].at <= calls[d].at + Cooldown

\* What the demo's guide says: a sustained breach produces an agent reaction.
\* When every reading has been handled, a breach that was read twice has
\* reached the topic.
Handled == \A c \in Calls : calls[c] = NoCall \/ calls[c].pc \in {"sent", "suppressed", "failed"}
Sustained(k) == \E c, d \in Calls :
    c # d /\ calls[c] # NoCall /\ calls[d] # NoCall /\ calls[c].key = k /\ calls[d].key = k
SustainedBreachIsReported ==
    Handled => \A k \in Keys : Sustained(k) => \E i \in DOMAIN topic : topic[i].key = k
=============================================================================
