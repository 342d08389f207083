---------------------------- MODULE ShredTrigger ----------------------------
(***************************************************************************)
(* shreds::stream: the packet handler that counts the data shreds of the   *)
(* slot it is on and fires the launch when a slot of the focus country,    *)
(* as the leader cache has it, reaches fire_at_shred_count.  Packets come  *)
(* over UDP: of any slot that has begun, in any order, repeated or never.  *)
(***************************************************************************)
EXTENDS Integers, Sequences

CONSTANTS
    SlotsInEpoch, MaxEpoch, MaxRuns, MaxFaults,
    fire_at,      \* cfg.fire_at_shred_count
    MaxShreds     \* bound: packets a run receives

ASSUME EpochAssumption ==
    SlotsInEpoch \in Nat \ {0} /\ MaxEpoch \in Nat /\ MaxRuns \in Nat /\ MaxFaults \in Nat
ASSUME TriggerAssumption == fire_at \in Nat /\ MaxShreds \in Nat

VARIABLES
    epoch, leaders, files, pc, has_token, epoch_info, schedule, map, runs, faults,
    current_slot, shreds_in_slot, fired,
    received,     \* packets of this run
    data,         \* history: the slots of its data shreds, in order of arrival
    launched      \* history: slots the launch was fired for, in this run

Cache == INSTANCE LeaderCache

trigger == <<current_slot, shreds_in_slot, fired>>
history == <<received, data, launched>>
leaderCache == <<epoch, leaders, files, pc, has_token, epoch_info, schedule, map, runs, faults>>
vars == <<leaderCache, trigger, history>>

\* u64::MAX, the slot no shred is of.
NoSlot == Cache!start(MaxEpoch + 1)
Packets == [kind : {"data", "coding"}, slot : Cache!AllSlots]

Init ==
    /\ Cache!Init
    /\ current_slot = NoSlot /\ shreds_in_slot = 0 /\ fired = FALSE
    /\ received = 0 /\ data = <<>> /\ launched = <<>>

\* The map is loaded and the receiver thread starts; a stop ends it.
Thread ==
    /\ Cache!Load \/ Cache!Stop
    /\ current_slot' = NoSlot /\ shreds_in_slot' = 0 /\ fired' = FALSE
    /\ received' = 0 /\ data' = <<>> /\ launched' = <<>>

\* A slot's packets exist once its epoch has begun.
Arrives(p) ==
    /\ pc = "live" /\ received < MaxShreds
    /\ p.slot < Cache!start(epoch + 1)
    /\ received' = received + 1
    /\ UNCHANGED leaderCache

\* Coding shreds and packets the variant table does not know only bump a counter.
Ignored(p) ==
    /\ p.kind = "coding" /\ Arrives(p)
    /\ UNCHANGED <<trigger, data, launched>>

count(slot) == IF slot = current_slot THEN shreds_in_slot + 1 ELSE 1

\* Mutant: the counter survives a change of slot.
Counted_NoReset(p) ==
    /\ p.kind = "data" /\ Arrives(p)
    /\ data' = Append(data, p.slot)
    /\ current_slot' = p.slot
    /\ shreds_in_slot' = shreds_in_slot + 1
    /\ LET fires == ~fired /\ shreds_in_slot' = fire_at /\ Cache!is_focus(p.slot) IN
         /\ fired' = (fired \/ fires)
         /\ launched' = IF fires THEN Append(launched, p.slot) ELSE launched

\* Mutant: any count past the threshold fires, and the latch is not looked at.
Counted_NoLatch(p) ==
    /\ p.kind = "data" /\ Arrives(p)
    /\ data' = Append(data, p.slot)
    /\ current_slot' = p.slot
    /\ shreds_in_slot' = count(p.slot)
    /\ LET fires == shreds_in_slot' >= fire_at /\ Cache!is_focus(p.slot) IN
         /\ fired' = (fired \/ fires)
         /\ launched' = IF fires THEN Append(launched, p.slot) ELSE launched

\* A data shred: count it, and fire on the very shred that completes the count.
Counted(p) ==
    /\ p.kind = "data" /\ Arrives(p)
    /\ data' = Append(data, p.slot)
    /\ current_slot' = p.slot
    /\ shreds_in_slot' = count(p.slot)
    /\ LET fires == ~fired /\ shreds_in_slot' = fire_at /\ Cache!is_focus(p.slot) IN
         /\ fired' = (fired \/ fires)
         /\ launched' = IF fires THEN Append(launched, p.slot) ELSE launched

Receive == \E p \in Packets : Ignored(p) \/ Counted(p)

Bootstrap ==
    /\ Cache!Start \/ Cache!Crash \/ Cache!EpochTurns \/ Cache!Bootstrap
    /\ UNCHANGED <<trigger, history>>

Next == Bootstrap \/ Thread \/ Receive

Spec == Init /\ [][Next]_vars
-----------------------------------------------------------------------------
TypeOK ==
    /\ Cache!TypeOK
    /\ current_slot \in Cache!AllSlots \cup {NoSlot} /\ shreds_in_slot \in 0 .. MaxShreds
    /\ fired \in BOOLEAN
    /\ received \in 0 .. MaxShreds /\ Len(data) <= received
    /\ data \in Seq(Cache!AllSlots) /\ launched \in Seq(Cache!AllSlots)

\* Do the n shreds up to the i-th all come from its slot?
Run(i, n) == n <= i /\ \A j \in i - n + 1 .. i : data[j] = data[i]

Completes(i) == fire_at > 0 /\ Run(i, fire_at) /\ Cache!is_focus(data[i])

\* The launch is fired exactly once, and for exactly the first slot of the focus
\* country that shows fire_at data shreds in a row, whatever coding shreds, other
\* slots and duplicates come in between (stream.rs:182-191).
FiresOnFirstRun ==
    pc = "live" =>
        launched = IF \E i \in DOMAIN data : Completes(i)
                   THEN LET i == CHOOSE i \in DOMAIN data :
                                   Completes(i) /\ \A j \in 1 .. i - 1 : ~Completes(j)
                        IN <<data[i]>>
                   ELSE <<>>

\* The launch never goes out under a leader of another country, also when the epoch
\* turns while the program is live, unless the cluster's epoch turned between the
\* two requests that built this epoch's file.
LaunchedForFocus ==
    pc = "live" /\ map.schedule = map.epoch =>
        \A i \in DOMAIN launched : Cache!TrulyFocus(launched[i])
=============================================================================
