----------------------------- MODULE LeaderCache -----------------------------
(***************************************************************************)
(* leaders::bootstrap and leaders::fetch: which slots of an epoch are led  *)
(* from the focus country.  One file per epoch, built from several RPC     *)
(* calls by the first run of that epoch and read by every later one.       *)
(*                                                                         *)
(* Of a schedule only the slots led from the focus country matter here.  A *)
(* table of slots is named by the epoch whose schedule it was built from.  *)
(***************************************************************************)
EXTENDS Integers

CONSTANTS
    SlotsInEpoch,
    MaxEpoch,     \* bound: epochs a behaviour spans
    MaxRuns,      \* bound: times the program is started
    MaxFaults     \* bound: crashes and failed requests

Epochs == 0 .. MaxEpoch
Offsets == 0 .. SlotsInEpoch - 1
start(e) == e * SlotsInEpoch
AllSlots == 0 .. start(MaxEpoch) + SlotsInEpoch - 1

VARIABLES
    epoch,        \* the cluster's epoch
    leaders,      \* the cluster's schedules: offsets led from the focus country
    files,        \* cache_dir/leaders-epoch-<e>.json: the schedule it was built from
    pc, has_token,
    epoch_info,   \* what getEpochInfo answered
    schedule,     \* the epoch of the schedule that getLeaderSchedule answered with
    map,          \* the loaded EpochLeaderMap
    runs, faults

cluster == <<epoch, leaders>>
limits == <<runs, faults>>
boot == <<pc, has_token, epoch_info, schedule, map>>
cacheVars == <<cluster, files, limits, boot>>

\* A file is missing, or cut short by a crash, or holds a schedule under its epoch.
Absent == -1
Torn == -2
File == Epochs \cup {Absent, Torn}
Maps == [epoch : Epochs, schedule : Epochs]
NoMap == [epoch |-> 0, schedule |-> 0]

Init ==
    /\ epoch = 0 /\ leaders \in [Epochs -> SUBSET Offsets]
    /\ files = [e \in Epochs |-> Absent]
    /\ pc = "down" /\ has_token = FALSE /\ epoch_info = 0 /\ schedule = 0 /\ map = NoMap
    /\ runs = 0 /\ faults = 0

Halt == pc' = "down" /\ has_token' = FALSE /\ epoch_info' = 0 /\ schedule' = 0 /\ map' = NoMap
Bail == Halt /\ UNCHANGED <<cluster, files, limits>>

Start ==
    /\ pc = "down" /\ runs < MaxRuns
    /\ runs' = runs + 1
    /\ has_token' \in BOOLEAN
    /\ pc' = "info"
    /\ UNCHANGED <<cluster, files, faults, epoch_info, schedule, map>>

\* A crash, or a request that fails; getLeaderSchedule may also answer null.
Crash ==
    /\ pc \notin {"down", "live"} /\ faults < MaxFaults
    /\ faults' = faults + 1
    /\ Halt
    /\ UNCHANGED <<cluster, files, runs>>

Stop == pc = "live" /\ Bail

EpochTurns ==
    /\ epoch < MaxEpoch /\ epoch' = epoch + 1
    /\ UNCHANGED <<leaders, files, limits, boot>>
-----------------------------------------------------------------------------
GetEpochInfo ==
    /\ pc = "info"
    /\ epoch_info' = epoch
    /\ pc' = "path"
    /\ UNCHANGED <<cluster, files, limits, has_token, schedule, map>>

FileMissing ==
    /\ pc = "path" /\ files[epoch_info] = Absent /\ has_token
    /\ pc' = "fetch"
    /\ UNCHANGED <<cluster, files, limits, has_token, epoch_info, schedule, map>>

NoToken == pc = "path" /\ files[epoch_info] = Absent /\ ~has_token /\ Bail

\* getLeaderSchedule is asked for no epoch in particular: the cluster's current one.
FetchSchedule ==
    /\ pc = "fetch"
    /\ schedule' = epoch
    /\ pc' = "open"
    /\ UNCHANGED <<cluster, files, limits, has_token, epoch_info, map>>

\* fs::write creates the file, then fills it.
OpenFile ==
    /\ pc = "open"
    /\ files' = [files EXCEPT ![epoch_info] = Torn]
    /\ pc' = "write"
    /\ UNCHANGED <<cluster, limits, has_token, epoch_info, schedule, map>>

WriteFile ==
    /\ pc = "write"
    /\ files' = [files EXCEPT ![epoch_info] = schedule]
    /\ pc' = "path"
    /\ UNCHANGED <<cluster, limits, has_token, epoch_info, schedule, map>>

\* Mutant: a file cut short is loaded as if it were whole.
Load_Torn ==
    /\ pc = "path" /\ files[epoch_info] # Absent
    /\ map' = [epoch |-> epoch_info, schedule |-> files[epoch_info]]
    /\ pc' = "live"
    /\ UNCHANGED <<cluster, files, limits, has_token, epoch_info, schedule>>

\* load_from_file: what serde reads and from_wire accepts.
Load ==
    /\ pc = "path" /\ files[epoch_info] \in Epochs
    /\ map' = [epoch |-> epoch_info, schedule |-> files[epoch_info]]
    /\ pc' = "live"
    /\ UNCHANGED <<cluster, files, limits, has_token, epoch_info, schedule>>

\* serde rejects what is cut short, and nothing removes the file.
Unreadable == pc = "path" /\ files[epoch_info] = Torn /\ Bail
-----------------------------------------------------------------------------
\* Mutant: the range test is inclusive one slot past the epoch's end.
is_focus_Inclusive(slot) ==
    /\ start(map.epoch) <= slot /\ slot <= start(map.epoch) + SlotsInEpoch
    /\ (slot - start(map.epoch)) % SlotsInEpoch \in leaders[map.schedule]

\* LeaderCache::is_focus.
is_focus(slot) ==
    /\ start(map.epoch) <= slot /\ slot < start(map.epoch) + SlotsInEpoch
    /\ slot - start(map.epoch) \in leaders[map.schedule]

\* Does the cluster have slot led from the focus country?
TrulyFocus(slot) == slot % SlotsInEpoch \in leaders[slot \div SlotsInEpoch]
-----------------------------------------------------------------------------
Bootstrap ==
    \/ GetEpochInfo \/ FileMissing \/ NoToken \/ FetchSchedule \/ OpenFile \/ WriteFile
    \/ Unreadable

Next == Start \/ Crash \/ Stop \/ EpochTurns \/ Bootstrap \/ Load

TypeOK ==
    /\ epoch \in Epochs /\ leaders \in [Epochs -> SUBSET Offsets]
    /\ files \in [Epochs -> File]
    /\ pc \in {"down", "info", "path", "fetch", "open", "write", "live"} /\ has_token \in BOOLEAN
    /\ epoch_info \in Epochs /\ schedule \in Epochs /\ map \in Maps
    /\ runs \in 0 .. MaxRuns /\ faults \in 0 .. MaxFaults
=============================================================================
