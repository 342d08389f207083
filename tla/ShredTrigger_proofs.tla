------------------------- MODULE ShredTrigger_proofs -------------------------
(***************************************************************************)
(* The launch is fired once, for the first slot of the focus country that  *)
(* shows fire_at data shreds in a row, and never under a leader of another *)
(* country: for every threshold, epoch length, schedule and sequence of    *)
(* packets.  The last part is about the other reader of the leader file,   *)
(* the window of FraWindow: it answers soundly for every file, set of      *)
(* regions and sequence of slides, and exactly unless it strayed.          *)
(***************************************************************************)
EXTENDS ShredTrigger, FraWindow, SequenceTheorems, TLAPS

(* The counter is the length of the longest run that ends with the last    *)
(* data shred.                                                             *)
Counts ==
    IF data = <<>>
    THEN shreds_in_slot = 0
    ELSE /\ current_slot = data[Len(data)]
         /\ shreds_in_slot \in 1 .. Len(data) /\ Run(Len(data), shreds_in_slot)
         /\ \/ shreds_in_slot = Len(data)
            \/ data[Len(data) - shreds_in_slot] # data[Len(data)]

First(i) == Completes(i) /\ \A j \in 1 .. i - 1 : ~Completes(j)

(* The latch tells whether a run has been completed. *)
Latch ==
    pc = "live" =>
        \/ ~fired /\ launched = <<>> /\ \A i \in DOMAIN data : ~Completes(i)
        \/ fired /\ \E i \in DOMAIN data : First(i) /\ launched = <<data[i]>>

IInv == TypeOK /\ Counts /\ Latch

(* What stays put in the middle of a run of the program. *)
Settled == UNCHANGED <<leaders, pc, map>>

-----------------------------------------------------------------------------
(* Slots and epochs. *)

LEMMA Constants ==
    /\ SlotsInEpoch \in Nat /\ SlotsInEpoch > 0 /\ MaxEpoch \in Nat /\ MaxRuns \in Nat
    /\ MaxFaults \in Nat /\ fire_at \in Nat /\ MaxShreds \in Nat
  BY EpochAssumption, TriggerAssumption

(* A slot within an epoch has that epoch as its quotient. *)
LEMMA EpochOf ==
    ASSUME NEW n \in Nat \ {0}, NEW e \in Nat, NEW s \in Nat, e * n <= s, s < e * n + n
    PROVE  s \div n = e /\ s % n = s - e * n
  <1> DEFINE d == s \div n
  <1>1. d \in Nat /\ d * n <= s /\ s < d * n + n /\ s % n = s - d * n
    BY SMT
  <1> HIDE DEF d
  <1>2. ASSUME d + 1 <= e PROVE FALSE
    <2>1. (d + 1) * n <= e * n /\ (d + 1) * n = d * n + n
      BY <1>1, <1>2
    <2> QED
      BY <1>1, <2>1
  <1>3. ASSUME e + 1 <= d PROVE FALSE
    <2>1. (e + 1) * n <= d * n /\ (e + 1) * n = e * n + n
      BY <1>1, <1>3
    <2> QED
      BY <1>1, <2>1
  <1>4. d = e
    BY <1>1, <1>2, <1>3
  <1> QED
    BY <1>1, <1>4 DEF d

(* What the loaded map calls a focus slot is one, when the map holds the   *)
(* schedule of its own epoch.                                              *)
LEMMA FocusIsTrue ==
    ASSUME Cache!TypeOK, map.schedule = map.epoch, NEW s \in Nat, Cache!is_focus(s)
    PROVE  Cache!TrulyFocus(s)
  <1>1. map.epoch \in Nat
    BY Constants DEF Cache!TypeOK, Cache!Maps, Cache!Epochs
  <1>2. /\ map.epoch * SlotsInEpoch <= s /\ s < map.epoch * SlotsInEpoch + SlotsInEpoch
        /\ s - map.epoch * SlotsInEpoch \in leaders[map.epoch]
    BY DEF Cache!is_focus, Cache!start
  <1>3. s \div SlotsInEpoch = map.epoch /\ s % SlotsInEpoch = s - map.epoch * SlotsInEpoch
    BY <1>1, <1>2, EpochOf, Constants
  <1> QED
    BY <1>2, <1>3 DEF Cache!TrulyFocus

-----------------------------------------------------------------------------
(* The leader cache keeps its types, whatever the trigger does. *)

LEMMA NothingYet ==
    /\ Cache!NoMap \in Cache!Maps /\ 0 \in Cache!Epochs
    /\ Cache!Absent \in Cache!File /\ Cache!Torn \in Cache!File /\ Cache!Epochs \subseteq Cache!File
  <1>1. 0 \in Cache!Epochs
    BY Constants DEF Cache!Epochs
  <1>2. Cache!NoMap \in Cache!Maps
    BY <1>1 DEF Cache!NoMap, Cache!Maps
  <1> QED
    BY <1>1, <1>2 DEF Cache!File

LEMMA CacheInit == Cache!Init => Cache!TypeOK
  <1> SUFFICES ASSUME Cache!Init PROVE Cache!TypeOK
    OBVIOUS
  <1>1. files \in [Cache!Epochs -> Cache!File]
    BY NothingYet DEF Cache!Init
  <1>2. runs \in 0 .. MaxRuns /\ faults \in 0 .. MaxFaults
    BY Constants DEF Cache!Init
  <1> QED
    BY <1>1, <1>2, NothingYet DEF Cache!Init, Cache!TypeOK

LEMMA CacheStep ==
    ASSUME Cache!TypeOK, Cache!Next \/ UNCHANGED leaderCache
    PROVE  Cache!TypeOK'
  <1> USE Constants, NothingYet DEF Cache!TypeOK, Cache!cluster, Cache!limits, Cache!boot
  <1>1. CASE Cache!Start
    BY <1>1 DEF Cache!Start, Cache!Epochs
  <1>2. CASE Cache!Crash
    <2>1. faults' \in 0 .. MaxFaults
      BY <1>2 DEF Cache!Crash
    <2> QED
      BY <1>2, <2>1 DEF Cache!Crash, Cache!Halt
  <1>3. CASE Cache!Stop
    BY <1>3 DEF Cache!Stop, Cache!Bail, Cache!Halt
  <1>4. CASE Cache!EpochTurns
    BY <1>4 DEF Cache!EpochTurns, Cache!Epochs
  <1>5. CASE Cache!Load
    BY <1>5 DEF Cache!Load, Cache!Maps
  <1>6. CASE Cache!GetEpochInfo
    BY <1>6 DEF Cache!GetEpochInfo
  <1>7. CASE Cache!FileMissing
    BY <1>7 DEF Cache!FileMissing
  <1>8. CASE Cache!NoToken \/ Cache!Unreadable
    BY <1>8 DEF Cache!NoToken, Cache!Unreadable, Cache!Bail, Cache!Halt
  <1>9. CASE Cache!FetchSchedule
    BY <1>9 DEF Cache!FetchSchedule
  <1>10. CASE Cache!OpenFile
    BY <1>10 DEF Cache!OpenFile
  <1>11. CASE Cache!WriteFile
    BY <1>11 DEF Cache!WriteFile
  <1>12. CASE UNCHANGED leaderCache
    BY <1>12 DEF leaderCache
  <1> QED
    BY <1>1, <1>2, <1>3, <1>4, <1>5, <1>6, <1>7, <1>8, <1>9, <1>10, <1>11, <1>12
       DEF Cache!Next, Cache!Bootstrap

(* Nothing but Load makes the program live, and while it is live the map   *)
(* and the schedules stay what they are.                                   *)
LEMMA LiveStep ==
    ASSUME Cache!Start \/ Cache!Crash \/ Cache!EpochTurns \/ Cache!Bootstrap, pc' = "live"
    PROVE  Settled
  BY DEF Settled, Cache!Start, Cache!Crash, Cache!EpochTurns, Cache!Bootstrap, Cache!Halt,
         Cache!Bail, Cache!cluster, Cache!limits, Cache!boot, Cache!GetEpochInfo,
         Cache!FileMissing, Cache!NoToken, Cache!FetchSchedule, Cache!OpenFile, Cache!WriteFile,
         Cache!Unreadable

-----------------------------------------------------------------------------
(* A data shred extends the run it belongs to, or starts one. *)
LEMMA ShredCounts ==
    ASSUME TypeOK, Counts, NEW p \in Packets, Counted(p)
    PROVE  /\ data' \in Seq(Cache!AllSlots) /\ Len(data') = Len(data) + 1
           /\ data'[Len(data) + 1] = p.slot
           /\ \A i \in DOMAIN data : data'[i] = data[i]
           /\ DOMAIN data = 1 .. Len(data) /\ DOMAIN data' = 1 .. Len(data) + 1
           /\ Len(data) \in Nat
           /\ Counts'
  <1> DEFINE n == Len(data)  s == p.slot
  <1>1. s \in Cache!AllSlots /\ data \in Seq(Cache!AllSlots) /\ data' = Append(data, s)
    BY DEF TypeOK, Packets, Counted
  <1>2. /\ n \in Nat /\ DOMAIN data = 1 .. n
        /\ data' \in Seq(Cache!AllSlots) /\ Len(data') = n + 1 /\ DOMAIN data' = 1 .. n + 1
        /\ data'[n + 1] = s /\ \A i \in 1 .. n : data'[i] = data[i]
        /\ data' # <<>>
    BY <1>1, AppendProperties, LenProperties, EmptySeq
  <1>3. current_slot' = s /\ shreds_in_slot' = count(s)
    BY DEF Counted
  <1>4. /\ shreds_in_slot' \in 1 .. n + 1
        /\ \A j \in n + 1 - shreds_in_slot' + 1 .. n + 1 : data'[j] = s
        /\ shreds_in_slot' = n + 1 \/ data'[n + 1 - shreds_in_slot'] # s
    <2> HIDE DEF n, s
    <2>1. CASE data = <<>>
      <3>1. n = 0 /\ shreds_in_slot' = 1
        BY <1>3, <2>1 DEF Counts, count, n
      <3> QED
        BY <1>2, <3>1
    <2>2. CASE data # <<>> /\ s = current_slot
      <3>1. /\ s = data[n] /\ shreds_in_slot \in 1 .. n /\ Run(n, shreds_in_slot)
            /\ shreds_in_slot = n \/ data[n - shreds_in_slot] # s
            /\ shreds_in_slot' = shreds_in_slot + 1
        BY <1>3, <2>2 DEF Counts, count, n
      <3>2. \A j \in n - shreds_in_slot + 1 .. n : data'[j] = s
        BY <1>2, <3>1 DEF Run
      <3> QED
        BY <1>2, <3>1, <3>2
    <2>3. CASE data # <<>> /\ s # current_slot
      <3>1. s # data[n] /\ n >= 1 /\ shreds_in_slot' = 1
        BY <1>2, <1>3, <2>3 DEF Counts, count, n
      <3> QED
        BY <1>2, <3>1
    <2> QED
      BY <2>1, <2>2, <2>3
  <1>5. Counts'
    BY <1>2, <1>3, <1>4 DEF Counts, Run
  <1> QED
    BY <1>2, <1>5

(* What is in data stays as it is, so a run that was completed still is,   *)
(* and one that was not is not.                                            *)
LEMMA OldRunsStay ==
    ASSUME DOMAIN data = 1 .. Len(data), Len(data) \in Nat, UNCHANGED <<leaders, map>>,
           \A i \in DOMAIN data : data'[i] = data[i],
           NEW i \in DOMAIN data
    PROVE  Completes(i)' <=> Completes(i)
  <1>1. fire_at > 0 => (Run(i, fire_at)' <=> Run(i, fire_at))
    BY Constants DEF Run
  <1>2. Cache!is_focus(data[i])' <=> Cache!is_focus(data[i])
    BY DEF Cache!is_focus
  <1> QED
    BY <1>1, <1>2 DEF Completes

(* While nothing has completed, the count reaches fire_at on a focus slot  *)
(* exactly when the new shred completes a run: a longer count would have   *)
(* passed fire_at before.                                                  *)
LEMMA FiresExactly ==
    ASSUME TypeOK, Counts, NEW p \in Packets, Counted(p), UNCHANGED <<leaders, map>>,
           \A i \in DOMAIN data : ~Completes(i),
           NEW n \in Nat, n = Len(data)
    PROVE  Completes(n + 1)' <=> shreds_in_slot' = fire_at /\ Cache!is_focus(p.slot)
  <1> DEFINE s == p.slot
  <1>1. /\ n \in Nat /\ DOMAIN data = 1 .. n /\ data'[n + 1] = s
        /\ \A i \in 1 .. n : data'[i] = data[i]
        /\ Len(data') = n + 1 /\ Counts'
        /\ data' \in Seq(Cache!AllSlots)
    BY ShredCounts
  <1>2. data' # <<>>
    BY <1>1, EmptySeq
  <1>3. /\ shreds_in_slot' \in 1 .. n + 1
        /\ \A j \in n + 1 - shreds_in_slot' + 1 .. n + 1 : data'[j] = s
        /\ shreds_in_slot' = n + 1 \/ data'[n + 1 - shreds_in_slot'] # s
    BY <1>1, <1>2 DEF Counts, Run
  <1>4. Completes(n + 1)' <=>
          /\ fire_at > 0 /\ fire_at <= n + 1
          /\ \A j \in n + 1 - fire_at + 1 .. n + 1 : data'[j] = s
          /\ Cache!is_focus(s)
    <2>1. Cache!is_focus(data[n + 1])' <=> Cache!is_focus(s)
      BY <1>1 DEF Cache!is_focus
    <2>2. Run(n + 1, fire_at)' <=>
            fire_at <= n + 1 /\ \A j \in n + 1 - fire_at + 1 .. n + 1 : data'[j] = s
      BY <1>1, Constants DEF Run
    <2> QED
      BY <2>1, <2>2 DEF Completes
  <1> HIDE DEF s
  <1>5. ASSUME shreds_in_slot' = fire_at, Cache!is_focus(s) PROVE Completes(n + 1)'
    <2>1. fire_at > 0 /\ fire_at <= n + 1
      BY <1>1, <1>3, <1>5
    <2>2. \A j \in n + 1 - fire_at + 1 .. n + 1 : data'[j] = s
      BY <1>3, <1>5
    <2> QED
      BY <1>4, <1>5, <2>1, <2>2
  <1>6. ASSUME Completes(n + 1)' PROVE shreds_in_slot' = fire_at
    <2>1. fire_at <= shreds_in_slot'
      <3>1. CASE shreds_in_slot' = n + 1
        BY <1>4, <1>6, <3>1
      <3>2. CASE data'[n + 1 - shreds_in_slot'] # s
        <4>1. n + 1 - shreds_in_slot' \notin n + 1 - fire_at + 1 .. n + 1
          BY <1>4, <1>6, <3>2
        <4> QED
          BY <1>1, <1>3, <4>1, Constants
      <3> QED
        BY <1>3, <3>1, <3>2
    <2>2. ASSUME fire_at < shreds_in_slot' PROVE FALSE
      <3>1. n >= 1 /\ fire_at <= n /\ fire_at > 0 /\ Cache!is_focus(s)
        BY <1>1, <1>3, <1>4, <1>6, <2>2, Constants
      <3>2. \A j \in n - fire_at + 1 .. n : data[j] = s
        <4> SUFFICES ASSUME NEW j \in n - fire_at + 1 .. n PROVE data[j] = s
          OBVIOUS
        <4>1. j \in 1 .. n /\ j \in n + 1 - shreds_in_slot' + 1 .. n + 1
          BY <1>1, <1>3, <2>2, <3>1, Constants
        <4> QED
          BY <1>1, <1>3, <4>1
      <3>3. n \in n - fire_at + 1 .. n
        BY <1>1, <3>1, Constants
      <3>4. Completes(n)
        BY <3>1, <3>2, <3>3 DEF Completes, Run
      <3> QED
        BY <1>1, <3>1, <3>4
    <2> QED
      BY <1>3, <2>1, <2>2, Constants
  <1> QED
    BY <1>4, <1>5, <1>6 DEF s

-----------------------------------------------------------------------------
(* The steps. *)

LEMMA NothingReceived ==
    /\ <<>> \in Seq(Cache!AllSlots) /\ Len(<<>>) = 0
    /\ NoSlot \in Cache!AllSlots \cup {NoSlot} /\ 0 \in 0 .. MaxShreds
  BY Constants, EmptySeq

LEMMA InitOK == Init => IInv
  <1> SUFFICES ASSUME Init PROVE IInv
    OBVIOUS
  <1>1. TypeOK
    <2>1. Cache!TypeOK
      BY CacheInit DEF Init
    <2>2. data = <<>> /\ launched = <<>> /\ received = 0 /\ shreds_in_slot = 0
      BY DEF Init
    <2>3. current_slot = NoSlot /\ fired = FALSE
      BY DEF Init
    <2>4. data \in Seq(Cache!AllSlots) /\ launched \in Seq(Cache!AllSlots)
      BY <2>2, NothingReceived
    <2>5. /\ received \in 0 .. MaxShreds /\ Len(data) <= received
          /\ shreds_in_slot \in 0 .. MaxShreds
      BY <2>2, NothingReceived
    <2>6. current_slot \in Cache!AllSlots \cup {NoSlot} /\ fired \in BOOLEAN
      BY <2>3
    <2> QED
      BY <2>1, <2>4, <2>5, <2>6 DEF TypeOK
  <1>2. Counts /\ Latch
    BY DEF Init, Counts, Latch, Cache!Init
  <1> QED
    BY <1>1, <1>2 DEF IInv

(* A new run of the program, or its end, starts the count anew. *)
LEMMA ThreadOK == ASSUME IInv, Thread PROVE IInv'
  <1>1. Cache!TypeOK'
    BY CacheStep DEF IInv, TypeOK, Thread, Cache!Next
  <1>2. TypeOK'
    <2>1. data' = <<>> /\ launched' = <<>> /\ received' = 0 /\ shreds_in_slot' = 0
      BY DEF Thread
    <2>2. current_slot' = NoSlot /\ fired' = FALSE
      BY DEF Thread
    <2>3. data' \in Seq(Cache!AllSlots) /\ launched' \in Seq(Cache!AllSlots)
      BY <2>1, NothingReceived
    <2>4. /\ received' \in 0 .. MaxShreds /\ Len(data') <= received'
          /\ shreds_in_slot' \in 0 .. MaxShreds
      BY <2>1, NothingReceived
    <2>5. current_slot' \in Cache!AllSlots \cup {NoSlot} /\ fired' \in BOOLEAN
      BY <2>2
    <2> QED
      BY <1>1, <2>3, <2>4, <2>5 DEF TypeOK
  <1>3. Counts' /\ Latch'
    BY DEF Thread, Counts, Latch
  <1> QED
    BY <1>2, <1>3 DEF IInv

(* The steps that leave trigger and history alone. *)
LEMMA BootstrapOK == ASSUME IInv, Bootstrap \/ UNCHANGED vars PROVE IInv'
  <1>1. UNCHANGED <<current_slot, shreds_in_slot, fired, received, data, launched>>
    BY DEF Bootstrap, vars, trigger, history
  <1>2. Cache!TypeOK'
    BY CacheStep DEF IInv, TypeOK, Bootstrap, vars, Cache!Next
  <1>3. TypeOK'
    BY <1>1, <1>2 DEF IInv, TypeOK
  <1>4. Counts'
    BY <1>1 DEF IInv, Counts, Run
  <1>5. ASSUME pc' = "live" PROVE Settled
    BY <1>5, LiveStep DEF Bootstrap, vars, leaderCache, Settled
  <1>6. Latch'
    BY <1>1, <1>5 DEF IInv, Latch, First, Completes, Run, Cache!is_focus, Settled
  <1> QED
    BY <1>3, <1>4, <1>6 DEF IInv

LEMMA IgnoredOK == ASSUME IInv, NEW p \in Packets, Ignored(p) PROVE IInv'
  <1>1. /\ UNCHANGED <<current_slot, shreds_in_slot, fired, data, launched, leaderCache>>
        /\ received' = received + 1 /\ received < MaxShreds
    BY DEF Ignored, Arrives, trigger
  <1>2. Cache!TypeOK'
    BY <1>1, CacheStep DEF IInv, TypeOK
  <1>3. data \in Seq(Cache!AllSlots) /\ Len(data) \in Nat
    BY LenProperties DEF IInv, TypeOK
  <1>4. TypeOK'
    BY <1>1, <1>2, <1>3, Constants DEF IInv, TypeOK
  <1>5. Counts'
    BY <1>1 DEF IInv, Counts, Run
  <1>6. Latch'
    BY <1>1 DEF IInv, Latch, First, Completes, Run, Cache!is_focus, leaderCache
  <1> QED
    BY <1>4, <1>5, <1>6 DEF IInv

LEMMA CountedOK == ASSUME IInv, NEW p \in Packets, Counted(p) PROVE IInv'
  <1> USE DEF IInv
  <1>n. Len(data) \in Nat
    BY LenProperties DEF TypeOK
  <1>0. PICK n \in Nat : n = Len(data)
    BY <1>n
  <1> DEFINE fires == ~fired /\ shreds_in_slot' = fire_at /\ Cache!is_focus(p.slot)
  <1>1. /\ n \in Nat /\ DOMAIN data = 1 .. n /\ data'[n + 1] = p.slot
        /\ \A i \in DOMAIN data : data'[i] = data[i]
        /\ Len(data') = n + 1 /\ DOMAIN data' = 1 .. n + 1 /\ data' \in Seq(Cache!AllSlots)
        /\ Counts'
    BY <1>0, ShredCounts
  <1>2. /\ UNCHANGED leaderCache /\ pc = "live" /\ received < MaxShreds
        /\ received' = received + 1
        /\ current_slot' = p.slot /\ p.slot \in Cache!AllSlots
        /\ fired' = (fired \/ fires)
        /\ launched' = IF fires THEN Append(launched, p.slot) ELSE launched
    BY DEF Counted, Arrives, Packets
  <1>3. UNCHANGED <<leaders, map, pc>>
    BY <1>2 DEF leaderCache
  <1>4. TypeOK'
    <2>1. Cache!TypeOK'
      BY <1>2, CacheStep DEF TypeOK
    <2>2. received' \in 0 .. MaxShreds /\ Len(data') <= received'
      BY <1>1, <1>2, Constants DEF TypeOK
    <2>3. data' # <<>>
      BY <1>1, EmptySeq
    <2>4. shreds_in_slot' \in 0 .. MaxShreds
      BY <1>1, <2>2, <2>3, Constants DEF Counts
    <2>5. launched' \in Seq(Cache!AllSlots) /\ fired' \in BOOLEAN
      BY <1>2, AppendProperties DEF TypeOK
    <2> QED
      BY <1>1, <1>2, <2>1, <2>2, <2>4, <2>5 DEF TypeOK
  <1>5. Latch'
    <2>1. \A i \in DOMAIN data : Completes(i)' <=> Completes(i)
      BY <1>1, <1>3, OldRunsStay, <1>0
    <2>2. CASE fired
      <3>1. PICK i \in DOMAIN data : First(i) /\ launched = <<data[i]>>
        BY <1>2, <2>2 DEF Latch
      <3>2. i \in DOMAIN data' /\ \A j \in 1 .. i - 1 : j \in DOMAIN data
        BY <1>1
      <3>3. First(i)' /\ launched' = <<data'[i]>>
        BY <1>1, <1>2, <2>1, <2>2, <3>1, <3>2 DEF First
      <3> QED
        BY <1>2, <2>2, <3>2, <3>3 DEF Latch
    <2>3. CASE ~fired
      <3>1. launched = <<>> /\ \A i \in DOMAIN data : ~Completes(i)
        BY <1>2, <2>3 DEF Latch
      <3>2. Completes(n + 1)' <=> fires
        BY <1>1, <1>3, <2>3, <3>1, FiresExactly, <1>0
      <3>3. \A i \in DOMAIN data' : i \in DOMAIN data \/ i = n + 1
        BY <1>1
      <3>4. CASE ~fires
        BY <1>2, <2>1, <2>3, <3>1, <3>2, <3>3, <3>4 DEF Latch
      <3>5. CASE fires
        <4>1. n + 1 \in DOMAIN data' /\ \A j \in 1 .. n + 1 - 1 : j \in DOMAIN data
          BY <1>1
        <4>2. First(n + 1)'
          BY <2>1, <3>1, <3>2, <3>5, <4>1 DEF First
        <4>3. launched' = <<data'[n + 1]>> /\ fired'
          <5>1. launched' = Append(<<>>, p.slot)
            BY <1>2, <3>1, <3>5
          <5>2. fired'
            BY <1>2, <3>5
          <5> QED
            BY <1>1, <5>1, <5>2
        <4> QED
          BY <4>1, <4>2, <4>3 DEF Latch
      <3> QED
        BY <3>4, <3>5
    <2> QED
      BY <2>2, <2>3
  <1> QED
    BY <1>1, <1>4, <1>5

-----------------------------------------------------------------------------
(* Every packet sequence, run of the program and turn of the epoch keeps   *)
(* the counter at the length of the current run and the latch at whether   *)
(* a run has been completed.                                               *)
THEOREM InvariantOK == Spec => []IInv
  <1>1. IInv /\ [Next]_vars => IInv'
    BY ThreadOK, BootstrapOK, IgnoredOK, CountedOK DEF Next, Receive
  <1> QED
    BY <1>1, InitOK, PTL DEF Spec

(* Types of the handler and of the leader cache it reads; the counter      *)
(* never exceeds the packets received.                                     *)
THEOREM TypeCorrect == Spec => []TypeOK
  <1>1. IInv => TypeOK
    BY DEF IInv
  <1> QED
    BY <1>1, InvariantOK, PTL

(* There is one first run, so the latch says which slot was fired for.     *)
LEMMA LatchFires == IInv => FiresOnFirstRun
  <1> SUFFICES ASSUME IInv, pc = "live"
               PROVE  launched = IF \E i \in DOMAIN data : Completes(i)
                                 THEN LET i == CHOOSE i \in DOMAIN data :
                                            Completes(i) /\ \A j \in 1 .. i - 1 : ~Completes(j)
                                      IN <<data[i]>>
                                 ELSE <<>>
    BY DEF FiresOnFirstRun
  <1>1. CASE \A i \in DOMAIN data : ~Completes(i)
    BY <1>1 DEF IInv, Latch, First
  <1>2. CASE \E i \in DOMAIN data : Completes(i)
    <2>1. PICK f \in DOMAIN data : First(f) /\ launched = <<data[f]>>
      BY <1>2 DEF IInv, Latch
    <2>2. DOMAIN data = 1 .. Len(data) /\ Len(data) \in Nat
      BY LenProperties DEF IInv, TypeOK
    <2>3. ASSUME NEW i \in DOMAIN data, First(i) PROVE i = f
      BY <2>1, <2>2, <2>3 DEF First
    <2>4. f = CHOOSE i \in DOMAIN data :
                Completes(i) /\ \A j \in 1 .. i - 1 : ~Completes(j)
      BY <2>1, <2>3 DEF First
    <2> QED
      BY <1>2, <2>1, <2>4
  <1> QED
    BY <1>1, <1>2

(* The launch is fired exactly once, for the first slot of the focus       *)
(* country that shows fire_at data shreds in a row (stream.rs:182-191).    *)
THEOREM FiredOnce == Spec => []FiresOnFirstRun
  BY InvariantOK, LatchFires, PTL

(* No launch goes out under a leader of another country, unless the epoch  *)
(* turned between the two requests that built the file (bootstrap.rs,      *)
(* fetch.rs).                                                              *)
THEOREM OnlyForFocus == Spec => []LaunchedForFocus
  <1>1. IInv => LaunchedForFocus
    <2> SUFFICES ASSUME IInv, pc = "live", map.schedule = map.epoch,
                        NEW i \in DOMAIN launched
                 PROVE  Cache!TrulyFocus(launched[i])
      BY DEF LaunchedForFocus
    <2>1. PICK f \in DOMAIN data : First(f) /\ launched = <<data[f]>>
      BY DEF IInv, Latch
    <2>2. launched[i] = data[f]
      BY <2>1
    <2>3. data[f] \in Nat
      <3>1. data \in Seq(Cache!AllSlots)
        BY DEF IInv, TypeOK
      <3>2. data[f] \in Cache!AllSlots
        BY <3>1, ElementOfSeq, LenProperties
      <3>3. \A m \in Int : 0 .. m \subseteq Nat
        OBVIOUS
      <3>4. Cache!start(MaxEpoch) + SlotsInEpoch - 1 \in Int
        BY Constants DEF Cache!start
      <3> QED
        BY <3>2, <3>3, <3>4 DEF Cache!AllSlots
    <2>4. Cache!is_focus(data[f])
      BY <2>1 DEF First, Completes
    <2> QED
      BY <2>2, <2>3, <2>4, FocusIsTrue DEF IInv, TypeOK
  <1> QED
    BY <1>1, InvariantOK, PTL

-----------------------------------------------------------------------------
(***************************************************************************)
(* The sliding window over a leader file.  It shares no variable with the  *)
(* handler above.                                                          *)
(***************************************************************************)
(* The region codes that are allowed. *)
Codes == allowed_mask(file, allowed)

\* Has the i-th slot of f, from 0 on, a code among codes?
Marked(f, codes, i) == i \in 0 .. Len(f.slots) - 1 /\ f.slots[i + 1] \in codes

\* The mask shows the bitmap from base on.
Shows ==
    /\ base >= file.epoch_start_slot
    /\ \A i \in Bits : i \in mask <=> Marked(file, Codes, base - file.epoch_start_slot + i)

\* A window that strayed may have been cleared; otherwise it shows the bitmap.
WindowHolds ==
    /\ WindowTypeOK
    /\ presence = build_presence_bitmap(file, Codes)
    /\ Shows \/ (strayed /\ mask = {})

\* What WindowAssumption says of one file that from_wire accepts.
LEMMA FileFacts ==
    ASSUME NEW f \in Files, from_wire(f)
    PROVE  /\ f.epoch_start_slot \in U64 /\ f.epoch_end_slot \in U64
           /\ Len(f.slots) \in Nat /\ f.epoch_start_slot + Len(f.slots) <= TwoTo64
           /\ DOMAIN f.slots = 1 .. Len(f.slots)
           /\ \A i \in DOMAIN f.slots : f.slots[i] \in 0 .. 255
           /\ Len(f.regions) \in 0 .. 64 /\ DOMAIN f.regions = 1 .. Len(f.regions)
           /\ \A i \in DOMAIN f.slots :
                f.slots[i] = UNKNOWN_REGION_CODE \/ f.slots[i] < Len(f.regions)
           /\ TwoTo64 \in Nat /\ TwoTo64 > 64
<1>1. /\ f.epoch_start_slot \in U64 /\ f.epoch_end_slot \in U64
      /\ f.slots \in Seq(0 .. 255) /\ f.regions \in Seq(Names)
      /\ f.epoch_start_slot + Len(f.slots) <= TwoTo64
      /\ TwoTo64 \in Nat /\ TwoTo64 > 64
  BY WindowAssumption
<1>2. /\ Len(f.slots) \in Nat /\ DOMAIN f.slots = 1 .. Len(f.slots)
      /\ \A i \in DOMAIN f.slots : f.slots[i] \in 0 .. 255
  <2> DEFINE slots == f.slots
  <2>1. slots \in Seq(0 .. 255)
    BY <1>1
  <2> HIDE DEF slots
  <2>2. Len(slots) \in Nat /\ DOMAIN slots = 1 .. Len(slots)
    BY <2>1
  <2>3. \A i \in DOMAIN slots : slots[i] \in 0 .. 255
    BY <2>1, <2>2, ElementOfSeq
  <2> QED BY <2>2, <2>3 DEF slots
<1>3. Len(f.regions) \in Nat /\ DOMAIN f.regions = 1 .. Len(f.regions)
  BY <1>1
<1>4. Len(f.regions) <= 64 /\ \A i \in DOMAIN f.slots :
        f.slots[i] = UNKNOWN_REGION_CODE \/ f.slots[i] < Len(f.regions)
  BY DEF from_wire, MAX_REGIONS
<1>5. Len(f.regions) \in 0 .. 64
  <2> DEFINE n == Len(f.regions)
  <2>1. n \in Nat /\ n <= 64
    BY <1>3, <1>4
  <2> HIDE DEF n
  <2>2. n \in 0 .. 64
    BY <2>1
  <2> QED BY <2>2 DEF n
<1> QED BY <1>1, <1>2, <1>3, <1>4, <1>5

\* A bit of a word is the mark of its slot; past the last word there are none.
LEMMA WordBits ==
    ASSUME NEW f \in Files, from_wire(f), NEW codes, NEW w \in Nat, NEW b \in Bits
    PROVE  b \in word(build_presence_bitmap(f, codes), w) <=> Marked(f, codes, 64 * w + b)
<1> DEFINE n == Len(f.slots)
           bits == build_presence_bitmap(f, codes)
<1>1. n \in Nat
  BY FileFacts
<1>2. b \in 0 .. 63 /\ w \in Nat
  BY DEF Bits
<1>3. w \in words(f) <=> w <= ((n + 63) \div 64) - 1
  <2>1. words(f) = 0 .. ((n + 63) \div 64) - 1
    BY DEF words
  <2> HIDE DEF n
  <2>2. ((n + 63) \div 64) - 1 \in Int
    BY <1>1
  <2> QED BY <1>2, <2>1, <2>2
<1>4. 64 * w + b < n => w <= ((n + 63) \div 64) - 1
  <2> HIDE DEF n
  <2> QED BY <1>1, <1>2
<1>5. DOMAIN bits = words(f)
  BY DEF build_presence_bitmap
<1>6. Marked(f, codes, 64 * w + b) <=> 64 * w + b < n /\ f.slots[64 * w + b + 1] \in codes
  BY <1>1, <1>2 DEF Marked
<1>7. CASE w \in words(f)
  <2>1. bits[w] = {c \in Bits : 64 * w + c < n /\ f.slots[64 * w + c + 1] \in codes}
    BY <1>7 DEF build_presence_bitmap
  <2> QED BY <1>5, <1>6, <1>7, <2>1 DEF word
<1>8. CASE w \notin words(f)
  BY <1>3, <1>4, <1>5, <1>6, <1>8 DEF word
<1> QED BY <1>7, <1>8

\* 64 bits read from an offset, aligned or not, are the marks of the 64 slots there.
LEMMA ReadBits ==
    ASSUME NEW f \in Files, from_wire(f), NEW codes, NEW off \in Nat, NEW i \in Bits
    PROVE  i \in read_u64_at_bit_offset(build_presence_bitmap(f, codes), off)
             <=> Marked(f, codes, off + i)
<1> DEFINE bits == build_presence_bitmap(f, codes)
           w == off \div 64
           shift == off % 64
<1>1. /\ i \in 0 .. 63 /\ w \in Nat /\ shift \in 0 .. 63 /\ off = 64 * w + shift
  BY DEF Bits
<1> HIDE DEF bits, w, shift
<1>2. CASE i + shift <= 63
  <2>1. i + shift \in Bits /\ i - (64 - shift) \notin Bits /\ 64 * w + (i + shift) = off + i
    BY <1>1, <1>2 DEF Bits
  <2>2. i + shift \in word(bits, w) <=> Marked(f, codes, off + i)
    BY WordBits, <1>1, <2>1 DEF bits
  <2>3. i - (64 - shift) \notin word(bits, w + 1)
    BY <2>1 DEF word, bits, build_presence_bitmap
  <2> QED BY <2>2, <2>3 DEF read_u64_at_bit_offset, bits, w, shift
<1>3. CASE i + shift > 63
  <2>1. /\ i - (64 - shift) \in Bits /\ i + shift \notin Bits /\ shift # 0 /\ w + 1 \in Nat
        /\ 64 * (w + 1) + (i - (64 - shift)) = off + i
    BY <1>1, <1>3 DEF Bits
  <2>2. i - (64 - shift) \in word(bits, w + 1) <=> Marked(f, codes, off + i)
    BY WordBits, <2>1 DEF bits
  <2>3. i + shift \notin word(bits, w)
    BY <2>1 DEF word, bits, build_presence_bitmap
  <2> QED BY <2>1, <2>2, <2>3 DEF read_u64_at_bit_offset, bits, w, shift
<1> QED BY <1>1, <1>2, <1>3

\* A slot is marked exactly if its leader's region is allowed; the converse
\* needs the region table to have each name once.
LEMMA MarkedIsInRegion ==
    ASSUME NEW slot \in Nat, file \in Files, from_wire(file), slot >= file.epoch_start_slot
    PROVE  /\ Marked(file, Codes, slot - file.epoch_start_slot) => InRegion(slot)
           /\ Interned => (InRegion(slot) => Marked(file, Codes, slot - file.epoch_start_slot))
<1> DEFINE i == slot - file.epoch_start_slot
           code == file.slots[i + 1]
<1>1. /\ file.epoch_start_slot \in Nat /\ Len(file.slots) \in Nat
      /\ DOMAIN file.slots = 1 .. Len(file.slots)
      /\ Len(file.regions) \in 0 .. 64 /\ DOMAIN file.regions = 1 .. Len(file.regions)
  <2>1. file.epoch_start_slot \in U64 /\ TwoTo64 \in Nat
    BY FileFacts
  <2>2. file.epoch_start_slot \in Nat
    BY <2>1 DEF U64
  <2> QED
    BY <2>2, FileFacts
<1>2. i + 1 \in DOMAIN file.slots <=> i \in 0 .. Len(file.slots) - 1
  BY <1>1
<1>3. i + 1 \in DOMAIN file.slots =>
        code \in 0 .. 255 /\ (code = UNKNOWN_REGION_CODE \/ code < Len(file.regions))
  BY FileFacts
<1>4. Codes = {c \in Bits : /\ c < Len(file.regions) /\ file.regions[c + 1] \in allowed
                            /\ \A d \in 1 .. c : file.regions[d] # file.regions[c + 1]}
  BY DEF Codes, allowed_mask
<1> HIDE DEF i, code
<1>5. InRegion(slot) <=> /\ i + 1 \in DOMAIN file.slots /\ code # UNKNOWN_REGION_CODE
                         /\ file.regions[code + 1] \in allowed
  BY DEF InRegion, i, code
<1>6. Marked(file, Codes, i) <=> i \in 0 .. Len(file.slots) - 1 /\ code \in Codes
  BY DEF Marked, code
<1>7. ASSUME Marked(file, Codes, i) PROVE InRegion(slot)
  <2>1. code \in Codes /\ i + 1 \in DOMAIN file.slots
    BY <1>2, <1>6, <1>7
  <2>2. code \in Bits /\ file.regions[code + 1] \in allowed
    BY <1>4, <2>1
  <2>3. code # UNKNOWN_REGION_CODE
    BY <2>2 DEF Bits, UNKNOWN_REGION_CODE
  <2> QED BY <1>5, <2>1, <2>2, <2>3
<1>8. ASSUME Interned, InRegion(slot) PROVE Marked(file, Codes, i)
  <2>1. code \in Bits /\ code < Len(file.regions) /\ file.regions[code + 1] \in allowed
    <3>1. code \in 0 .. 255 /\ code < Len(file.regions) /\ file.regions[code + 1] \in allowed
      BY <1>3, <1>5, <1>8
    <3> DEFINE n == Len(file.regions)
    <3>2. n \in 0 .. 64 /\ code \in 0 .. 255 /\ code < n
      BY <1>1, <3>1
    <3> HIDE DEF n
    <3>3. code \in Bits
      BY <3>2 DEF Bits
    <3> QED BY <3>1, <3>3
  <2>2. ASSUME NEW d \in 1 .. code PROVE file.regions[d] # file.regions[code + 1]
    <3>1. d \in DOMAIN file.regions /\ code + 1 \in DOMAIN file.regions /\ d # code + 1
      BY <1>1, <2>1 DEF Bits
    <3> QED BY <1>8, <3>1 DEF Interned
  <2>3. code \in Codes
    BY <1>4, <2>1, <2>2
  <2> QED BY <1>2, <1>5, <1>6, <1>8, <2>3
<1> QED BY <1>7, <1>8 DEF i
-----------------------------------------------------------------------------
\* A new window shows the slots from the first of the epoch on.
LEMMA WindowStarts == WindowInit => WindowHolds
<1> SUFFICES ASSUME WindowInit PROVE WindowHolds
  OBVIOUS
<1>1. file \in Files /\ from_wire(file) /\ file.epoch_start_slot \in U64
  BY FileFacts DEF WindowInit
<1>2. presence = build_presence_bitmap(file, Codes)
  BY DEF WindowInit, Codes
<1>3. presence \in [words(file) -> SUBSET Bits] /\ mask \in SUBSET Bits
  BY <1>2 DEF WindowInit, build_presence_bitmap, read_u64_at_bit_offset
<1>4. \A i \in Bits : i \in mask <=> Marked(file, Codes, 0 + i)
  BY <1>1, <1>2, ReadBits DEF WindowInit
<1>5. base = file.epoch_start_slot /\ base >= base /\ base - file.epoch_start_slot = 0
  BY <1>1, WindowAssumption DEF WindowInit, U64
<1>6. Shows
  BY <1>4, <1>5 DEF Shows, U64
<1>7. WindowTypeOK
  BY <1>1, <1>3, <1>5 DEF WindowTypeOK, WindowInit
<1> QED BY <1>2, <1>6, <1>7 DEF WindowHolds

\* Whichever branch slide_to takes, it keeps the invariant.
LEMMA WindowSlides == WindowHolds /\ [WindowNext]_window => WindowHolds'
<1> SUFFICES ASSUME WindowHolds, [WindowNext]_window PROVE WindowHolds'
  OBVIOUS
<1> USE DEF WindowHolds
<1>1. /\ file \in Files /\ from_wire(file) /\ presence = build_presence_bitmap(file, Codes)
      /\ file.epoch_start_slot \in U64 /\ file.epoch_end_slot \in U64
      /\ TwoTo64 \in Nat /\ TwoTo64 > 64
  BY FileFacts DEF WindowTypeOK
<1>2. ASSUME UNCHANGED window PROVE WindowHolds'
  BY <1>2 DEF window, WindowTypeOK, Shows, Codes
<1>3. ASSUME NEW highest \in U64, Covered(highest) PROVE WindowHolds'
  BY <1>2, <1>3 DEF Covered
<1>4. ASSUME NEW highest \in U64, Stray(highest) PROVE WindowHolds'
  <2>1. base' \in U64
    BY <1>1, <1>4 DEF Stray, saturating_sub, HALF_WINDOW, U64
  <2>2. WindowTypeOK'
    BY <1>4, <2>1 DEF WindowTypeOK, Stray
  <2> QED BY <1>4, <2>2 DEF Stray, Codes
<1>5. ASSUME NEW highest \in U64, Slide(highest) PROVE WindowHolds'
  <2> DEFINE off == base' - file.epoch_start_slot
  <2>1. base' \in U64 /\ base' >= file.epoch_start_slot
    BY <1>1, <1>5 DEF Slide, outside, new_base, saturating_sub, HALF_WINDOW, U64
  <2>2. off \in Nat /\ wrapping_sub(base', file.epoch_start_slot) = off
    BY <1>1, <2>1 DEF wrapping_sub, U64
  <2>3. mask' = read_u64_at_bit_offset(presence, off)
    BY <1>5, <2>2 DEF Slide
  <2>4. \A i \in Bits : i \in mask' <=> Marked(file, Codes, off + i)
    BY <1>1, <2>2, <2>3, ReadBits
  <2>5. mask' \in SUBSET Bits
    BY <2>3 DEF read_u64_at_bit_offset
  <2>6. WindowTypeOK'
    BY <1>5, <2>1, <2>5 DEF WindowTypeOK, Slide
  <2>7. UNCHANGED <<file, allowed, presence>>
    BY <1>5 DEF Slide
  <2>8. Shows'
    BY <2>1, <2>4, <2>7 DEF Shows, Codes
  <2> QED BY <2>6, <2>7, <2>8 DEF Codes
<1> QED BY <1>2, <1>3, <1>4, <1>5 DEF WindowNext, slide_to

\* Whatever slots the window is slid to, it has its type and shows the bitmap, or
\* nothing once it strayed.
THEOREM WindowShows == WindowSpec => []WindowHolds
<1> QED BY WindowStarts, WindowSlides, PTL DEF WindowSpec
-----------------------------------------------------------------------------
\* What contains says of a slot is what the mask says of its offset.
LEMMA ContainsIsMarked ==
    ASSUME WindowHolds, NEW slot \in U64
    PROVE  /\ contains(slot) =>
                slot >= base /\ Shows /\ Marked(file, Codes, slot - file.epoch_start_slot)
           /\ Shows /\ slot - base \in Bits =>
                (Marked(file, Codes, slot - file.epoch_start_slot) => contains(slot))
<1>1. /\ base \in U64 /\ file.epoch_start_slot \in U64 /\ Len(file.slots) \in Nat
      /\ file.epoch_start_slot + Len(file.slots) <= TwoTo64
      /\ TwoTo64 \in Nat /\ TwoTo64 > 64 /\ mask \in SUBSET Bits
  BY FileFacts DEF WindowHolds, WindowTypeOK
<1> DEFINE off == wrapping_sub(slot, base)
<1>2. off \in Nat /\ (off < 64 => off % 64 = off /\ off \in Bits)
  BY <1>1 DEF wrapping_sub, U64, Bits
<1>3. contains(slot) <=> off \in mask /\ off < 64
  BY <1>2 DEF contains
<1>4. ASSUME contains(slot)
      PROVE  slot >= base /\ Shows /\ Marked(file, Codes, slot - file.epoch_start_slot)
  <2>1. Shows
    BY <1>3, <1>4 DEF WindowHolds
  <2>2. Marked(file, Codes, base - file.epoch_start_slot + off)
    BY <1>2, <1>3, <1>4, <2>1 DEF Shows
  <2>3. base - file.epoch_start_slot + off < Len(file.slots)
    BY <1>1, <2>2 DEF Marked
  <2>4. slot >= base
    BY <1>1, <2>3 DEF wrapping_sub, U64
  <2>5. base - file.epoch_start_slot + off = slot - file.epoch_start_slot
    BY <1>1, <2>4 DEF wrapping_sub, U64
  <2> QED BY <2>1, <2>2, <2>4, <2>5
<1>5. ASSUME Shows, slot - base \in Bits, Marked(file, Codes, slot - file.epoch_start_slot)
      PROVE  contains(slot)
  <2>1. off = slot - base /\ off < 64
    BY <1>1, <1>5 DEF wrapping_sub, U64, Bits
  <2>2. base - file.epoch_start_slot + off = slot - file.epoch_start_slot
    BY <1>1, <2>1 DEF U64
  <2> QED BY <1>2, <1>3, <1>5, <2>1, <2>2 DEF Shows
<1> QED BY <1>4, <1>5

\* A marked slot is in the epoch and in an allowed region.
LEMMA WindowIsSound == WindowHolds => Sound
<1> SUFFICES ASSUME WindowHolds, NEW slot \in U64, contains(slot) PROVE InRegion(slot)
  BY DEF Sound
<1>1. slot >= base /\ base >= file.epoch_start_slot
      /\ Marked(file, Codes, slot - file.epoch_start_slot)
  BY ContainsIsMarked DEF Shows
<1>2. file \in Files /\ from_wire(file) /\ file.epoch_start_slot \in U64 /\ base \in U64
  BY FileFacts DEF WindowHolds, WindowTypeOK
<1> QED BY <1>1, <1>2, MarkedIsInRegion, WindowAssumption DEF U64

\* A slot in an allowed region is marked, as long as the mask shows the bitmap.
LEMMA WindowIsExact == WindowHolds => Exact
<1> SUFFICES ASSUME WindowHolds, Interned, ~strayed, NEW slot \in U64, slot - base \in Bits
             PROVE  contains(slot) <=> InRegion(slot)
  BY DEF Exact
<1>1. Shows
  BY DEF WindowHolds
<1>2. file \in Files /\ from_wire(file) /\ file.epoch_start_slot \in U64 /\ base \in U64
  BY FileFacts DEF WindowHolds, WindowTypeOK
<1>3. slot \in Nat /\ slot >= file.epoch_start_slot
  <2>1. base >= file.epoch_start_slot
    BY <1>1 DEF Shows
  <2>2. slot \in Nat /\ base \in Nat /\ file.epoch_start_slot \in Nat /\ slot - base >= 0
    BY <1>2, WindowAssumption DEF U64, Bits
  <2> QED BY <2>1, <2>2
<1> QED BY <1>1, <1>2, <1>3, ContainsIsMarked, MarkedIsInRegion

\* Every state of the window has its type (WindowTypeOK): saturating and wrapping
\* arithmetic stays within u64.
THEOREM WindowTypes == WindowSpec => []WindowTypeOK
<1>1. WindowHolds => WindowTypeOK
  BY DEF WindowHolds
<1> QED BY <1>1, WindowShows, PTL

\* The window's contains lets no slot of another epoch or region through, whatever slots it
\* was slid to (Sound).
THEOREM NeverLetsThrough == WindowSpec => []Sound
<1> QED BY WindowIsSound, WindowShows, PTL

\* A window that never strayed misses no slot it covers (Exact).
THEOREM AnswersExactly == WindowSpec => []Exact
<1> QED BY WindowIsExact, WindowShows, PTL
=============================================================================
