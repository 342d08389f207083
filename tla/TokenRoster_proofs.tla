-------------------------- MODULE TokenRoster_proofs --------------------------
(***************************************************************************)
(* Why no mint key is assigned or launched twice, for every set of keys,   *)
(* roster, and number of runs and faults.                                  *)
(***************************************************************************)
EXTENDS TokenRoster, SequenceTheorems, TLAPS

Running == pc \in {"upload", "claim", "live", "launched"}
Hydrated == pc = "pick" \/ Running

\* The roster in memory is the one on disk, or the one about to replace it.
MemoryOK ==
    /\ pc = "shrink" =>
         /\ Distinct(tokens) /\ remaining \subseteq pool
         /\ \A k \in KeysOf(tokens) : k \notin remaining
    /\ pc = "save" => Distinct(tokens) /\ \A k \in KeysOf(tokens) : k \notin pool
    /\ pc \in {"shrink", "save"} =>
         /\ DOMAIN tokens = DOMAIN roster
         /\ \A i \in DOMAIN roster :
              /\ tokens[i].is_used = roster[i].is_used
              /\ roster[i].privatekey # Empty => tokens[i] = roster[i]
    /\ pc \in {"shrink", "save"} \/ Hydrated =>
         \A i \in DOMAIN tokens : tokens[i].privatekey \in TokenKeys
    /\ Hydrated => tokens = roster

\* What a run has claimed is marked on disk; what it is about to claim is not.
ClaimOK ==
    /\ Running => idx \in DOMAIN tokens
    /\ Running /\ ~token_debug => idx < Len(tokens)
    /\ pc \in {"upload", "claim"} /\ ~token_debug => ~roster[idx].is_used
    /\ pc = "claim" => ~token_debug
    /\ pc = "live" /\ ~token_debug =>
         roster[idx].is_used /\ launches[roster[idx].privatekey] = 0

IInv == TypeOK /\ NeverAssignedTwice /\ LaunchedOnce /\ MemoryOK /\ ClaimOK
-----------------------------------------------------------------------------
USE DEF files, history, limits, process, vars

LEMMA Initially == Init => IInv
<1> SUFFICES ASSUME Init PROVE IInv
  OBVIOUS
<1> USE KeysAssumption, LimitsAssumption DEF Init
<1>1. PICK n \in 0 .. MaxTokens : roster = [i \in 1 .. n |-> Unkeyed]
  OBVIOUS
<1>2. Unkeyed \in TokenSpec /\ Unkeyed.privatekey = Empty
  BY DEF Unkeyed, TokenSpec
<1>3. n \in Nat /\ roster \in Seq(TokenSpec) /\ Len(roster) = n
  BY <1>1, <1>2
<1>4. TypeOK
  <2>1. <<>> \in Seq(TokenSpec) /\ Len(<<>>) = 0
    OBVIOUS
  <2>2. remaining \subseteq TokenKeys /\ minted \subseteq TokenKeys
    BY Zenon
  <2>3. tokens \in Seq(TokenSpec) /\ Len(tokens) <= MaxTokens
    BY <2>1
  <2>4. roster \in Seq(TokenSpec) /\ Len(roster) <= MaxTokens
    BY <1>3
  <2>5. /\ pool \subseteq TokenKeys /\ launches \in [TokenKeys -> Nat]
        /\ runs \in 0 .. MaxRuns /\ faults \in 0 .. MaxFaults /\ idx \in 0 .. MaxTokens
    OBVIOUS
  <2> QED
    BY <2>2, <2>3, <2>4, <2>5 DEF TypeOK
<1>5. NeverAssignedTwice /\ LaunchedOnce
  BY <1>1, <1>2 DEF NeverAssignedTwice, Distinct, KeysOf, LaunchedOnce
<1> QED
  BY <1>4, <1>5 DEF IInv, MemoryOK, ClaimOK, Running, Hydrated

\* The roster a run draws keys for keeps its length and its types.
LEMMA HydrateType ==
    ASSUME TypeOK, Hydrate
    PROVE  /\ tokens' \in Seq(TokenSpec) /\ Len(tokens') <= MaxTokens
           /\ DOMAIN tokens' = DOMAIN roster
<1>1. PICK line \in [needed -> pool] :
        tokens' = [i \in DOMAIN roster |->
                     IF i \in needed THEN [roster[i] EXCEPT !.privatekey = line[i]] ELSE roster[i]]
  BY DEF Hydrate
<1>2. roster \in Seq(TokenSpec) /\ DOMAIN roster = 1 .. Len(roster) /\ Len(roster) \in Nat
  BY DEF TypeOK
<1>3. \A i \in DOMAIN roster : tokens'[i] \in TokenSpec
  <2> SUFFICES ASSUME NEW i \in DOMAIN roster PROVE tokens'[i] \in TokenSpec
    OBVIOUS
  <2>1. roster[i] \in TokenSpec
    BY <1>2
  <2>2. CASE i \in needed
    <3>1. line[i] \in TokenKeys
      BY <2>2 DEF TypeOK
    <3> QED
      BY <1>1, <2>1, <2>2, <3>1 DEF TokenSpec
  <2> QED
    BY <1>1, <2>1, <2>2
<1>4. tokens' \in [1 .. Len(roster) -> TokenSpec]
  BY <1>1, <1>2, <1>3
<1> QED
  BY <1>2, <1>4, <1>1 DEF TypeOK

LEMMA TypeStep == TypeOK /\ ClaimOK /\ MemoryOK /\ [Next]_vars => TypeOK'
<1> SUFFICES ASSUME TypeOK, ClaimOK, MemoryOK, [Next]_vars PROVE TypeOK'
  OBVIOUS
<1> USE KeysAssumption, LimitsAssumption DEF TypeOK
<1>1. CASE UNCHANGED vars
  BY <1>1
<1>2. CASE Start
  BY <1>2 DEF Start
<1>3. CASE Crash \/ Bail
  <2>1. <<>> \in Seq(TokenSpec) /\ Len(<<>>) = 0
    OBVIOUS
  <2>2. Halt /\ tokens' = <<>> /\ pc' = "down" /\ token_debug' = FALSE /\ idx' = 0
    BY <1>3 DEF Crash, Bail, Halt
  <2>3. remaining' \subseteq TokenKeys
    BY <2>2, Zenon DEF Halt
  <2>4. tokens' \in Seq(TokenSpec) /\ Len(tokens') <= MaxTokens
    BY <2>1, <2>2
  <2>5. roster' = roster /\ pool' = pool /\ launches' = launches /\ minted' = minted
    BY <1>3 DEF Crash, Bail
  <2>6. runs' \in 0 .. MaxRuns /\ faults' \in 0 .. MaxFaults
    BY <1>3 DEF Crash, Bail
  <2>7. idx' = 0 /\ 0 \in 0 .. MaxTokens
    BY <2>2
  <2>9. token_debug' \in BOOLEAN
    BY <2>2, Zenon
  <2>8. pool' \subseteq TokenKeys /\ minted' \subseteq TokenKeys /\ launches' \in [TokenKeys -> Nat]
        /\ roster' \in Seq(TokenSpec) /\ Len(roster') <= MaxTokens
    BY <2>5
  <2> HIDE DEF TypeOK
  <2> QED
    BY <2>2, <2>3, <2>4, <2>6, <2>7, <2>8, <2>9 DEF TypeOK
<1>4. CASE AddToken
  <2>1. Unkeyed \in TokenSpec
    BY DEF Unkeyed, TokenSpec
  <2> QED
    BY <1>4, <2>1 DEF AddToken
<1>5. CASE AlreadyHydrated
  BY <1>5 DEF AlreadyHydrated
<1>6. CASE Hydrate
  BY <1>6, HydrateType DEF Hydrate
<1>7. CASE ShrinkPool \/ SaveRoster \/ Uploaded
  BY <1>7 DEF ShrinkPool, SaveRoster, Uploaded
<1>8. CASE Pick
  <2>1. PICK i \in DOMAIN tokens : idx' = i
    BY <1>8 DEF Pick
  <2> QED
    BY <1>8, <2>1 DEF Pick
<1>9. CASE MarkUsed
  <2>1. idx \in 1 .. Len(tokens) /\ tokens[idx] \in TokenSpec
    BY <1>9 DEF MarkUsed, ClaimOK, Running
  <2>2. [tokens[idx] EXCEPT !.is_used = TRUE] \in TokenSpec
    BY <2>1 DEF TokenSpec
  <2>3. tokens' = [tokens EXCEPT ![idx] = [tokens[idx] EXCEPT !.is_used = TRUE]]
    BY <1>9 DEF MarkUsed
  <2>4. tokens' \in Seq(TokenSpec) /\ Len(tokens') = Len(tokens)
    BY <2>1, <2>2, <2>3
  <2> QED
    BY <1>9, <2>4 DEF MarkUsed
<1>10. CASE FireLaunch
  <2>1. tokens[idx].privatekey \in TokenKeys
    BY <1>10 DEF FireLaunch, ClaimOK, MemoryOK, Running, Hydrated
  <2> QED
    BY <1>10, <2>1 DEF FireLaunch
<1> QED
  BY <1>1, <1>2, <1>3, <1>4, <1>5, <1>6, <1>7, <1>8, <1>9, <1>10
     DEF Next, LoadAndHydrate, Claim, NotEnoughKeys, NoTokenLeft, Stop

-----------------------------------------------------------------------------
\* Only SaveRoster, AddToken and MarkUsed write the roster, only ShrinkPool the pool.
LEMMA Frame ==
    [Next]_vars => \/ UNCHANGED files
                   \/ AddToken \/ ShrinkPool \/ SaveRoster \/ MarkUsed
  BY DEF Next, LoadAndHydrate, Claim, Start, Crash, Bail, AlreadyHydrated, NotEnoughKeys,
         Hydrate, Pick, NoTokenLeft, Uploaded, FireLaunch, Stop

\* Appending an unkeyed token leaves every other entry alone.
LEMMA Appended ==
    ASSUME TypeOK, AddToken
    PROVE  /\ DOMAIN roster' = DOMAIN roster \cup {Len(roster) + 1}
           /\ roster'[Len(roster) + 1] = Unkeyed
           /\ \A i \in DOMAIN roster : roster'[i] = roster[i]
  BY DEF AddToken, TypeOK

\* A claim marks one token of the roster that was not marked, and nothing else.
LEMMA Marked ==
    ASSUME IInv, MarkUsed
    PROVE  /\ DOMAIN roster' = DOMAIN roster /\ tokens = roster /\ tokens' = roster'
           /\ idx \in DOMAIN roster /\ idx < Len(roster) /\ ~roster[idx].is_used
           /\ roster'[idx].is_used /\ \A i \in DOMAIN roster : i # idx => roster'[i] = roster[i]
           /\ \A i \in DOMAIN roster : roster'[i].privatekey = roster[i].privatekey
           /\ \A i \in DOMAIN roster : roster[i].is_used => roster'[i].is_used
<1>1. tokens = roster /\ idx \in DOMAIN roster /\ idx < Len(roster) /\ ~roster[idx].is_used
  BY DEF MarkUsed, IInv, MemoryOK, ClaimOK, Hydrated, Running
<1>2. \A i \in DOMAIN roster : roster[i] \in TokenSpec
  BY DEF IInv, TypeOK
<1>3. roster' = [roster EXCEPT ![idx] = [roster[idx] EXCEPT !.is_used = TRUE]]
  BY <1>1 DEF MarkUsed
<1> QED
  BY <1>1, <1>2, <1>3 DEF MarkUsed, TokenSpec

\* Saving a hydrated roster keeps every mark and every key there was.
LEMMA Saved ==
    ASSUME IInv, SaveRoster
    PROVE  /\ roster' = tokens /\ DOMAIN roster' = DOMAIN roster
           /\ \A i \in DOMAIN roster :
                /\ roster'[i].is_used = roster[i].is_used
                /\ roster[i].privatekey # Empty => roster'[i].privatekey = roster[i].privatekey
  BY DEF SaveRoster, IInv, MemoryOK

LEMMA AssignedStep == IInv /\ [Next]_vars => NeverAssignedTwice'
<1> SUFFICES ASSUME IInv, [Next]_vars PROVE NeverAssignedTwice'
  OBVIOUS
<1>0. NeverAssignedTwice
  BY DEF IInv
<1>1. CASE UNCHANGED files
  BY <1>0, <1>1 DEF NeverAssignedTwice, Distinct, KeysOf
<1>2. CASE AddToken
  <2>1. Unkeyed.privatekey = Empty /\ pool' = pool
    BY <1>2 DEF Unkeyed, AddToken
  <2>2. KeysOf(roster)' = KeysOf(roster)
    BY <1>2, <2>1, Appended DEF IInv, KeysOf
  <2>3. Distinct(roster)'
    BY <1>0, <1>2, <2>1, Appended, KeysAssumption DEF IInv, NeverAssignedTwice, Distinct
  <2> QED
    BY <1>0, <2>1, <2>2, <2>3 DEF NeverAssignedTwice
<1>3. CASE ShrinkPool
  <2>1. pool' \subseteq pool /\ roster' = roster
    BY <1>3 DEF ShrinkPool, IInv, MemoryOK
  <2> QED
    BY <1>0, <2>1 DEF NeverAssignedTwice, Distinct, KeysOf
<1>4. CASE SaveRoster
  BY <1>4 DEF SaveRoster, IInv, MemoryOK, NeverAssignedTwice, Distinct, KeysOf
<1>5. CASE MarkUsed
  <2>1. KeysOf(roster)' = KeysOf(roster) /\ Distinct(roster)'
    BY <1>0, <1>5, Marked DEF NeverAssignedTwice, Distinct, KeysOf
  <2> QED
    BY <1>0, <1>5, <2>1 DEF NeverAssignedTwice, MarkUsed
<1> QED
  BY <1>1, <1>2, <1>3, <1>4, <1>5, Frame

LEMMA LaunchedStep == IInv /\ [Next]_vars => LaunchedOnce'
<1> SUFFICES ASSUME IInv, [Next]_vars, NEW k \in TokenKeys, launches'[k] > 0
             PROVE  /\ launches'[k] = 1
                    /\ \E i \in DOMAIN roster' : roster'[i].privatekey = k /\ roster'[i].is_used
  BY DEF LaunchedOnce
<1>0. launches[k] > 0 => launches[k] = 1 /\ \E i \in DOMAIN roster : roster[i].privatekey = k /\ roster[i].is_used
  BY DEF IInv, LaunchedOnce
<1>1. CASE FireLaunch
  <2>1. tokens = roster /\ idx \in DOMAIN roster /\ roster' = roster
    BY <1>1 DEF FireLaunch, IInv, MemoryOK, ClaimOK, Hydrated, Running
  <2>2. roster[idx].privatekey \in TokenKeys
    BY <1>1, <2>1 DEF FireLaunch, IInv, MemoryOK, Hydrated, Running
  <2>3. CASE token_debug
    BY <1>0, <1>1, <2>1, <2>3 DEF FireLaunch
  <2>4. CASE ~token_debug
    <3>1. roster[idx].is_used /\ launches[roster[idx].privatekey] = 0
      BY <1>1, <2>4 DEF FireLaunch, IInv, ClaimOK
    <3>2. launches' = [launches EXCEPT ![roster[idx].privatekey] = @ + 1]
      BY <1>1, <2>1, <2>4 DEF FireLaunch
    <3>3. launches \in [TokenKeys -> Nat]
      BY DEF IInv, TypeOK
    <3> QED
      BY <1>0, <2>1, <2>2, <3>1, <3>2, <3>3
  <2> QED
    BY <2>3, <2>4
<1>2. CASE ~FireLaunch
  <2>1. launches' = launches
    BY <1>2 DEF Next, LoadAndHydrate, Claim, Start, Crash, Bail, AddToken, AlreadyHydrated,
                NotEnoughKeys, Hydrate, ShrinkPool, SaveRoster, Pick, NoTokenLeft, Uploaded,
                MarkUsed, Stop
  <2>2. PICK i \in DOMAIN roster : roster[i].privatekey = k /\ roster[i].is_used
    BY <1>0, <2>1
  <2>3. k # Empty
    BY KeysAssumption
  <2>4. i \in DOMAIN roster' /\ roster'[i].privatekey = k /\ roster'[i].is_used
    <3>1. CASE UNCHANGED files \/ ShrinkPool
      BY <2>2, <3>1 DEF ShrinkPool
    <3>2. CASE AddToken
      BY <2>2, <3>2, Appended DEF IInv
    <3>3. CASE SaveRoster
      BY <2>2, <2>3, <3>3, Saved
    <3>4. CASE MarkUsed
      BY <2>2, <3>4, Marked
    <3> QED
      BY <3>1, <3>2, <3>3, <3>4, Frame
  <2> QED
    BY <1>0, <2>1, <2>4
<1> QED
  BY <1>1, <1>2

\* The draw gives each needy token a key of its own, taken out of the pool.
LEMMA HydrateKeys ==
    ASSUME TypeOK, NeverAssignedTwice, Hydrate
    PROVE  /\ remaining' \subseteq pool
           /\ \A i \in DOMAIN roster :
                /\ tokens'[i].privatekey \in TokenKeys
                /\ tokens'[i].privatekey \notin remaining'
                /\ tokens'[i].is_used = roster[i].is_used
                /\ roster[i].privatekey # Empty => tokens'[i] = roster[i]
           /\ \A i, j \in DOMAIN roster :
                tokens'[i].privatekey = tokens'[j].privatekey => i = j
<1>1. PICK line \in [needed -> pool] :
        /\ \A i, j \in needed : line[i] = line[j] => i = j
        /\ tokens' = [i \in DOMAIN roster |->
                        IF i \in needed THEN [roster[i] EXCEPT !.privatekey = line[i]] ELSE roster[i]]
        /\ remaining' = pool \ {line[i] : i \in needed}
  BY DEF Hydrate
<1>2. \A i \in DOMAIN roster : roster[i] \in TokenSpec
  BY DEF TypeOK
<1>3. \A i \in needed :
        /\ i \in DOMAIN roster /\ line[i] \in pool /\ roster[i].privatekey = Empty
        /\ tokens'[i].privatekey = line[i] /\ tokens'[i].is_used = roster[i].is_used
  BY <1>1, <1>2 DEF needed, TokenSpec
<1>4. \A i \in DOMAIN roster \ needed :
        /\ tokens'[i] = roster[i] /\ roster[i].privatekey \in TokenKeys
        /\ roster[i].privatekey \notin pool
  BY <1>1, <1>2 DEF needed, TokenSpec, NeverAssignedTwice, KeysOf
<1>5. ASSUME NEW i \in DOMAIN roster
      PROVE  /\ tokens'[i].privatekey \in TokenKeys
             /\ tokens'[i].privatekey \notin remaining'
             /\ tokens'[i].is_used = roster[i].is_used
             /\ roster[i].privatekey # Empty => tokens'[i] = roster[i]
  <2>1. CASE i \in needed
    <3>1. tokens'[i].privatekey \in {line[j] : j \in needed}
      BY <1>3, <2>1
    <3>2. line[i] \in TokenKeys
      BY <1>3, <2>1 DEF TypeOK
    <3>3. tokens'[i].privatekey \notin remaining'
      BY <1>1, <3>1
    <3>4. roster[i].privatekey = Empty /\ tokens'[i].privatekey = line[i]
          /\ tokens'[i].is_used = roster[i].is_used
      BY <1>3, <2>1
    <3> QED
      BY <3>2, <3>3, <3>4
  <2>2. CASE i \notin needed
    BY <1>1, <1>4, <2>2
  <2> QED
    BY <2>1, <2>2
<1>6. ASSUME NEW i \in DOMAIN roster, NEW j \in DOMAIN roster,
             tokens'[i].privatekey = tokens'[j].privatekey
      PROVE  i = j
  BY <1>1, <1>3, <1>4, <1>6 DEF NeverAssignedTwice, Distinct
<1> QED
  BY <1>1, <1>5, <1>6

LEMMA MemoryStep == IInv /\ [Next]_vars => MemoryOK'
<1> SUFFICES ASSUME IInv, [Next]_vars PROVE MemoryOK'
  OBVIOUS
<1> USE DEF Hydrated, Running
<1>1. CASE UNCHANGED vars
  BY <1>1 DEF IInv, MemoryOK, Distinct, KeysOf
<1>2. CASE Start \/ Crash \/ Bail \/ AddToken
  BY <1>2 DEF Start, Crash, Bail, Halt, AddToken, MemoryOK
<1>3. CASE AlreadyHydrated
  <2>1. \A i \in DOMAIN roster : roster[i] \in TokenSpec
    BY DEF IInv, TypeOK
  <2> QED
    BY <1>3, <2>1 DEF AlreadyHydrated, needed, MemoryOK, TokenSpec
<1>4. CASE Hydrate
  <2>1. pc' = "shrink" /\ roster' = roster /\ pool' = pool
    BY <1>4 DEF Hydrate
  <2>2. DOMAIN tokens' = DOMAIN roster
    BY <1>4, HydrateType DEF IInv
  <2> QED
    BY <1>4, <2>1, <2>2, HydrateKeys DEF IInv, MemoryOK, Distinct, KeysOf
<1>5. CASE ShrinkPool
  BY <1>5 DEF ShrinkPool, IInv, MemoryOK, Distinct, KeysOf
<1>6. CASE SaveRoster
  BY <1>6 DEF SaveRoster, IInv, MemoryOK
<1>7. CASE Pick \/ Uploaded \/ FireLaunch
  BY <1>7 DEF Pick, Uploaded, FireLaunch, IInv, MemoryOK
<1>8. CASE MarkUsed
  <2>1. pc' = "live" /\ pc = "claim"
    BY <1>8 DEF MarkUsed
  <2> QED
    BY <1>8, <2>1, Marked DEF IInv, MemoryOK
<1> QED
  BY <1>1, <1>2, <1>3, <1>4, <1>5, <1>6, <1>7, <1>8
     DEF Next, LoadAndHydrate, Claim, NotEnoughKeys, NoTokenLeft, Stop

LEMMA ClaimStep == IInv /\ [Next]_vars => ClaimOK'
<1> SUFFICES ASSUME IInv, [Next]_vars PROVE ClaimOK'
  OBVIOUS
<1> USE DEF Running
<1>1. CASE UNCHANGED vars
  BY <1>1 DEF IInv, ClaimOK
<1>2. CASE \/ Start \/ Crash \/ Bail \/ AddToken \/ AlreadyHydrated
           \/ Hydrate \/ ShrinkPool \/ SaveRoster
  BY <1>2 DEF Start, Crash, Bail, Halt, AddToken, AlreadyHydrated, Hydrate, ShrinkPool,
              SaveRoster, ClaimOK
<1>3. CASE Pick
  <2>1. tokens = roster
    BY <1>3 DEF Pick, IInv, MemoryOK, Hydrated
  <2> QED
    BY <1>3, <2>1 DEF Pick, candidate, ClaimOK
<1>4. CASE Uploaded \/ FireLaunch
  BY <1>4 DEF Uploaded, FireLaunch, IInv, ClaimOK
<1>5. CASE MarkUsed
  <2>1. launches' = launches /\ idx' = idx /\ token_debug' = token_debug /\ pc' = "live"
    BY <1>5 DEF MarkUsed
  <2>2. roster[idx].privatekey \in TokenKeys
    BY <1>5, Marked DEF MarkUsed, IInv, MemoryOK, Hydrated
  <2>3. launches[roster[idx].privatekey] = 0
    <3>1. \A i \in DOMAIN roster : roster[i].privatekey = roster[idx].privatekey => i = idx
      BY <1>5, <2>2, Marked DEF IInv, NeverAssignedTwice, Distinct
    <3>2. ~(launches[roster[idx].privatekey] > 0)
      BY <1>5, <2>2, <3>1, Marked DEF IInv, LaunchedOnce
    <3> QED
      BY <2>2, <3>2 DEF IInv, TypeOK
  <2>4. DOMAIN roster' = DOMAIN roster /\ Len(tokens') = Len(tokens)
    BY <1>5, Marked DEF MarkUsed, IInv, TypeOK
  <2> QED
    BY <1>5, <2>1, <2>3, <2>4, Marked DEF ClaimOK
<1> QED
  BY <1>1, <1>2, <1>3, <1>4, <1>5
     DEF Next, LoadAndHydrate, Claim, NotEnoughKeys, NoTokenLeft, Stop
-----------------------------------------------------------------------------
\* No step of the program, crash included, breaks the invariant.
THEOREM Inductive == IInv /\ [Next]_vars => IInv'
  BY TypeStep, AssignedStep, LaunchedStep, MemoryStep, ClaimStep DEF IInv

THEOREM Invariance == Spec => []IInv
  BY Initially, Inductive, PTL DEF Spec

\* The same key can never be assigned twice (tokens.rs:4): the order of the two
\* atomic writes is enough, with no log and no lock, whatever crashes.
THEOREM KeysAreAssignedOnce == Spec => []NeverAssignedTwice
<1>1. IInv => NeverAssignedTwice
  BY DEF IInv
<1> QED
  BY <1>1, Invariance, PTL

\* No ordinary run launches a mint key a second time, because main claims the token
\* on disk before it goes live (tokens.rs:149).
THEOREM KeysAreLaunchedOnce == Spec => []LaunchedOnce
<1>1. IInv => LaunchedOnce
  BY DEF IInv
<1> QED
  BY <1>1, Invariance, PTL

\* The debug sentinel is never burned in a real run, and what the roster records of a
\* token is never taken back (tokens.rs:129-132).
THEOREM TheSentinelIsKept == Spec => SentinelKept
<1>1. IInv /\ [Next]_vars =>
        [\A i \in DOMAIN roster :
           /\ roster'[i].is_used # roster[i].is_used => ~roster[i].is_used /\ i < Len(roster)
           /\ roster[i].privatekey # Empty => roster'[i].privatekey = roster[i].privatekey]_vars
  <2> SUFFICES ASSUME IInv, [Next]_vars, NEW i \in DOMAIN roster
               PROVE  /\ roster'[i].is_used # roster[i].is_used => ~roster[i].is_used /\ i < Len(roster)
                      /\ roster[i].privatekey # Empty => roster'[i].privatekey = roster[i].privatekey
    OBVIOUS
  <2>1. CASE UNCHANGED files \/ ShrinkPool
    BY <2>1 DEF ShrinkPool
  <2>2. CASE AddToken
    BY <2>2, Appended DEF IInv
  <2>3. CASE SaveRoster
    BY <2>3, Saved
  <2>4. CASE MarkUsed
    BY <2>4, Marked
  <2> QED
    BY <2>1, <2>2, <2>3, <2>4, Frame
<1> QED
  BY <1>1, Invariance, PTL DEF Spec, SentinelKept
-----------------------------------------------------------------------------
(* The two files implement the ledger of keys.                             *)

\* The keys about to leave the pool are those the roster in memory has and the one on
\* disk has not: without it, a crash between the two writes could bring a key back.
DrawOK ==
    pc = "shrink" =>
        /\ pool \ remaining \subseteq KeysOf(tokens)
        /\ KeysOf(tokens) \subseteq KeysOf(roster) \cup (pool \ remaining)

LEMMA DrawStep == IInv /\ DrawOK /\ [Next]_vars => DrawOK'
<1> SUFFICES ASSUME IInv, DrawOK, [Next]_vars, pc' = "shrink"
             PROVE  /\ pool' \ remaining' \subseteq KeysOf(tokens')
                    /\ KeysOf(tokens') \subseteq KeysOf(roster') \cup (pool' \ remaining')
  BY DEF DrawOK, KeysOf
<1>1. CASE UNCHANGED vars
  BY <1>1 DEF DrawOK
<1>2. CASE Hydrate
  <2>1. PICK line \in [needed -> pool] :
          /\ tokens' = [i \in DOMAIN roster |->
                          IF i \in needed THEN [roster[i] EXCEPT !.privatekey = line[i]] ELSE roster[i]]
          /\ remaining' = pool \ {line[i] : i \in needed}
    BY <1>2 DEF Hydrate
  <2>2. roster' = roster /\ pool' = pool /\ DOMAIN tokens' = DOMAIN roster
    BY <1>2, HydrateType DEF Hydrate, IInv
  <2>3. \A i \in needed : i \in DOMAIN roster /\ tokens'[i].privatekey = line[i] /\ line[i] \in pool
    <3>1. \A i \in DOMAIN roster : roster[i] \in TokenSpec
      BY DEF IInv, TypeOK
    <3> QED
      BY <2>1, <3>1 DEF needed, TokenSpec
  <2>4. \A i \in DOMAIN roster \ needed : tokens'[i] = roster[i]
    BY <2>1
  <2>5. Empty \notin pool
    BY KeysAssumption DEF IInv, TypeOK
  <2>6. pool' \ remaining' = {line[i] : i \in needed}
    BY <2>1, <2>2, <2>3
  <2>7. {line[i] : i \in needed} \subseteq KeysOf(tokens')
    BY <2>2, <2>3, <2>5 DEF KeysOf
  <2>8. KeysOf(tokens') \subseteq KeysOf(roster) \cup {line[i] : i \in needed}
    BY <2>2, <2>3, <2>4 DEF KeysOf
  <2> QED
    BY <2>2, <2>6, <2>7, <2>8
<1> QED
  BY <1>1, <1>2 DEF Next, LoadAndHydrate, Claim, Start, Crash, Bail, Halt, AddToken,
     AlreadyHydrated, NotEnoughKeys, ShrinkPool, SaveRoster, Pick, NoTokenLeft, Uploaded, MarkUsed,
     FireLaunch, Stop

\* Where a key stands, one line per state of the ledger.
LEMMA Statuses ==
    ASSUME NEW k \in TokenKeys
    PROVE  /\ status[k] = "free" <=> k \in pool
           /\ status[k] = "assigned" <=> k \notin pool /\ k \in KeysOf(roster)
           /\ status[k] = "drawn" <=> /\ k \notin pool /\ k \notin KeysOf(roster)
                                      /\ pc = "save" /\ k \in KeysOf(tokens)
           /\ status[k] \in {"free", "assigned", "drawn", "lost"}
  BY DEF status

\* A step that touches neither file, and neither reaches nor leaves the point between
\* the two writes, leaves the ledger alone.
LEMMA LedgerKept ==
    ASSUME pool' = pool, KeysOf(roster)' = KeysOf(roster), pc # "save", pc' # "save"
    PROVE  status' = status
  BY DEF status

\* The pool shrinks: what leaves it is drawn.
LEMMA DrawsKeys ==
    ASSUME IInv, DrawOK, ShrinkPool
    PROVE  Ledger!Draw \/ status' = status
<1> DEFINE K == pool \ remaining
<1>1. /\ pc = "shrink" /\ pc' = "save" /\ pool' = remaining
      /\ roster' = roster /\ tokens' = tokens /\ launches' = launches
  BY DEF ShrinkPool
<1>2. /\ K \subseteq TokenKeys /\ K \subseteq KeysOf(tokens) /\ remaining \subseteq pool
      /\ KeysOf(tokens) \subseteq KeysOf(roster) \cup K
      /\ \A k \in KeysOf(roster) : k \notin pool
  BY <1>1 DEF IInv, TypeOK, DrawOK, MemoryOK, NeverAssignedTwice
<1>3. KeysOf(roster)' = KeysOf(roster) /\ KeysOf(tokens)' = KeysOf(tokens)
  BY <1>1 DEF KeysOf
<1>4. Ledger!Drawn = {}
  BY <1>1, Statuses DEF Ledger!Drawn
<1>5. \A k \in K : status[k] = "free"
  BY <1>2, Statuses
<1>6. status' = [k \in TokenKeys |-> IF k \in K THEN "drawn" ELSE status[k]]
  <2>1. ASSUME NEW k \in TokenKeys
        PROVE  (IF k \in pool' THEN "free"
                ELSE IF k \in KeysOf(roster)' THEN "assigned"
                ELSE IF pc' = "save" /\ k \in KeysOf(tokens)' THEN "drawn" ELSE "lost")
                 = IF k \in K THEN "drawn" ELSE status[k]
    <3>1. status[k] = IF k \in pool THEN "free"
                      ELSE IF k \in KeysOf(roster) THEN "assigned" ELSE "lost"
      BY <1>1 DEF status
    <3> HIDE DEF KeysOf
    <3> QED
      BY <1>1, <1>2, <1>3, <3>1
  <2> QED
    BY <2>1 DEF status
<1>7. UNCHANGED {k \in TokenKeys : launches[k] > 0}
  BY <1>1
<1>8. CASE K = {}
  BY <1>6, <1>8 DEF status
<1>9. CASE K # {}
  <2>1. Ledger!Move(K, "free", "drawn")
    BY <1>5, <1>6, <1>7, <1>9 DEF Ledger!Move
  <2> QED
    BY <1>2, <1>4, <2>1 DEF Ledger!Draw
<1> QED
  BY <1>8, <1>9

\* The roster is saved: what was drawn is assigned.
LEMMA AssignsKeys ==
    ASSUME IInv, SaveRoster
    PROVE  Ledger!Assign \/ status' = status
<1> DEFINE K == Ledger!Drawn
<1>1. /\ pc = "save" /\ pc' = "pick" /\ roster' = tokens
      /\ pool' = pool /\ tokens' = tokens /\ launches' = launches
  BY DEF SaveRoster
<1>2. /\ \A k \in KeysOf(tokens) : k \notin pool
      /\ \A k \in KeysOf(roster) : k \in KeysOf(tokens)
  BY <1>1 DEF IInv, MemoryOK, KeysOf
<1>3. KeysOf(roster)' = KeysOf(tokens)
  BY <1>1 DEF KeysOf
<1>4. status' = [k \in TokenKeys |-> IF k \in K THEN "assigned" ELSE status[k]]
  <2>1. ASSUME NEW k \in TokenKeys
        PROVE  (IF k \in pool' THEN "free"
                ELSE IF k \in KeysOf(roster)' THEN "assigned"
                ELSE IF pc' = "save" /\ k \in KeysOf(tokens)' THEN "drawn" ELSE "lost")
                 = IF k \in K THEN "assigned" ELSE status[k]
    <3>1. status[k] = IF k \in pool THEN "free"
                      ELSE IF k \in KeysOf(roster) THEN "assigned"
                      ELSE IF k \in KeysOf(tokens) THEN "drawn" ELSE "lost"
      BY <1>1 DEF status
    <3>2. k \in K <=> status[k] = "drawn"
      BY DEF Ledger!Drawn
    <3> HIDE DEF K
    <3> QED
      BY <1>1, <1>2, <1>3, <3>1, <3>2
  <2> HIDE DEF K
  <2> QED
    BY <2>1 DEF status
<1>5. UNCHANGED {k \in TokenKeys : launches[k] > 0}
  BY <1>1
<1>6. \A k \in K : status[k] = "drawn"
  BY DEF Ledger!Drawn
<1>7. CASE K = {}
  <2> HIDE DEF K
  <2> QED
    BY <1>4, <1>7 DEF status
<1>8. CASE K # {}
  BY <1>4, <1>5, <1>6, <1>8 DEF Ledger!Move, Ledger!Assign
<1> QED
  BY <1>7, <1>8

\* A crash between the two writes loses what was drawn; anywhere else, nothing.
LEMMA LosesKeys ==
    ASSUME Crash
    PROVE  Ledger!Lose \/ status' = status
<1> DEFINE K == Ledger!Drawn
<1>1. /\ pc' = "down" /\ roster' = roster /\ pool' = pool /\ launches' = launches
  BY DEF Crash, Halt
<1>2. KeysOf(roster)' = KeysOf(roster)
  BY <1>1 DEF KeysOf
<1>3. status' = [k \in TokenKeys |-> IF k \in K THEN "lost" ELSE status[k]]
  <2>1. ASSUME NEW k \in TokenKeys
        PROVE  (IF k \in pool' THEN "free"
                ELSE IF k \in KeysOf(roster)' THEN "assigned"
                ELSE IF pc' = "save" /\ k \in KeysOf(tokens)' THEN "drawn" ELSE "lost")
                 = IF k \in K THEN "lost" ELSE status[k]
    <3>1. k \in K <=> status[k] = "drawn"
      BY DEF Ledger!Drawn
    <3>2. status[k] = IF k \in pool THEN "free"
                      ELSE IF k \in KeysOf(roster) THEN "assigned"
                      ELSE IF pc = "save" /\ k \in KeysOf(tokens) THEN "drawn" ELSE "lost"
      BY DEF status
    <3> HIDE DEF K
    <3> QED
      BY <1>1, <1>2, <3>1, <3>2
  <2> HIDE DEF K
  <2> QED
    BY <2>1 DEF status
<1>4. UNCHANGED {k \in TokenKeys : launches[k] > 0}
  BY <1>1
<1>5. \A k \in K : status[k] = "drawn"
  BY DEF Ledger!Drawn
<1>6. CASE K = {}
  <2> HIDE DEF K
  <2> QED
    BY <1>3, <1>6 DEF status
<1>7. CASE K # {}
  BY <1>3, <1>4, <1>5, <1>7 DEF Ledger!Move, Ledger!Lose
<1> QED
  BY <1>6, <1>7

\* An ordinary launch spends a key that is assigned and was not spent before.
LEMMA SpendsKey ==
    ASSUME IInv, FireLaunch
    PROVE  /\ status' = status
           /\ \/ \E k \in TokenKeys : Ledger!Spend(k)
              \/ UNCHANGED {k \in TokenKeys : launches[k] > 0}
<1> DEFINE k == tokens[idx].privatekey
           spent == {j \in TokenKeys : launches[j] > 0}
<1>1. /\ pc = "live" /\ pc' = "launched" /\ roster' = roster /\ pool' = pool
      /\ launches' = IF token_debug THEN launches ELSE [launches EXCEPT ![k] = @ + 1]
  BY DEF FireLaunch
<1>2. tokens = roster /\ idx \in DOMAIN roster /\ k \in TokenKeys
  BY <1>1 DEF IInv, MemoryOK, ClaimOK, Hydrated, Running
<1>3. status' = status
  BY <1>1, LedgerKept DEF KeysOf
<1>4. CASE token_debug
  BY <1>1, <1>3, <1>4
<1>5. CASE ~token_debug
  <2>1. launches[k] = 0
    BY <1>1, <1>2, <1>5 DEF IInv, ClaimOK
  <2>2. k \in KeysOf(roster) /\ k \notin pool
    BY <1>2, KeysAssumption DEF KeysOf, IInv, NeverAssignedTwice
  <2>3. status[k] = "assigned"
    BY <1>2, <2>2, Statuses
  <2>4. launches \in [TokenKeys -> Nat]
    BY DEF IInv, TypeOK
  <2>5. k \notin spent
    BY <2>1
  <2> HIDE DEF k
  <2>6. \A j \in TokenKeys : launches'[j] = IF j = k THEN 1 ELSE launches[j]
    BY <1>1, <1>2, <1>5, <2>1, <2>4
  <2>7. spent' = spent \cup {k}
    BY <1>2, <2>6
  <2> QED
    BY <1>2, <1>3, <2>3, <2>5, <2>7 DEF Ledger!Spend
<1> QED
  BY <1>4, <1>5

LEMMA LedgerInit == Init => Ledger!Init
<1> SUFFICES ASSUME Init PROVE Ledger!Init
  OBVIOUS
<1>1. status = [k \in TokenKeys |-> "free"]
  BY DEF Init, status
<1>2. {k \in TokenKeys : launches[k] > 0} = {}
  BY DEF Init
<1> QED
  BY <1>1, <1>2 DEF Ledger!Init

LEMMA LedgerStep ==
    IInv /\ DrawOK /\ [Next]_vars
      => [Ledger!Next]_<<status, {k \in TokenKeys : launches[k] > 0}>>
<1> DEFINE spent == {k \in TokenKeys : launches[k] > 0}
<1> SUFFICES ASSUME IInv, DrawOK, [Next]_vars
             PROVE  Ledger!Next \/ (status' = status /\ spent' = spent)
  OBVIOUS
<1>1. CASE FireLaunch
  BY <1>1, SpendsKey DEF Ledger!Next
<1>2. CASE ~FireLaunch
  <2>0. spent' = spent
    BY <1>2 DEF Next, LoadAndHydrate, Claim, Start, Crash, Bail, AddToken, AlreadyHydrated,
                NotEnoughKeys, Hydrate, ShrinkPool, SaveRoster, Pick, NoTokenLeft, Uploaded,
                MarkUsed, Stop
  <2> HIDE DEF spent
  <2>1. CASE ShrinkPool
    BY <2>0, <2>1, DrawsKeys DEF Ledger!Next
  <2>2. CASE SaveRoster
    BY <2>0, <2>2, AssignsKeys DEF Ledger!Next
  <2>3. CASE Crash
    BY <2>0, <2>3, LosesKeys DEF Ledger!Next
  <2>4. CASE AddToken \/ MarkUsed
    <3>1. pool' = pool /\ pc # "save" /\ pc' # "save"
      BY <2>4 DEF AddToken, MarkUsed
    <3>2. KeysOf(roster)' = KeysOf(roster)
      BY <2>4, Appended, Marked DEF IInv, KeysOf, Unkeyed
    <3> QED
      BY <2>0, <3>1, <3>2, LedgerKept
  <2>5. CASE UNCHANGED vars
    BY <2>0, <2>5 DEF status, KeysOf
  <2>6. CASE \/ Start \/ AlreadyHydrated \/ NotEnoughKeys \/ Hydrate \/ Pick \/ NoTokenLeft
             \/ Uploaded \/ Stop
    <3>1. pool' = pool /\ roster' = roster /\ pc # "save" /\ pc' # "save"
      BY <2>6 DEF Start, AlreadyHydrated, NotEnoughKeys, Hydrate, Pick, NoTokenLeft, Uploaded,
                  Stop, Bail, Halt
    <3> QED
      BY <2>0, <3>1, LedgerKept DEF KeysOf
  <2> QED
    BY <1>2, <2>1, <2>2, <2>3, <2>4, <2>5, <2>6 DEF Next, LoadAndHydrate, Claim
<1> QED
  BY <1>1, <1>2

\* Two files written one after the other, without log or lock, keep the ledger's promise
\* through every crash: each key is drawn once, then assigned or lost, and spent once.
THEOREM FilesImplementLedger == Spec => ImplementsLedger
<1>1. Init => DrawOK
  BY DEF Init, DrawOK
<1>2. Spec => []DrawOK
  BY <1>1, DrawStep, Invariance, PTL DEF Spec
<1> QED
  BY <1>2, Invariance, LedgerInit, LedgerStep, PTL DEF Spec, ImplementsLedger, Ledger!Spec

\* Types, and the bounds of every cursor and counter (tokens.rs).
THEOREM TypeCorrect == Spec => []TypeOK
<1>1. IInv => TypeOK
  BY DEF IInv
<1> QED
  BY <1>1, Invariance, PTL
=============================================================================
