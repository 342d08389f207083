--------------------------- MODULE WalletRotation ---------------------------
(***************************************************************************)
(* keys::prepare, the wallet bootstrap of TokenPumper, run after run: read *)
(* or create the key files, sweep what the last run left into the eater,   *)
(* check that the wallets read back empty, replace their keys, refill the  *)
(* funder and distribute to the children.  One action is one file-system   *)
(* call, one RPC call or one settlement on chain, so a crash, a timeout or *)
(* a late transaction can fall between any two of them.                    *)
(*                                                                         *)
(* A wallet is a number: 0 is the eater (its file is never replaced),      *)
(* 1 .. MaxKey are the keys generate::keypair returns, in that order.      *)
(* Amounts are in an abstract unit and fees are left out.                  *)
(***************************************************************************)
EXTENDS Integers, FiniteSets, FiniteSetsExt

CONSTANTS
    MaxKey,       \* bound: keypairs generated in a behaviour
    MaxDay,       \* bound: UTC days a behaviour spans
    MaxRuns,      \* bound: times the program is started
    MaxFaults,    \* bound: crashes, RPC errors, timeouts, lost transactions
    MaxBatch,     \* largest batch_size any config has
    Sizes,        \* values cfg.batch_size takes from one run to the next
    AccountSets,  \* values cfg.accounts takes: the slots that are funded
    Supply,       \* lamports the eater starts with
    EaterAmount,  \* cfg.eater_amount, what a refill moves to the funder
    ChildAmount,  \* what distribute moves to a child
    RentMin,      \* RENT_EXEMPT_MIN_LAMPORTS
    ChunkSize,    \* MAX_CHILDREN_PER_SWEEP_TX
    LateKinds,    \* transactions that can still land once their run is over
    Spare         \* runs that Recovers allows

Kinds == {"sweep", "refill", "dist"}
Eater == 0
Keys == 1 .. MaxKey
Wallets == 0 .. MaxKey
Days == 1 .. MaxDay
Slots == 1 .. MaxBatch

ASSUME BoundsAssumption ==
    /\ MaxKey \in Nat /\ MaxDay \in Nat \ {0} /\ MaxRuns \in Nat /\ MaxFaults \in Nat /\ Spare \in Nat
    /\ MaxBatch \in Nat \ {0} /\ Sizes \subseteq Slots /\ AccountSets \subseteq SUBSET Slots

ASSUME AmountsAssumption ==
    /\ Supply \in Nat /\ RentMin \in Nat
    /\ EaterAmount \in Nat \ {0} /\ ChildAmount \in Nat \ {0}
    /\ ChunkSize \in Nat \ {0} /\ LateKinds \subseteq Kinds

\* A key file is missing, or created and not yet written, or holds a key.
Absent == -1
Blank == -2
File == Keys \cup {Absent, Blank}

VARIABLES
    \* the disk
    fundFile,   \* cfg.funder_path
    batch,      \* keys_dir/<day>/<slot>.json
    \* the chain
    bal,        \* lamports of each wallet
    position,   \* what a wallet has done on the curve
    mempool,    \* transactions sent and not yet landed or dropped
    \* the host
    day, nextKey, runs, faults,
    \* the process
    pc, stage, size, debug, accounts, funder, kids, loaded, dir, slot,
    seen, work, running_eater, pending, target

disk == <<fundFile, batch>>
chain == <<bal, position, mempool>>
host == <<day, nextKey, runs, faults>>
prepared == <<size, debug, accounts, funder, kids, loaded>>
cursor == <<dir, slot>>
sweeping == <<seen, work, running_eater, pending>>
process == <<pc, stage, prepared, cursor, sweeping, target>>
vars == <<disk, chain, host, process>>

OnDisk(k) == fundFile = k \/ \E d \in Days, s \in Slots : batch[d][s] = k

Nothing == [k \in Wallets |-> 0]
NoKids == [s \in Slots |-> Absent]
Recipients == {kids[s] : s \in accounts}

\* A transaction, with the wallet that pays its fee and must sign it first.
Transfer(kind, payer, debit, credit) ==
    [kind |-> kind, run |-> runs, payer |-> payer, debit |-> debit, credit |-> credit]

Payable(t) == \A k \in Wallets : bal[k] >= t.debit[k]
-----------------------------------------------------------------------------
Init ==
    /\ fundFile = Absent
    /\ batch = [d \in Days |-> [s \in Slots |-> Absent]]
    /\ bal = [Nothing EXCEPT ![Eater] = Supply]
    /\ position = [k \in Keys |-> "idle"]
    /\ mempool = {}
    /\ day = 1 /\ nextKey = 1 /\ runs = 0 /\ faults = 0
    /\ pc = "down" /\ stage = "resolve"
    /\ size = 0 /\ debug = FALSE /\ accounts = {} /\ funder = Absent /\ kids = NoKids /\ loaded = {}
    /\ dir = 1 /\ slot = 1
    /\ seen = Nothing /\ work = {} /\ running_eater = 0 /\ pending = {}
    /\ target = 0

\* The process is gone, and with it all it held in memory; size is what the
\* configuration said last.
Halt ==
    /\ pc' = "down" /\ stage' = "resolve" /\ UNCHANGED size
    /\ debug' = FALSE /\ accounts' = {} /\ funder' = Absent /\ kids' = NoKids /\ loaded' = {}
    /\ dir' = 1 /\ slot' = 1
    /\ seen' = Nothing /\ work' = {} /\ running_eater' = 0 /\ pending' = {}
    /\ target' = 0

\* bail! or ?: the program ends with an error and touches nothing else.
Bail == Halt /\ UNCHANGED <<disk, chain, host>>

\* The operator starts the program, having edited batch_size, accounts and debug at will.
Start ==
    /\ pc = "down" /\ runs < MaxRuns
    /\ runs' = runs + 1
    /\ size' \in Sizes /\ debug' \in BOOLEAN /\ accounts' \in AccountSets
    /\ pc' = "funder" /\ stage' = "resolve"
    /\ mempool' = {t \in mempool : t.kind \in LateKinds}
    /\ UNCHANGED <<disk, bal, position, day, nextKey, faults, funder, kids, loaded,
                   cursor, sweeping, target>>

\* Ctrl-C once the bootstrap is done.
Stop == pc = "running" /\ Bail

\* A crash, an RPC error or an expired timeout anywhere in the bootstrap.
Crash ==
    /\ pc \notin {"down", "running"} /\ faults < MaxFaults
    /\ faults' = faults + 1
    /\ Halt
    /\ UNCHANGED <<disk, chain, day, nextKey, runs>>

Midnight ==
    /\ day < MaxDay /\ day' = day + 1
    /\ UNCHANGED <<disk, chain, nextKey, runs, faults, process>>
-----------------------------------------------------------------------------
(* Key files: singleton.rs, batch.rs, storage.rs.                          *)

LoadFunder ==
    /\ pc = "funder" /\ fundFile \in Keys
    /\ funder' = fundFile /\ loaded' = {"funder"}
    /\ pc' = "batch"
    /\ UNCHANGED <<disk, chain, host, stage, size, debug, accounts, kids, cursor, sweeping, target>>

FunderMissing ==
    /\ pc = "funder" /\ fundFile = Absent
    /\ pc' = "openFunder"
    /\ UNCHANGED <<disk, chain, host, stage, prepared, cursor, sweeping, target>>

FunderUnreadable == pc = "funder" /\ fundFile = Blank /\ Bail

\* singleton::regenerate removes the stale file first.
RemoveFunder ==
    /\ pc = "rotateFunder" /\ "funder" \in loaded
    /\ fundFile' = Absent
    /\ pc' = "openFunder"
    /\ UNCHANGED <<batch, chain, host, stage, prepared, cursor, sweeping, target>>

\* write_new, first half: create_new leaves an empty file.
OpenFunder ==
    /\ pc = "openFunder" /\ fundFile = Absent
    /\ fundFile' = Blank
    /\ pc' = "writeFunder"
    /\ UNCHANGED <<batch, chain, host, stage, prepared, cursor, sweeping, target>>

\* write_new, second half: write_all of a fresh keypair.
WriteFunder ==
    /\ pc = "writeFunder" /\ nextKey <= MaxKey
    /\ fundFile' = nextKey /\ funder' = nextKey /\ nextKey' = nextKey + 1
    /\ pc' = IF stage = "resolve" THEN "batch" ELSE "rotateBatch"
    /\ UNCHANGED <<batch, chain, day, runs, faults, stage, size, debug, accounts, kids, loaded,
                   cursor, sweeping, target>>

is_complete(d, n) == \A s \in 1 .. n : batch[d][s] # Absent

LoadBatch ==
    /\ pc = "batch" /\ is_complete(day, size)
    /\ \A s \in 1 .. size : batch[day][s] # Blank
    /\ kids' = [s \in Slots |-> IF s <= size THEN batch[day][s] ELSE Absent]
    /\ loaded' = loaded \cup {"batch"}
    /\ dir' = day /\ pc' = "audit"
    /\ UNCHANGED <<disk, chain, host, stage, size, debug, accounts, funder, slot, sweeping, target>>

BatchUnreadable ==
    /\ pc = "batch" /\ is_complete(day, size)
    /\ \E s \in 1 .. size : batch[day][s] = Blank
    /\ Bail

\* Mutant: the files of a batch are numbered from 0.
CreateFresh_FromZero ==
    /\ \/ pc = "batch" /\ ~is_complete(day, size)
       \/ pc = "rotateBatch" /\ "batch" \in loaded
    /\ dir' = day /\ slot' = 0 /\ kids' = NoKids
    /\ pc' = "clear"
    /\ UNCHANGED <<disk, chain, host, stage, size, debug, accounts, funder, loaded, sweeping, target>>

\* create_fresh in today's directory: on an incomplete batch, and to recycle one.
CreateFresh ==
    /\ \/ pc = "batch" /\ ~is_complete(day, size)
       \/ pc = "rotateBatch" /\ "batch" \in loaded
    /\ dir' = day /\ slot' = 1 /\ kids' = NoKids
    /\ pc' = "clear"
    /\ UNCHANGED <<disk, chain, host, stage, size, debug, accounts, funder, loaded, sweeping, target>>

\* clear_jsons removes every .json of the directory, in whatever order it is read.
ClearJson ==
    /\ pc = "clear"
    /\ \E s \in Slots :
         /\ batch[dir][s] # Absent
         /\ batch' = [batch EXCEPT ![dir][s] = Absent]
    /\ UNCHANGED <<fundFile, chain, host, process>>

Cleared ==
    /\ pc = "clear" /\ \A s \in Slots : batch[dir][s] = Absent
    /\ pc' = "open"
    /\ UNCHANGED <<disk, chain, host, stage, prepared, cursor, sweeping, target>>

OpenChild ==
    /\ pc = "open"
    /\ batch' = [batch EXCEPT ![dir][slot] = Blank]
    /\ pc' = "write"
    /\ UNCHANGED <<fundFile, chain, host, stage, prepared, cursor, sweeping, target>>

WriteChild ==
    /\ pc = "write" /\ nextKey <= MaxKey
    /\ batch' = [batch EXCEPT ![dir][slot] = nextKey]
    /\ kids' = [kids EXCEPT ![slot] = nextKey]
    /\ nextKey' = nextKey + 1
    /\ IF slot < size
         THEN slot' = slot + 1 /\ pc' = "open"
         ELSE slot' = 1 /\ pc' = IF stage = "resolve" THEN "audit" ELSE "refill"
    /\ UNCHANGED <<fundFile, chain, day, runs, faults, stage, size, debug, accounts, funder, loaded,
                   dir, sweeping, target>>
-----------------------------------------------------------------------------
(* Audit, sweep, settle, verify: wallets.rs and sweep.rs.                  *)

\* prepare's senders: 0 is the funder, s is s.json when the batch was read from disk.
Senders == {0} \cup (IF "batch" \in loaded THEN 1 .. size ELSE {})
Sender(i) == IF i = 0 THEN funder ELSE kids[i]

\* One getMultipleAccounts; cfg.accounts must fit the batch (Assigner::build).
\* In debug mode nothing more is sent, verified or rotated.
Audit ==
    /\ pc = "audit" /\ accounts \subseteq 1 .. size
    /\ seen' = bal /\ running_eater' = bal[Eater]
    /\ work' = {i \in Senders : bal[Sender(i)] > 0}
    /\ pc' = IF debug THEN "running" ELSE "sweep"
    /\ UNCHANGED <<disk, chain, host, stage, prepared, cursor, pending, target>>

BadAssignment == pc = "audit" /\ ~(accounts \subseteq 1 .. size) /\ Bail

\* work.chunks(MAX_CHILDREN_PER_SWEEP_TX): the first senders still to be swept.
Chunk == {i \in work : Cardinality({j \in work : j < i}) < ChunkSize}
ChunkKeys == {Sender(i) : i \in Chunk}
ChunkTotal == SumFunctionOnSet(seen, ChunkKeys)
SweepTx(total) ==
    Transfer("sweep", Eater, [k \in Wallets |-> IF k \in ChunkKeys THEN seen[k] ELSE 0],
                             [Nothing EXCEPT ![Eater] = total])

\* Outcome::Skipped: the eater would be left below the rent-exempt minimum.
SkipChunk ==
    /\ pc = "sweep" /\ work # {}
    /\ running_eater + ChunkTotal < RentMin
    /\ work' = work \ Chunk
    /\ UNCHANGED <<disk, chain, host, pc, stage, prepared, cursor, seen, running_eater,
                   pending, target>>

\* Outcome::Sent: the preflight simulation accepts it and it is under way.
SendChunk ==
    /\ pc = "sweep" /\ work # {}
    /\ \E total \in 0 .. Supply :
         /\ total = ChunkTotal /\ running_eater + total >= RentMin
         /\ Payable(SweepTx(total))
         /\ mempool' = mempool \cup {SweepTx(total)}
         /\ pending' = pending \cup {SweepTx(total)}
         /\ running_eater' = running_eater + total
    /\ work' = work \ Chunk
    /\ UNCHANGED <<disk, bal, position, host, pc, stage, prepared, cursor, seen, target>>

\* Outcome::Failed: the preflight refuses, or the call itself fails, in which
\* case the transaction may be under way all the same.
FailChunk ==
    /\ pc = "sweep" /\ work # {}
    /\ \E total \in 0 .. Supply :
         /\ total = ChunkTotal /\ running_eater + total >= RentMin
         /\ \/ ~Payable(SweepTx(total)) /\ UNCHANGED <<mempool, faults>>
            \/ /\ faults < MaxFaults /\ faults' = faults + 1
               /\ mempool' \in {mempool, mempool \cup {SweepTx(total)}}
    /\ work' = work \ Chunk
    /\ UNCHANGED <<disk, bal, position, day, nextKey, runs, pc, stage, prepared, cursor,
                   seen, running_eater, pending, target>>

\* wait_for_sweep_settled: every signature the sweep got back is confirmed ...
Settled ==
    /\ pc = "sweep" /\ work = {} /\ pending = {}
    /\ pc' = "verify"
    /\ UNCHANGED <<disk, chain, host, stage, prepared, cursor, sweeping, target>>

\* ... or 30 s pass; one that was dropped or failed stays pending until then.
SettleTimeout ==
    /\ pc = "sweep" /\ work = {} /\ pending \ mempool # {}
    /\ Bail

\* Mutant: the gate looks at the children and not at the funder.
ToRotate_BatchOnly == IF "batch" \in loaded THEN {kids[s] : s \in 1 .. size} ELSE {}

ToRotate ==
    (IF "funder" \in loaded THEN {funder} ELSE {})
      \cup (IF "batch" \in loaded THEN {kids[s] : s \in 1 .. size} ELSE {})

\* Mutant: the gate looks at the funder and not at the children.
VerifyZero_FunderOnly ==
    /\ pc = "verify" /\ ("funder" \in loaded => bal[funder] = 0)
    /\ pc' = "rotateFunder" /\ stage' = "rotate"
    /\ UNCHANGED <<disk, chain, host, prepared, cursor, sweeping, target>>

\* Mutant: the gate trusts the settled sweep instead of reading the chain again.
VerifyZero_TrustSweep ==
    /\ pc = "verify"
    /\ pc' = "rotateFunder" /\ stage' = "rotate"
    /\ UNCHANGED <<disk, chain, host, prepared, cursor, sweeping, target>>

\* verify_zero_before_recycle: one more getMultipleAccounts.
VerifyZero ==
    /\ pc = "verify" /\ \A k \in ToRotate : bal[k] = 0
    /\ pc' = "rotateFunder" /\ stage' = "rotate"
    /\ UNCHANGED <<disk, chain, host, prepared, cursor, sweeping, target>>

Stranded == pc = "verify" /\ (\E k \in ToRotate : bal[k] # 0) /\ Bail

\* A key minted by this very run is not rotated.
KeepFunder ==
    /\ pc = "rotateFunder" /\ "funder" \notin loaded
    /\ pc' = "rotateBatch"
    /\ UNCHANGED <<disk, chain, host, stage, prepared, cursor, sweeping, target>>

KeepBatch ==
    /\ pc = "rotateBatch" /\ "batch" \notin loaded
    /\ pc' = "refill"
    /\ UNCHANGED <<disk, chain, host, stage, prepared, cursor, sweeping, target>>
-----------------------------------------------------------------------------
(* Refill and distribute: refill.rs, distribute.rs.                        *)

RefillTx == Transfer("refill", Eater, [Nothing EXCEPT ![Eater] = EaterAmount],
                                      [Nothing EXCEPT ![funder] = EaterAmount])

SendRefill ==
    /\ pc = "refill" /\ Payable(RefillTx)
    /\ target' = bal[funder] + EaterAmount
    /\ mempool' = mempool \cup {RefillTx}
    /\ pc' = "awaitRefill"
    /\ UNCHANGED <<disk, bal, position, host, stage, prepared, cursor, sweeping>>

\* The preflight refuses: the eater cannot pay.
RefillRefused == pc = "refill" /\ ~Payable(RefillTx) /\ Bail

RefillArrived ==
    /\ pc = "awaitRefill" /\ bal[funder] >= target
    /\ pc' = "distribute"
    /\ UNCHANGED <<disk, chain, host, stage, prepared, cursor, sweeping, target>>

\* Mutant: the wait for the refill has no deadline.
RefillTimeout_Never == FALSE /\ Bail

\* 30 s pass on a refill that was dropped.
RefillTimeout ==
    /\ pc = "awaitRefill" /\ bal[funder] < target
    /\ \A t \in mempool : t.kind # "refill"
    /\ Bail

DistributeTx ==
    Transfer("dist", funder, [Nothing EXCEPT ![funder] = ChildAmount * Cardinality(accounts)],
                             [k \in Wallets |-> IF k \in Recipients THEN ChildAmount ELSE 0])

\* Sent, never confirmed: the program goes live at once.
Distribute ==
    /\ pc = "distribute"
    /\ \/ accounts = {} /\ UNCHANGED mempool
       \/ /\ accounts # {} /\ Payable(DistributeTx)
          /\ mempool' = mempool \cup {DistributeTx}
    /\ pc' = "running"
    /\ UNCHANGED <<disk, bal, position, host, stage, prepared, cursor, sweeping, target>>

DistributeRefused ==
    /\ pc = "distribute" /\ accounts # {} /\ ~Payable(DistributeTx)
    /\ Bail
-----------------------------------------------------------------------------
(* The chain.                                                              *)

Land(t) ==
    /\ t \in mempool /\ Payable(t)
    /\ bal' = [k \in Wallets |-> (bal[k] - t.debit[k]) + t.credit[k]]
    /\ mempool' = mempool \ {t}
    /\ pending' = pending \ {t}
    /\ UNCHANGED <<disk, position, host, pc, stage, prepared, cursor, seen, work,
                   running_eater, target>>

\* A transaction nobody can pay fails or expires; any other may get lost.
Drop(t) ==
    /\ t \in mempool
    /\ \/ ~Payable(t) /\ UNCHANGED faults
       \/ Payable(t) /\ faults < MaxFaults /\ faults' = faults + 1
    /\ mempool' = mempool \ {t}
    /\ UNCHANGED <<disk, bal, position, day, nextKey, runs, process>>

\* The launch (CurveSub): each funded child sends its one buy, which lands or
\* does not, and later sells; a child without lamports cannot pay for either.
FireBuys ==
    /\ pc = "running" /\ \E k \in Recipients : position[k] = "idle"
    /\ position' = [k \in Keys |-> IF k \in Recipients /\ position[k] = "idle"
                                   THEN "buying" ELSE position[k]]
    /\ UNCHANGED <<disk, bal, mempool, host, process>>

BuyLands(k) ==
    /\ position[k] = "buying" /\ bal[k] > 1
    /\ bal' = [bal EXCEPT ![k] = @ - 1]
    /\ position' = [position EXCEPT ![k] = "holding"]
    /\ UNCHANGED <<disk, mempool, host, process>>

SellLands(k) ==
    /\ position[k] = "holding" /\ bal[k] > 0
    /\ bal' = [bal EXCEPT ![k] = @ + 1]
    /\ position' = [position EXCEPT ![k] = "sold"]
    /\ UNCHANGED <<disk, mempool, host, process>>
-----------------------------------------------------------------------------
ResolveKeys ==
    \/ LoadFunder \/ FunderMissing \/ FunderUnreadable \/ OpenFunder \/ WriteFunder
    \/ LoadBatch \/ BatchUnreadable \/ CreateFresh \/ ClearJson \/ Cleared
    \/ OpenChild \/ WriteChild
SweepWallets ==
    \/ Audit \/ BadAssignment \/ SkipChunk \/ SendChunk \/ FailChunk
    \/ Settled \/ SettleTimeout
RotateKeys == Stranded \/ RemoveFunder \/ KeepFunder \/ KeepBatch
FundWallets ==
    \/ SendRefill \/ RefillRefused \/ RefillArrived \/ RefillTimeout
    \/ Distribute \/ DistributeRefused

Prepare == ResolveKeys \/ SweepWallets \/ VerifyZero \/ RotateKeys \/ FundWallets
Settle == \E t \in mempool : Land(t) \/ Drop(t)
Trade == FireBuys \/ \E k \in Keys : BuyLands(k) \/ SellLands(k)
Others ==
    \/ Stop \/ Crash \/ Midnight \/ ResolveKeys \/ SweepWallets \/ RotateKeys \/ FundWallets
    \/ Settle \/ Trade

Next == Start \/ VerifyZero \/ Others

Spec == Init /\ [][Next]_vars

\* Nothing is on a day's batch, and nothing under way is paid into it.
Emptied(d) ==
    \A s \in Slots : batch[d][s] \in Keys =>
        /\ bal[batch[d][s]] = 0
        /\ \A t \in mempool : t.credit[batch[d][s]] = 0

\* What the code leaves to its operator and does not check: batch_size is only
\* edited while today's batch is empty, and a run is only let up to the gate once
\* the refill of an earlier run has landed or expired.
CarefulStart == Start /\ (size' = size \/ Emptied(day))
CarefulVerify == VerifyZero /\ \A t \in mempool : t.kind # "refill"
CarefulNext == CarefulStart \/ CarefulVerify \/ Others

CarefulSpec == Init /\ [][CarefulNext]_vars

\* The program keeps going, the operator reruns it after an error, and the
\* network settles what it holds.
FairSpec == Spec /\ WF_vars(Prepare) /\ WF_vars(Start) /\ WF_vars(Settle)
-----------------------------------------------------------------------------
TxType ==
    [kind : Kinds, run : Nat, payer : Wallets, debit : [Wallets -> Nat], credit : [Wallets -> Nat]]

DiskType ==
    /\ fundFile \in File /\ batch \in [Days -> [Slots -> File]]

ChainType ==
    /\ bal \in [Wallets -> Nat]
    /\ position \in [Keys -> {"idle", "buying", "holding", "sold"}]
    /\ mempool \subseteq TxType

HostType ==
    /\ day \in Days /\ nextKey \in 1 .. MaxKey + 1
    /\ runs \in 0 .. MaxRuns /\ faults \in 0 .. MaxFaults

ProcessType ==
    /\ pc \in {"down", "funder", "openFunder", "writeFunder", "batch", "clear", "open",
               "write", "audit", "sweep", "verify", "rotateFunder", "rotateBatch",
               "refill", "awaitRefill", "distribute", "running"}
    /\ stage \in {"resolve", "rotate"}
    /\ size \in Sizes \cup {0} /\ debug \in BOOLEAN /\ accounts \subseteq Slots
    /\ funder \in Keys \cup {Absent} /\ kids \in [Slots -> Keys \cup {Absent}]
    /\ loaded \subseteq {"funder", "batch"}
    /\ dir \in Days /\ slot \in Slots
    /\ seen \in [Wallets -> Nat] /\ work \subseteq 0 .. MaxBatch /\ running_eater \in Nat
    /\ pending \subseteq TxType /\ target \in Nat

TypeOK == DiskType /\ ChainType /\ HostType /\ ProcessType

\* Lamports are never on a wallet whose key is gone: whatever crashes, times
\* out or lands late, each wallet that holds funds is in a key file.
NoFundsLost == \A k \in Keys : bal[k] > 0 => OnDisk(k)

\* A transaction that could still be paid only credits wallets with a key file:
\* what is under way cannot be lost by landing later.
NoTransferToLostKey ==
    \A t \in mempool : Payable(t) => \A k \in Keys : t.credit[k] > 0 => OnDisk(k)

\* The eater only pays for a new generation once everything earlier runs put into
\* the funder and into this day's batch is back: two generations are never funded
\* at once (a batch of an earlier day keeps its funds, under its own date).
SweptBeforeRefill ==
    pc \in {"awaitRefill", "distribute"} =>
        \A k \in Keys \ {funder} : bal[k] > 0 =>
            \E d \in Days \ {dir}, s \in Slots : batch[d][s] = k

\* A key file is only overwritten or removed while its wallet shows 0 lamports
\* (the safety gate of wallets.rs:116).
RotateOnlyEmpty ==
    [][\A k \in Keys : OnDisk(k) /\ ~OnDisk(k)' => bal[k] = 0]_vars

\* The program is down, and a crash left an empty key file that every later run of
\* the day ends at: the funder's, or one of a batch that has all its files. An empty
\* file of an incomplete batch is cleared with the rest of it.
Wedged ==
    /\ pc = "down"
    /\ \/ fundFile = Blank
       \/ \E n \in Sizes : is_complete(day, n) /\ \E s \in 1 .. n : batch[day][s] = Blank

\* Whatever a run left behind, sweeps and distributions that are late or lost
\* included, rerunning the program gets it live within Spare runs: rotated, refilled
\* and distributed, unless debug mode skips that. The only way it does not is that it
\* is down for good behind an empty key file.
Recovers ==
    (pc = "down" /\ runs + Spare <= MaxRuns) ~> (pc = "running" \/ Wedged)
=============================================================================
