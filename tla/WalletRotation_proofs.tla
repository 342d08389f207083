------------------------ MODULE WalletRotation_proofs ------------------------
(***************************************************************************)
(* Why the key rotation never loses funds, for every batch size, any       *)
(* number of runs, faults and days, and transactions of every kind that    *)
(* land late: the inductive invariant behind NoFundsLost, RotateOnlyEmpty, *)
(* NoTransferToLostKey and SweptBeforeRefill.  These hold of CarefulSpec,  *)
(* whose operator edits batch_size only while today's batch is empty and   *)
(* waits for an old refill before the gate; without either TLC finds       *)
(* counterexamples.  Type correctness holds of Spec, whatever is done.     *)
(***************************************************************************)
EXTENDS WalletRotation, FiniteSetTheorems, TLAPS

Resolved == pc \notin {"down", "funder", "openFunder", "writeFunder"}
InBatch(k) == \E d \in Days, s \in Slots : batch[d][s] = k

Dist(t) == t \in mempool /\ t.kind = "dist"

\* A distribution its funder can still pay: that funder is the current one.
Live(t) == Dist(t) /\ t.payer = fundFile

UnfundedFile(d, s) ==
    batch[d][s] \in Keys =>
        /\ bal[batch[d][s]] = 0
        /\ \A t \in mempool : Live(t) => t.credit[batch[d][s]] = 0

Unfunded(d) == \A s \in Slots : UnfundedFile(d, s)

\* What is_complete does not look at, the files beyond batch_size.
Beyond(d) == \A s \in Slots : s > size => UnfundedFile(d, s)

Fresh ==
    \A k \in Keys : k >= nextKey =>
        /\ bal[k] = 0 /\ fundFile # k /\ ~InBatch(k)
        /\ \A t \in mempool : t.payer # k /\ t.credit[k] = 0

\* No key serves both as a funder and as a child, or is in two files.
Apart ==
    /\ \A d, e \in Days, s, u \in Slots :
         batch[d][s] \in Keys /\ batch[d][s] = batch[e][u] => d = e /\ s = u
    /\ fundFile \in Keys => ~InBatch(fundFile)
    /\ \A t \in mempool : Dist(t) => ~InBatch(t.payer)

\* From the gate's reading until the last key it covered is replaced.
Gated ==
    /\ pc \in {"rotateFunder", "openFunder", "writeFunder", "rotateBatch"}
    /\ stage = "rotate"

TransfersOK ==
    \A t \in mempool :
        /\ t.kind = "sweep" => \A k \in Keys : t.credit[k] = 0
        /\ t.kind = "refill" =>
             /\ fundFile \in Keys /\ ~Gated
             /\ \A k \in Keys : t.credit[k] > 0 => k = fundFile
        /\ t.kind = "dist" =>
             /\ t.payer \in Keys /\ t.debit[t.payer] > 0
             /\ t.payer = fundFile => \A k \in Keys : t.credit[k] > 0 => InBatch(k)
             /\ t.payer # fundFile => bal[t.payer] = 0

\* What the process holds is what the disk holds.
MemoryOK ==
    /\ Resolved => funder \in Keys /\ fundFile = funder
    /\ pc = "openFunder" => fundFile = Absent
    /\ pc = "writeFunder" => fundFile = Blank
    /\ pc # "down" => size \in Sizes
    /\ \A s \in Slots : kids[s] \in Keys => kids[s] = batch[dir][s] /\ s <= size
    /\ \/ pc \in {"down", "funder", "batch", "clear", "open", "write"}
       \/ pc \in {"openFunder", "writeFunder"} /\ stage = "resolve"
       \/ \A s \in 1 .. size : kids[s] \in Keys
    /\ pc = "clear" => slot = 1
    /\ pc \in {"down", "clear"} => \A s \in Slots : kids[s] \notin Keys
    /\ pc \in {"open", "write"} => \A s \in Slots : s < slot => kids[s] \in Keys
    /\ pc = "open" => \A s \in Slots : s >= slot => batch[dir][s] = Absent
    /\ pc = "write" => batch[dir][slot] = Blank /\ \A s \in Slots : s > slot => batch[dir][s] = Absent
    /\ pc \in {"open", "write"} => slot <= size

StageOK ==
    /\ pc \in {"funder", "batch", "audit", "sweep", "verify"} => stage = "resolve"
    /\ pc \in {"rotateFunder", "rotateBatch", "refill", "awaitRefill", "distribute"}
         => stage = "rotate"

\* Directories only have files up to today.
DirsOK ==
    /\ dir <= day
    /\ \A d \in Days, s \in Slots : d > day => batch[d][s] = Absent
    /\ \/ pc \in {"down", "funder", "batch"}
       \/ pc \in {"openFunder", "writeFunder"} /\ stage = "resolve"
       \/ \A d \in Days, s \in Slots : d > dir => batch[d][s] = Absent

\* Today's batch has never been paid for unless it is complete, and what is left in
\* its directory beyond batch_size has not been either.
CleanOK ==
    /\ is_complete(day, size) \/ Unfunded(day)
    /\ Beyond(day)
    /\ pc \in {"clear", "open", "write"} => Unfunded(dir)

\* The gate's reading still holds while the keys it covered are replaced.
VerifiedOK ==
    /\ pc = "rotateFunder" /\ "funder" \in loaded => bal[funder] = 0
    /\ pc \in {"rotateFunder", "openFunder", "writeFunder", "rotateBatch"}
         /\ stage = "rotate" /\ "batch" \in loaded => \A s \in 1 .. size : bal[kids[s]] = 0

\* The current funder has not distributed yet.
NotYetDistributed ==
    \/ Resolved /\ stage = "resolve" /\ pc # "running" /\ "funder" \notin loaded
    \/ pc = "rotateFunder" /\ "funder" \notin loaded
    \/ pc \in {"rotateBatch", "clear", "open", "write", "refill", "awaitRefill", "distribute"}
         /\ stage = "rotate"
DistributedOK == NotYetDistributed => \A t \in mempool : ~Live(t)

\* What holds whatever the operator does.
Base == TypeOK /\ MemoryOK /\ StageOK

IInv ==
    /\ TypeOK /\ NoFundsLost
    /\ Fresh /\ Apart /\ TransfersOK /\ MemoryOK /\ StageOK /\ DirsOK
    /\ CleanOK /\ VerifiedOK /\ DistributedOK
-----------------------------------------------------------------------------
USE DEF Eater, Keys, Wallets, Days, Slots, Absent, Blank

\* What a distribution takes from the funder is a positive amount.
LEMMA AccountsFinite ==
    ASSUME TypeOK
    PROVE  /\ Cardinality(accounts) \in Nat
           /\ accounts # {} => Cardinality(accounts) > 0
<1>1. IsFiniteSet(Slots)
  BY FS_Interval, BoundsAssumption
<1>2. IsFiniteSet(accounts)
  BY <1>1, FS_Subset DEF TypeOK, ProcessType
<1> QED
  BY <1>2, FS_CardinalityType, FS_EmptySet

\* What a transaction debits and credits are amounts.
LEMMA TxFields ==
    ASSUME NEW t \in TxType
    PROVE  t.kind \in Kinds /\ t.debit \in [Wallets -> Nat] /\ t.credit \in [Wallets -> Nat]
  BY DEF TxType

\* A transaction that lands can be paid, so no balance goes below zero.
LEMMA LandBalances ==
    ASSUME TypeOK, NEW t \in mempool, Land(t)
    PROVE  bal' \in [Wallets -> Nat]
<1>1. t \in TxType /\ bal \in [Wallets -> Nat]
  BY DEF TypeOK, ChainType
<1>2. ASSUME NEW k \in Wallets PROVE (bal[k] - t.debit[k]) + t.credit[k] \in Nat
  <2>1. bal[k] \in Nat /\ t.debit[k] \in Nat /\ t.credit[k] \in Nat
    BY <1>1, TxFields
  <2>2. bal[k] >= t.debit[k]
    BY DEF Land, Payable
  <2> QED
    BY <2>1, <2>2
<1> QED
  BY <1>2 DEF Land

\* Each kind of transaction is a transaction.
LEMMA SweepTxType ==
    ASSUME TypeOK, NEW total \in Nat
    PROVE  SweepTx(total) \in TxType
  BY BoundsAssumption DEF TypeOK, ChainType, HostType, ProcessType, SweepTx, Transfer, Nothing, TxType, Kinds

LEMMA RefillTxType ==
    ASSUME TypeOK, funder \in Keys
    PROVE  RefillTx \in TxType
  BY BoundsAssumption, AmountsAssumption DEF TypeOK, ChainType, HostType, ProcessType, RefillTx, Transfer, Nothing, TxType, Kinds

LEMMA DistributeTxType ==
    ASSUME TypeOK, funder \in Keys
    PROVE  DistributeTx \in TxType
<1>1. ChildAmount * Cardinality(accounts) \in Nat
  BY AccountsFinite, AmountsAssumption
<1> QED
  BY <1>1, BoundsAssumption, AmountsAssumption DEF TypeOK, ChainType, HostType, ProcessType, DistributeTx, Transfer, Nothing, TxType, Kinds

\* A process that is gone remembers nothing.
LEMMA HaltType == TypeOK /\ Halt => ProcessType'
<1> SUFFICES ASSUME TypeOK, Halt PROVE ProcessType'
  OBVIOUS
<1> USE BoundsAssumption, AmountsAssumption DEF Halt, Nothing, NoKids
<1>1. loaded' \subseteq {"funder", "batch"} /\ accounts' \subseteq Slots
  BY Zenon
<1>2. funder' \in Keys \cup {Absent} /\ kids' \in [Slots -> Keys \cup {Absent}]
  OBVIOUS
<1>3. seen' \in [Wallets -> Nat] /\ work' \subseteq 0 .. MaxBatch
  OBVIOUS
<1>4. dir' \in Days /\ slot' \in Slots
  OBVIOUS
<1>5. size' \in Sizes \cup {0}
  BY DEF TypeOK, ProcessType
<1> QED
  BY <1>1, <1>2, <1>3, <1>4, <1>5 DEF ProcessType

LEMMA TypeInit == Init => TypeOK
<1> SUFFICES ASSUME Init PROVE TypeOK
  OBVIOUS
<1> USE BoundsAssumption, AmountsAssumption DEF Init, Nothing, NoKids, File
<1>1. DiskType /\ ChainType /\ HostType
  BY DEF DiskType, ChainType, HostType
<1>2. loaded \subseteq {"funder", "batch"}
  BY Zenon
<1>3. funder \in Keys \cup {Absent} /\ kids \in [Slots -> Keys \cup {Absent}]
  OBVIOUS
<1>4. seen \in [Wallets -> Nat] /\ work \subseteq 0 .. MaxBatch
  OBVIOUS
<1>5. dir \in Days /\ slot \in Slots
  OBVIOUS
<1>6. ProcessType
  BY <1>2, <1>3, <1>4, <1>5 DEF ProcessType
<1> QED
  BY <1>1, <1>6 DEF TypeOK

LEMMA ProcessTypeStep == TypeOK /\ MemoryOK /\ [Next]_vars => ProcessType'
<1> SUFFICES ASSUME TypeOK, MemoryOK, [Next]_vars PROVE ProcessType'
  OBVIOUS
<1> USE BoundsAssumption, AmountsAssumption
    DEF TypeOK, ProcessType, process, prepared, cursor, sweeping
<1>1. CASE UNCHANGED process
  BY <1>1
<1>2. CASE Bail \/ Crash
  BY <1>2, HaltType DEF Bail, Crash
<1>3. CASE Start
  BY <1>3 DEF Start
<1>4. CASE Midnight
  BY <1>4 DEF Midnight
<1>5. CASE LoadFunder
  BY <1>5 DEF LoadFunder
<1>6. CASE FunderMissing
  BY <1>6 DEF FunderMissing
<1>7. CASE RemoveFunder
  BY <1>7 DEF RemoveFunder
<1>8. CASE OpenFunder
  BY <1>8 DEF OpenFunder
<1>9. CASE WriteFunder
  BY <1>9 DEF WriteFunder, HostType
<1>10. CASE LoadBatch
  BY <1>10 DEF LoadBatch, DiskType, File, is_complete, HostType
<1>11. CASE CreateFresh
  BY <1>11 DEF CreateFresh, NoKids, HostType
<1>12. CASE ClearJson
  BY <1>12 DEF ClearJson
<1>13. CASE Cleared
  BY <1>13 DEF Cleared
<1>14. CASE OpenChild
  BY <1>14 DEF OpenChild
<1>15. CASE WriteChild
  <2>1. size \in Slots
    <3>1. size \in Sizes
      BY <1>15 DEF WriteChild, MemoryOK
    <3> QED
      BY <3>1
  <2>3. slot' \in Slots
    <3>1. slot' = 1 \/ (slot < size /\ slot' = slot + 1)
      BY <1>15 DEF WriteChild
    <3> QED
      BY <2>1, <3>1
  <2>2. kids' \in [Slots -> Keys \cup {Absent}]
    BY <1>15 DEF WriteChild, HostType
  <2> QED
    BY <1>15, <2>3, <2>2 DEF WriteChild
<1>16. CASE Audit
  BY <1>16 DEF Audit, ChainType, Senders
<1>17. CASE SkipChunk
  BY <1>17 DEF SkipChunk, Chunk
<1>18. CASE SendChunk
  <2>1. PICK total \in 0 .. Supply :
               /\ pending' = pending \cup {SweepTx(total)}
               /\ running_eater' = running_eater + total
    BY <1>18 DEF SendChunk
  <2>2. pending' \subseteq TxType
    BY <2>1, SweepTxType
  <2>3. running_eater' \in Nat
    BY <2>1
  <2>4. work' \subseteq 0 .. MaxBatch
    BY <1>18 DEF SendChunk
  <2> QED
    BY <1>18, <2>2, <2>3, <2>4 DEF SendChunk
<1>19. CASE FailChunk
  BY <1>19 DEF FailChunk, Chunk
<1>20. CASE Settled
  BY <1>20 DEF Settled
<1>21. CASE VerifyZero
  BY <1>21 DEF VerifyZero
<1>22. CASE KeepFunder
  BY <1>22 DEF KeepFunder
<1>23. CASE KeepBatch
  BY <1>23 DEF KeepBatch
<1>24. CASE SendRefill
  <2>1. funder \in Wallets
    BY <1>24 DEF SendRefill, MemoryOK, Resolved
  <2>2. target' \in Nat
    BY <1>24, <2>1 DEF SendRefill, ChainType
  <2> QED
    BY <1>24, <2>2 DEF SendRefill
<1>25. CASE RefillArrived
  BY <1>25 DEF RefillArrived
<1>26. CASE Distribute
  BY <1>26 DEF Distribute
<1>27. CASE FireBuys
  BY <1>27 DEF FireBuys
<1>28. CASE \E t \in mempool : Land(t)
  BY <1>28 DEF Land
<1> QED
  BY <1>1, <1>2, <1>3, <1>4, <1>5, <1>6, <1>7, <1>8, <1>9, <1>10, <1>11, <1>12, <1>13, <1>14, <1>15, <1>16, <1>17, <1>18, <1>19, <1>20, <1>21, <1>22, <1>23, <1>24, <1>25, <1>26, <1>27, <1>28
     DEF Next, Others, ResolveKeys, SweepWallets, RotateKeys, FundWallets, Settle, Trade, Drop, BuyLands, SellLands, vars,
         Stop, FunderUnreadable, BatchUnreadable, BadAssignment, SettleTimeout, Stranded, RefillRefused, RefillTimeout, DistributeRefused
\* The disk only ever holds what a key file can hold.
LEMMA DiskTypeStep == TypeOK /\ [Next]_vars => DiskType'
<1> SUFFICES ASSUME TypeOK, [Next]_vars PROVE DiskType'
  OBVIOUS
<1> USE BoundsAssumption
    DEF TypeOK, DiskType, HostType, File, disk
<1>1. CASE UNCHANGED disk
  BY <1>1
<1>2. CASE RemoveFunder
  BY <1>2 DEF RemoveFunder
<1>3. CASE OpenFunder
  BY <1>3 DEF OpenFunder
<1>4. CASE WriteFunder
  BY <1>4 DEF WriteFunder
<1>5. CASE ClearJson
  BY <1>5 DEF ClearJson, ProcessType
<1>6. CASE OpenChild
  BY <1>6 DEF OpenChild, ProcessType
<1>7. CASE WriteChild
  <2>1. fundFile \in File /\ batch \in [Days -> [Slots -> File]]
    OBVIOUS
  <2>2. nextKey \in File
    BY <1>7 DEF WriteChild
  <2>3. fundFile' = fundFile /\ batch' = [batch EXCEPT ![dir][slot] = nextKey]
    BY <1>7 DEF WriteChild
  <2>4. batch' \in [Days -> [Slots -> File]]
    BY <2>1, <2>2, <2>3 DEF File
  <2> QED
    BY <2>1, <2>3, <2>4
<1> QED
  BY <1>1, <1>2, <1>3, <1>4, <1>5, <1>6, <1>7
     DEF Next, Others, ResolveKeys, SweepWallets, RotateKeys, FundWallets, Settle,
         Trade, Start, Crash, Midnight, LoadFunder, FunderMissing, LoadBatch,
         CreateFresh, Cleared, Audit, SkipChunk, SendChunk, FailChunk, Settled,
         VerifyZero, KeepFunder, KeepBatch, SendRefill, RefillArrived, Distribute,
         FireBuys, Land, Drop, BuyLands, SellLands, Stop, FunderUnreadable,
         BatchUnreadable, BadAssignment, SettleTimeout, Stranded, RefillRefused,
         RefillTimeout, DistributeRefused, Bail, Halt, chain, host, prepared,
         cursor, sweeping, process, vars

\* The clock, the key counter and the two bounds stay in range.
LEMMA HostTypeStep == TypeOK /\ [Next]_vars => HostType'
<1> SUFFICES ASSUME TypeOK, [Next]_vars PROVE HostType'
  OBVIOUS
<1> USE BoundsAssumption
    DEF TypeOK, HostType, host
<1>1. CASE UNCHANGED host
  BY <1>1
<1>2. CASE Start
  BY <1>2 DEF Start
<1>3. CASE Crash
  BY <1>3 DEF Crash
<1>4. CASE Midnight
  BY <1>4 DEF Midnight
<1>5. CASE WriteFunder
  BY <1>5 DEF WriteFunder
<1>6. CASE WriteChild
  BY <1>6 DEF WriteChild
<1>7. CASE FailChunk
  BY <1>7 DEF FailChunk
<1>8. CASE \E t \in mempool : Drop(t)
  BY <1>8 DEF Drop
<1> QED
  BY <1>1, <1>2, <1>3, <1>4, <1>5, <1>6, <1>7, <1>8
     DEF Next, Others, ResolveKeys, SweepWallets, RotateKeys, FundWallets, Settle,
         Trade, LoadFunder, FunderMissing, RemoveFunder, OpenFunder, LoadBatch,
         CreateFresh, ClearJson, Cleared, OpenChild, Audit, SkipChunk, SendChunk,
         Settled, VerifyZero, KeepFunder, KeepBatch, SendRefill, RefillArrived,
         Distribute, FireBuys, Land, BuyLands, SellLands, Stop, FunderUnreadable,
         BatchUnreadable, BadAssignment, SettleTimeout, Stranded, RefillRefused,
         RefillTimeout, DistributeRefused, Bail, Halt, disk, chain, prepared,
         cursor, sweeping, process, vars

\* Balances stay natural numbers: nothing lands that cannot be paid.
LEMMA ChainTypeStep == TypeOK /\ MemoryOK /\ [Next]_vars => ChainType'
<1> SUFFICES ASSUME TypeOK, MemoryOK, [Next]_vars PROVE ChainType'
  OBVIOUS
<1> USE BoundsAssumption, AmountsAssumption
    DEF TypeOK, ChainType, chain
<1>1. CASE UNCHANGED chain
  BY <1>1
<1>2. CASE Start
  BY <1>2 DEF Start
<1>3. CASE SendChunk
  BY <1>3, SweepTxType DEF SendChunk
<1>4. CASE FailChunk
  BY <1>4, SweepTxType DEF FailChunk
<1>5. CASE SendRefill
  BY <1>5, RefillTxType DEF SendRefill, MemoryOK, Resolved
<1>6. CASE Distribute
  BY <1>6, DistributeTxType DEF Distribute, MemoryOK, Resolved
<1>7. CASE \E t \in mempool : Land(t)
  <2>1. PICK t \in mempool : Land(t)
    BY <1>7
  <2>2. bal' \in [Wallets -> Nat]
    BY <2>1, LandBalances
  <2> QED
    BY <2>1, <2>2 DEF Land
<1>8. CASE \E t \in mempool : Drop(t)
  BY <1>8 DEF Drop
<1>9. CASE FireBuys
  BY <1>9 DEF FireBuys
<1>10. CASE \E k \in Keys : BuyLands(k)
  BY <1>10 DEF BuyLands
<1>11. CASE \E k \in Keys : SellLands(k)
  BY <1>11 DEF SellLands
<1> QED
  BY <1>1, <1>2, <1>3, <1>4, <1>5, <1>6, <1>7, <1>8, <1>9, <1>10, <1>11
     DEF Next, Others, ResolveKeys, SweepWallets, RotateKeys, FundWallets, Settle,
         Trade, Crash, Midnight, LoadFunder, FunderMissing, RemoveFunder,
         OpenFunder, WriteFunder, LoadBatch, CreateFresh, ClearJson, Cleared,
         OpenChild, WriteChild, Audit, SkipChunk, Settled, VerifyZero, KeepFunder,
         KeepBatch, RefillArrived, Stop, FunderUnreadable, BatchUnreadable,
         BadAssignment, SettleTimeout, Stranded, RefillRefused, RefillTimeout,
         DistributeRefused, Bail, Halt, disk, host, prepared, cursor, sweeping,
         process, vars

LEMMA TypeStep == TypeOK /\ MemoryOK /\ [Next]_vars => TypeOK'
  BY DiskTypeStep, HostTypeStep, ChainTypeStep, ProcessTypeStep DEF TypeOK
\* What a step does to the files and the chain: nothing, or one of these.
Quiet == UNCHANGED <<disk, bal, mempool, nextKey>>
FileStep ==
    RemoveFunder \/ OpenFunder \/ WriteFunder \/ ClearJson \/ OpenChild \/ WriteChild
SendStep == Start \/ SendChunk \/ FailChunk \/ SendRefill \/ Distribute
LandStep == \E t \in mempool : Land(t) \/ Drop(t)
TradeStep == \E k \in Keys : BuyLands(k) \/ SellLands(k)

LEMMA Frame ==
    [Next]_vars => Quiet \/ FileStep \/ SendStep \/ LandStep \/ TradeStep
  BY DEF Next, Others, ResolveKeys, SweepWallets, RotateKeys, FundWallets, Settle, Trade,
         Quiet, FileStep, SendStep, LandStep, TradeStep, Crash, Midnight, LoadFunder,
         FunderMissing, LoadBatch, CreateFresh, Cleared, Audit, SkipChunk, Settled,
         VerifyZero, KeepFunder, KeepBatch, RefillArrived, FireBuys, Stop,
         FunderUnreadable, BatchUnreadable, BadAssignment, SettleTimeout, Stranded,
         RefillRefused, RefillTimeout, DistributeRefused, Bail, Halt, disk, chain, host,
         prepared, cursor, sweeping, process, vars

\* In a file step the chain does not move, in any other the files do not.
LEMMA FileFrame == FileStep => UNCHANGED <<bal, mempool>>
  BY DEF FileStep, RemoveFunder, OpenFunder, WriteFunder, ClearJson, OpenChild, WriteChild,
         chain

LEMMA ChainFrame == SendStep \/ LandStep \/ TradeStep => UNCHANGED <<disk, nextKey>>
  BY DEF SendStep, LandStep, TradeStep, Start, SendChunk, FailChunk, SendRefill, Distribute,
         Land, Drop, BuyLands, SellLands, disk, host

\* What is sent or dropped moves no balance yet.
LEMMA SendFrame == SendStep \/ (\E t \in mempool : Drop(t)) => UNCHANGED bal
  BY DEF SendStep, Start, SendChunk, FailChunk, SendRefill, Distribute, Drop, chain

LEMMA TradeFrame == TradeStep => UNCHANGED mempool
  BY DEF TradeStep, BuyLands, SellLands, chain
-----------------------------------------------------------------------------
\* A transaction that can be paid credits only wallets whose key is on disk, and no
\* funder but the current one.
LEMMA PayableCredits ==
    ASSUME IInv, NEW t \in mempool, Payable(t), NEW k \in Keys, t.credit[k] > 0
    PROVE  /\ InBatch(k) \/ k = fundFile
           /\ t.kind \in {"refill", "dist"}
           /\ t.kind = "dist" => Live(t) /\ InBatch(k)
<1>1. t.kind \in Kinds
  <2>1. t \in TxType
    BY DEF IInv, TypeOK, ChainType
  <2> QED
    BY <2>1, TxFields
<1>2. t.kind # "sweep"
  BY DEF IInv, TransfersOK
<1>3. CASE t.kind = "refill"
  BY <1>3 DEF IInv, TransfersOK
<1>4. CASE t.kind = "dist"
  <2>1. t.payer \in Keys /\ t.debit[t.payer] > 0 /\ bal[t.payer] >= t.debit[t.payer]
    BY <1>4 DEF IInv, TransfersOK, Payable
  <2>2. t.payer = fundFile
    <3>1. bal[t.payer] # 0
      <4>1. t \in TxType /\ t.payer \in Wallets
        BY <2>1, BoundsAssumption DEF IInv, TypeOK, ChainType
      <4>2. t.debit[t.payer] \in Nat
        BY <4>1, TxFields
      <4> QED
        BY <2>1, <4>2
    <3> QED
      BY <1>4, <3>1 DEF IInv, TransfersOK
  <2> QED
    BY <1>4, <2>2 DEF IInv, TransfersOK, Live, Dist
<1> QED
  BY <1>1, <1>2, <1>3, <1>4 DEF Kinds

LEMMA LandCredits ==
    ASSUME IInv, NEW t \in mempool, Land(t), NEW k \in Keys, t.credit[k] > 0
    PROVE  /\ InBatch(k) \/ k = fundFile
           /\ t.kind \in {"refill", "dist"}
           /\ t.kind = "dist" => Live(t) /\ InBatch(k)
  BY PayableCredits DEF Land

\* A wallet that is empty and not credited stays empty.
LEMMA LandEmpty ==
    ASSUME TypeOK, NEW t \in mempool, Land(t), NEW k \in Keys, ~(t.credit[k] > 0)
    PROVE  bal'[k] <= bal[k] /\ (bal[k] = 0 => bal'[k] = 0)
<1>0. t \in TxType /\ bal \in [Wallets -> Nat]
  BY DEF TypeOK, ChainType
<1>1. t.credit[k] \in Nat /\ t.debit[k] \in Nat /\ bal[k] \in Nat /\ k \in Wallets
  <2>1. k \in Wallets
    BY BoundsAssumption
  <2> QED
    BY <1>0, <2>1, TxFields
<1>2. bal'[k] = (bal[k] - t.debit[k]) + t.credit[k] /\ bal[k] >= t.debit[k]
  BY <1>1 DEF Land, Payable
<1> QED
  BY <1>1, <1>2

\* Trading neither empties a funded wallet nor funds an empty one.
LEMMA TradeKeepsFunded ==
    ASSUME TypeOK, TradeStep, NEW k \in Keys
    PROVE  (bal'[k] > 0 <=> bal[k] > 0) /\ (bal'[k] = 0 <=> bal[k] = 0)
<1>1. PICK q \in Keys : BuyLands(q) \/ SellLands(q)
  BY DEF TradeStep
<1>2. bal \in [Wallets -> Nat] /\ k \in Wallets /\ q \in Wallets
  BY BoundsAssumption DEF TypeOK, ChainType
<1>3. bal[k] \in Nat /\ bal[q] \in Nat
  BY <1>2
<1>4. CASE BuyLands(q)
  BY <1>2, <1>3, <1>4 DEF BuyLands
<1>5. CASE SellLands(q)
  BY <1>2, <1>3, <1>5 DEF SellLands
<1> QED
  BY <1>1, <1>4, <1>5

\* Changing one file leaves the others as they are.
LEMMA OneFile ==
    ASSUME TypeOK, NEW e \in Days, NEW u \in Slots, NEW STATE x,
           batch' = [batch EXCEPT ![e][u] = x],
           NEW d \in Days, NEW s \in Slots
    PROVE  batch'[d][s] = IF d = e /\ s = u THEN x ELSE batch[d][s]
<1>1. batch[d] \in [Slots -> File] /\ batch[e] \in [Slots -> File]
  BY DEF TypeOK, DiskType
<1> QED
  BY <1>1 DEF TypeOK, DiskType

\* The file that a child step fills holds no key yet.
LEMMA ChildFile ==
    ASSUME Base, OpenChild \/ WriteChild
    PROVE  /\ dir \in Days /\ slot \in Slots
           /\ batch[dir][slot] \in {Absent, Blank} /\ batch[dir][slot] \notin Keys
           /\ fundFile' = fundFile
           /\ OpenChild => \A d \in Days, s \in Slots :
                batch'[d][s] = IF d = dir /\ s = slot THEN Blank ELSE batch[d][s]
           /\ WriteChild => \A d \in Days, s \in Slots :
                batch'[d][s] = IF d = dir /\ s = slot THEN nextKey ELSE batch[d][s]
<1>1. dir \in Days /\ slot \in Slots /\ TypeOK
  BY DEF Base, TypeOK, ProcessType
<1>2. batch \in [Days -> [Slots -> File]]
  BY <1>1 DEF TypeOK, DiskType
<1>3. ASSUME OpenChild, NEW d \in Days, NEW s \in Slots
      PROVE  batch'[d][s] = IF d = dir /\ s = slot THEN Blank ELSE batch[d][s]
  BY <1>1, <1>2, <1>3 DEF OpenChild
<1>4. ASSUME WriteChild, NEW d \in Days, NEW s \in Slots
      PROVE  batch'[d][s] = IF d = dir /\ s = slot THEN nextKey ELSE batch[d][s]
  BY <1>1, <1>2, <1>4 DEF WriteChild
<1> QED
  BY <1>1, <1>3, <1>4 DEF OpenChild, WriteChild, Base, MemoryOK

LEMMA IsBase == IInv => Base
  BY DEF IInv, Base

LEMMA NoFundsLostStep == IInv /\ [Next]_vars => NoFundsLost'
<1> SUFFICES ASSUME IInv, [Next]_vars PROVE NoFundsLost'
  OBVIOUS
<1> SUFFICES ASSUME NEW k \in Keys, bal'[k] > 0 PROVE OnDisk(k)'
  BY DEF NoFundsLost
<1>0. bal[k] > 0 => OnDisk(k)
  BY DEF IInv, NoFundsLost
<1>1. CASE Quiet
  BY <1>0, <1>1 DEF Quiet, disk, OnDisk
<1>2. CASE FileStep
  <2>0. bal[k] > 0 /\ OnDisk(k) /\ bal[k] # 0
    BY <1>0, <1>2, FileFrame
  <2>1. CASE RemoveFunder
    <3>1. k # fundFile
      BY <2>0, <2>1 DEF RemoveFunder, IInv, MemoryOK, VerifiedOK, Resolved
    <3> QED
      BY <2>0, <2>1, <3>1 DEF RemoveFunder, OnDisk
  <2>2. CASE OpenFunder \/ WriteFunder
    BY <2>0, <2>2 DEF OpenFunder, WriteFunder, IInv, MemoryOK, OnDisk
  <2>3. CASE ClearJson
    <3>1. Unfunded(dir)
      BY <2>3 DEF ClearJson, IInv, CleanOK
    <3>2. \A s \in Slots : batch[dir][s] # k
      BY <2>0, <3>1 DEF Unfunded, UnfundedFile
    <3> QED
      BY <2>0, <2>3, <3>2 DEF ClearJson, OnDisk, IInv, TypeOK, DiskType
  <2>4. CASE OpenChild \/ WriteChild
    <3>1. batch[dir][slot] \in {Absent, Blank}
      BY <2>4, ChildFile, IsBase
    <3>2. CASE fundFile = k
      BY <2>4, <3>2 DEF OpenChild, WriteChild, OnDisk
    <3>3. CASE fundFile # k
      <4>1. PICK d \in Days, s \in Slots : batch[d][s] = k
        BY <2>0, <3>3 DEF OnDisk
      <4>2. ~(d = dir /\ s = slot)
        BY <3>1, <4>1
      <4>3. batch'[d][s] = k
        BY <2>4, <4>1, <4>2, ChildFile, IsBase
      <4> QED
        BY <4>3 DEF OnDisk
    <3> QED
      BY <3>2, <3>3
  <2> QED
    BY <1>2, <2>1, <2>2, <2>3, <2>4 DEF FileStep
<1>3. CASE SendStep \/ \E t \in mempool : Drop(t)
  BY <1>0, <1>3, SendFrame, ChainFrame DEF LandStep, disk, OnDisk
<1>4. CASE \E t \in mempool : Land(t)
  <2>1. PICK t \in mempool : Land(t)
    BY <1>4
  <2>2. bal[k] > 0 \/ t.credit[k] > 0
    BY <2>1, LandEmpty DEF IInv, TypeOK, ChainType
  <2>3. OnDisk(k)
    BY <1>0, <2>1, <2>2, LandCredits DEF OnDisk, InBatch
  <2> QED
    BY <2>1, <2>3 DEF Land, disk, OnDisk
<1>5. CASE TradeStep
  BY <1>0, <1>5, TradeKeepsFunded, ChainFrame DEF IInv, disk, OnDisk
<1> QED
  BY <1>1, <1>2, <1>3, <1>4, <1>5, Frame DEF LandStep
\* What a send step adds to the mempool.
LEMMA NewTransfer ==
    ASSUME IInv, SendStep, NEW t \in mempool', t \notin mempool
    PROVE  \/ /\ t.kind = "sweep" /\ t.payer = Eater
              /\ \A k \in Keys : t.credit[k] = 0
           \/ /\ t.kind = "refill" /\ t.payer = Eater /\ SendRefill
              /\ fundFile \in Keys /\ \A k \in Keys : k # fundFile => t.credit[k] = 0
           \/ /\ t.kind = "dist" /\ Distribute
              /\ t.payer = fundFile /\ fundFile \in Keys /\ t.debit[t.payer] > 0
              /\ \A k \in Keys : \/ t.credit[k] = 0
                                \/ \E s \in Slots : s <= size /\ batch[dir][s] = k
<1> USE BoundsAssumption, AmountsAssumption
<1>1. CASE Start
  BY <1>1 DEF Start
<1>2. CASE SendChunk \/ FailChunk
  <2>1. PICK total \in 0 .. Supply : t = SweepTx(total)
    BY <1>2 DEF SendChunk, FailChunk
  <2> QED
    BY <2>1 DEF SweepTx, Transfer, Nothing
<1>3. CASE SendRefill
  <2>1. t = RefillTx /\ funder = fundFile /\ funder \in Keys
    BY <1>3 DEF SendRefill, IInv, MemoryOK, Resolved
  <2> QED
    BY <1>3, <2>1 DEF RefillTx, Transfer, Nothing
<1>4. CASE Distribute
  <2>1. t = DistributeTx /\ accounts # {} /\ funder = fundFile /\ funder \in Keys
    BY <1>4 DEF Distribute, IInv, MemoryOK, Resolved
  <2>2. ChildAmount * Cardinality(accounts) > 0
    <3>1. Cardinality(accounts) \in Nat /\ Cardinality(accounts) > 0
      BY <2>1, AccountsFinite DEF IInv
    <3> QED
      BY <3>1
  <2>3. t.kind = "dist" /\ t.payer = fundFile /\ t.debit[t.payer] > 0
    BY <2>1, <2>2 DEF DistributeTx, Transfer, Nothing
  <2>4. ASSUME NEW k \in Keys
        PROVE  t.credit[k] = 0 \/ \E s \in Slots : s <= size /\ batch[dir][s] = k
    <3>1. t.credit[k] = IF k \in Recipients THEN ChildAmount ELSE 0
      BY <2>1 DEF DistributeTx, Transfer
    <3>2. CASE k \in Recipients
      <4>0. accounts \subseteq Slots
        BY DEF IInv, TypeOK, ProcessType
      <4>1. PICK s \in Slots : kids[s] = k
        BY <3>2, <4>0 DEF Recipients
      <4> QED
        BY <4>1 DEF IInv, MemoryOK
    <3> QED
      BY <3>1, <3>2
  <2> QED
    BY <1>4, <2>1, <2>3, <2>4
<1> QED
  BY <1>1, <1>2, <1>3, <1>4 DEF SendStep

\* Everything but a send step only takes transactions away.
LEMMA FewerTransfers ==
    Quiet \/ FileStep \/ LandStep \/ TradeStep => mempool' \subseteq mempool
  BY FileFrame, TradeFrame DEF Quiet, LandStep, Land, Drop

\* A key is on a file it was not on before only because it has just been minted.
LEMMA FileKeys ==
    ASSUME IInv, [Next]_vars, NEW k \in Keys
    PROVE  /\ fundFile' = k => fundFile = k \/ (WriteFunder /\ k = nextKey)
           /\ InBatch(k)' => InBatch(k) \/ (WriteChild /\ k = nextKey)
<1>1. CASE Quiet \/ SendStep \/ LandStep \/ TradeStep
  BY <1>1, ChainFrame DEF Quiet, disk, InBatch
<1>2. CASE RemoveFunder \/ OpenFunder \/ WriteFunder
  BY <1>2 DEF RemoveFunder, OpenFunder, WriteFunder, InBatch
<1>3. CASE ClearJson
  <2>1. PICK s \in Slots : batch' = [batch EXCEPT ![dir][s] = Absent]
    BY <1>3 DEF ClearJson
  <2>2. dir \in Days
    BY DEF IInv, TypeOK, ProcessType
  <2>3. \A d \in Days, u \in Slots : batch'[d][u] = k => batch[d][u] = k
    BY <2>1, <2>2, OneFile DEF IInv
  <2> QED
    BY <1>3, <2>3 DEF ClearJson, InBatch
<1>4. CASE OpenChild
  <2>1. \A d \in Days, u \in Slots : batch'[d][u] = k => batch[d][u] = k
    BY <1>4, ChildFile, IsBase
  <2> QED
    BY <1>4, <2>1, ChildFile, IsBase DEF InBatch
<1>5. CASE WriteChild
  <2>1. \A d \in Days, u \in Slots : batch'[d][u] = k => batch[d][u] = k \/ k = nextKey
    BY <1>5, ChildFile, IsBase
  <2> QED
    BY <1>5, <2>1, ChildFile, IsBase DEF InBatch
<1> QED
  BY <1>1, <1>2, <1>3, <1>4, <1>5, Frame DEF FileStep

LEMMA KeyCounter ==
    ASSUME TypeOK, [Next]_vars
    PROVE  /\ nextKey' \in {nextKey, nextKey + 1} /\ nextKey \in Nat
           /\ WriteFunder \/ WriteChild => nextKey' = nextKey + 1 /\ nextKey \in Keys
<1>1. nextKey \in Nat /\ nextKey >= 1
  BY BoundsAssumption DEF TypeOK, HostType
<1> QED
  BY <1>1, Frame, ChainFrame, BoundsAssumption
     DEF Quiet, FileStep, RemoveFunder, OpenFunder, WriteFunder, ClearJson, OpenChild,
         WriteChild, host

LEMMA FreshStep == IInv /\ [Next]_vars => Fresh'
<1> SUFFICES ASSUME IInv, [Next]_vars, NEW k \in Keys, k >= nextKey'
             PROVE  /\ bal'[k] = 0 /\ fundFile' # k /\ ~InBatch(k)'
                    /\ \A t \in mempool' : t.payer # k /\ t.credit[k] = 0
  BY DEF Fresh
<1>0. k >= nextKey /\ (WriteFunder \/ WriteChild => k # nextKey)
  BY KeyCounter DEF IInv
<1>1. /\ bal[k] = 0 /\ fundFile # k /\ ~InBatch(k)
      /\ \A t \in mempool : t.payer # k /\ t.credit[k] = 0
  BY <1>0 DEF IInv, Fresh
<1>2. fundFile' # k /\ ~InBatch(k)'
  BY <1>0, <1>1, FileKeys
<1>3. bal'[k] = 0
  <2>1. CASE \E t \in mempool : Land(t)
    BY <1>1, <2>1, LandEmpty DEF IInv
  <2>2. CASE TradeStep
    BY <1>1, <2>2, TradeKeepsFunded DEF IInv
  <2> QED
    BY <1>1, <2>1, <2>2, Frame, FileFrame, SendFrame DEF Quiet, LandStep
<1>4. ASSUME NEW t \in mempool' PROVE t.payer # k /\ t.credit[k] = 0
  <2>1. CASE t \in mempool
    BY <1>1, <2>1
  <2>2. CASE t \notin mempool
    <3>1. SendStep
      BY <2>2, Frame, FewerTransfers
    <3>2. Eater # k
      OBVIOUS
    <3> QED
      BY <1>1, <2>2, <3>1, <3>2, NewTransfer DEF InBatch, IInv, TypeOK, ProcessType
  <2> QED
    BY <2>1, <2>2
<1> QED
  BY <1>2, <1>3, <1>4

LEMMA ApartStep == IInv /\ [Next]_vars => Apart'
<1> SUFFICES ASSUME IInv, [Next]_vars PROVE Apart'
  OBVIOUS
<1>0. nextKey \in Keys => /\ fundFile # nextKey /\ ~InBatch(nextKey)
                          /\ \A t \in mempool : t.payer # nextKey
  BY KeyCounter DEF IInv, Fresh
<1>1. fundFile' \in Keys => ~InBatch(fundFile)'
  <2> SUFFICES ASSUME fundFile' \in Keys, InBatch(fundFile)' PROVE FALSE
    OBVIOUS
  <2>1. \/ fundFile' = fundFile
        \/ WriteFunder /\ fundFile' = nextKey
    BY FileKeys
  <2>2. \/ \E d \in Days, s \in Slots : batch[d][s] = fundFile'
        \/ WriteChild /\ fundFile' = nextKey
    <3>1. \A k \in Keys : InBatch(k)' => InBatch(k) \/ (WriteChild /\ k = nextKey)
      BY FileKeys
    <3>2. InBatch(fundFile)' = \E d \in Days, s \in Slots : batch'[d][s] = fundFile'
      BY DEF InBatch
    <3> QED
      BY <3>1, <3>2 DEF InBatch
  <2> QED
    BY <1>0, <2>1, <2>2 DEF IInv, Apart, InBatch, WriteFunder, WriteChild
<1>2. ASSUME NEW t \in mempool', t.kind = "dist" PROVE ~InBatch(t.payer)'
  <2>1. t.payer \in Keys /\ ~InBatch(t.payer)
    <3>1. CASE t \in mempool
      BY <1>2, <3>1 DEF IInv, Apart, TransfersOK, Dist
    <3>2. CASE t \notin mempool
      BY <1>2, <3>2, Frame, FewerTransfers, NewTransfer DEF IInv, Apart
    <3> QED
      BY <3>1, <3>2
  <2>2. ~(WriteChild /\ t.payer = nextKey)
    <3>1. WriteChild => t \in mempool
      BY FileFrame DEF FileStep
    <3> QED
      BY <1>0, <2>1, <3>1
  <2> QED
    BY <2>1, <2>2, FileKeys DEF InBatch
<1>3. ASSUME NEW d \in Days, NEW e \in Days, NEW s \in Slots, NEW u \in Slots,
             batch'[d][s] \in Keys, batch'[d][s] = batch'[e][u]
      PROVE  d = e /\ s = u
  <2>1. CASE batch' = batch
    BY <1>3, <2>1 DEF IInv, Apart
  <2>2. CASE ClearJson
    <3>1. PICK v \in Slots : batch' = [batch EXCEPT ![dir][v] = Absent]
      BY <2>2 DEF ClearJson
    <3>2. dir \in Days
      BY DEF IInv, TypeOK, ProcessType
    <3> QED
      BY <1>3, <3>1, <3>2, OneFile DEF IInv, Apart
  <2>3. CASE OpenChild
    <3>1. /\ batch'[d][s] = IF d = dir /\ s = slot THEN Blank ELSE batch[d][s]
          /\ batch'[e][u] = IF e = dir /\ u = slot THEN Blank ELSE batch[e][u]
      BY <2>3, ChildFile, IsBase
    <3>2. batch'[d][s] = batch[d][s] /\ batch'[e][u] = batch[e][u]
      <4>1. Blank \notin Keys
        BY BoundsAssumption
      <4>2. batch'[d][s] # Blank /\ batch'[e][u] # Blank
        BY <1>3, <4>1
      <4> HIDE DEF Blank
      <4> QED
        BY <3>1, <4>2
    <3>3. batch[d][s] \in Keys /\ batch[d][s] = batch[e][u]
      BY <1>3, <3>2
    <3> QED
      BY <3>3 DEF IInv, Apart
  <2>4. CASE WriteChild
    <3>1. /\ batch'[d][s] = IF d = dir /\ s = slot THEN nextKey ELSE batch[d][s]
          /\ batch'[e][u] = IF e = dir /\ u = slot THEN nextKey ELSE batch[e][u]
      BY <2>4, ChildFile, IsBase
    <3>2. nextKey \in Keys
      BY <2>4, KeyCounter DEF IInv
    <3>3. batch[d][s] # nextKey /\ batch[e][u] # nextKey
      BY <1>0, <3>2 DEF InBatch
    <3>4. CASE (d = dir /\ s = slot) \/ (e = dir /\ u = slot)
      BY <1>3, <3>1, <3>3, <3>4
    <3>5. CASE ~(d = dir /\ s = slot) /\ ~(e = dir /\ u = slot)
      <4>1. batch[d][s] \in Keys /\ batch[d][s] = batch[e][u]
        BY <1>3, <3>1, <3>5
      <4> QED
        BY <4>1 DEF IInv, Apart
    <3> QED
      BY <3>4, <3>5
  <2> QED
    BY <2>1, <2>2, <2>3, <2>4, Frame, ChainFrame
       DEF Quiet, FileStep, RemoveFunder, OpenFunder, WriteFunder, disk
<1> QED
  BY <1>1, <1>2, <1>3 DEF Apart, Dist
-----------------------------------------------------------------------------
\* Where the process goes in a step: nowhere, down, or along one of the moves.
Still == UNCHANGED <<pc, stage, size, funder, kids, loaded, dir, slot>>
ResolveMove == LoadFunder \/ FunderMissing \/ LoadBatch \/ CreateFresh \/ Cleared
FileMove == RemoveFunder \/ OpenFunder \/ WriteFunder \/ OpenChild \/ WriteChild
SweepMove == Audit \/ Settled \/ VerifyZero \/ KeepFunder \/ KeepBatch
FundMove == SendRefill \/ RefillArrived \/ Distribute

StopMove ==
    \/ Crash \/ Stop \/ FunderUnreadable \/ BatchUnreadable \/ BadAssignment
    \/ SettleTimeout \/ Stranded \/ RefillRefused \/ RefillTimeout \/ DistributeRefused

LEMMA StopFrame == StopMove => Halt /\ UNCHANGED <<disk, chain, day, nextKey>>
  BY DEF StopMove, Crash, Stop, FunderUnreadable, BatchUnreadable, BadAssignment,
         SettleTimeout, Stranded, RefillRefused, RefillTimeout, DistributeRefused, Bail, host

LEMMA PcFrame ==
    [Next]_vars =>
      \/ Still /\ (ClearJson \/ ~FileMove) /\ (day' = day \/ day' = day + 1)
      \/ Start \/ StopMove \/ ResolveMove \/ FileMove \/ SweepMove \/ FundMove
<1> SUFFICES ASSUME [Next]_vars, ~Start, ~StopMove, ~ResolveMove, ~FileMove, ~SweepMove,
                    ~FundMove
             PROVE  Still /\ (day' = day \/ day' = day + 1)
  OBVIOUS
<1>1. \/ UNCHANGED vars \/ Midnight \/ ClearJson \/ SkipChunk \/ SendChunk \/ FailChunk
      \/ Settle \/ Trade
  BY DEF Next, Others, ResolveKeys, SweepWallets, RotateKeys, FundWallets, ResolveMove,
         FileMove, SweepMove, FundMove, StopMove
<1> QED
  BY <1>1 DEF Settle, Trade, Still, Midnight, ClearJson, SkipChunk, SendChunk, FailChunk,
              Land, Drop, FireBuys, BuyLands, SellLands, host, prepared, cursor, process, vars

LEMMA StageOKStep == Base /\ [Next]_vars => StageOK'
<1> SUFFICES ASSUME Base, [Next]_vars PROVE StageOK'
  OBVIOUS
<1> USE DEF Base, StageOK
<1>1. CASE Still
  BY <1>1 DEF Still
<1>2. CASE StopMove \/ Start
  BY <1>2, StopFrame DEF Halt, Start
<1>3. CASE ResolveMove
  BY <1>3 DEF ResolveMove, LoadFunder, FunderMissing, LoadBatch, CreateFresh, Cleared
<1>4. CASE FileMove
  BY <1>4 DEF FileMove, RemoveFunder, OpenFunder, WriteFunder, OpenChild, WriteChild,
              TypeOK, ProcessType
<1>5. CASE SweepMove
  BY <1>5 DEF SweepMove, Audit, Settled, VerifyZero, KeepFunder, KeepBatch
<1>6. CASE FundMove
  BY <1>6 DEF FundMove, SendRefill, RefillArrived, Distribute
<1> QED
  BY <1>1, <1>2, <1>3, <1>4, <1>5, <1>6, PcFrame

\* The two steps a careful operator has a hand in.
LEMMA OthersFrame == Others => size' = size /\ ~(pc = "verify" /\ pc' = "rotateFunder")
  BY DEF Others, ResolveKeys, SweepWallets, RotateKeys, FundWallets, Settle, Trade, Crash,
         Midnight, LoadFunder, FunderMissing, FunderUnreadable, RemoveFunder, OpenFunder,
         WriteFunder, LoadBatch, BatchUnreadable, CreateFresh, ClearJson, Cleared, OpenChild,
         WriteChild, Audit, BadAssignment, SkipChunk, SendChunk, FailChunk, Settled,
         SettleTimeout, Stranded, KeepFunder, KeepBatch, SendRefill, RefillRefused,
         RefillArrived, RefillTimeout, Distribute, DistributeRefused, Land, Drop, FireBuys,
         BuyLands, SellLands, Stop, Bail, Halt, prepared, process

LEMMA CarefulFrame ==
    [CarefulNext]_vars =>
        /\ [Next]_vars
        /\ size' # size => Start /\ Emptied(day)
        /\ pc = "verify" /\ pc' = "rotateFunder" => \A t \in mempool : t.kind # "refill"
<1> SUFFICES ASSUME [CarefulNext]_vars
             PROVE  /\ [Next]_vars
                    /\ size' # size => Start /\ Emptied(day)
                    /\ pc = "verify" /\ pc' = "rotateFunder"
                         => \A t \in mempool : t.kind # "refill"
  OBVIOUS
<1>1. CASE CarefulStart
  BY <1>1 DEF CarefulStart, Start, Next
<1>2. CASE CarefulVerify
  BY <1>2 DEF CarefulVerify, VerifyZero, Next, prepared
<1>3. CASE Others
  BY <1>3, OthersFrame DEF Next
<1>4. CASE UNCHANGED vars
  BY <1>4 DEF vars, process, prepared
<1> QED
  BY <1>1, <1>2, <1>3, <1>4 DEF CarefulNext

\* While a refill is under way the funder's file does not change, and no run gets
\* past the gate.
LEMMA RefillFrame ==
    ASSUME IInv, [CarefulNext]_vars, NEW t \in mempool, t.kind = "refill"
    PROVE  fundFile' = fundFile /\ ~Gated'
<1>0. [Next]_vars /\ fundFile \in Keys /\ ~Gated
  BY CarefulFrame DEF IInv, TransfersOK
<1>1. ~RemoveFunder /\ ~OpenFunder /\ ~WriteFunder
  BY <1>0, BoundsAssumption DEF RemoveFunder, OpenFunder, WriteFunder, IInv, StageOK, MemoryOK, Gated
<1>2. fundFile' = fundFile
  BY <1>0, <1>1, Frame, ChainFrame
     DEF Quiet, FileStep, ClearJson, OpenChild, WriteChild, disk
<1>3. ~VerifyZero
  BY CarefulFrame DEF VerifyZero
<1>4. ~Gated'
  BY <1>0, <1>1, <1>3, PcFrame, StopFrame
     DEF Gated, Still, Halt, Start, ResolveMove, FileMove, SweepMove, FundMove, LoadFunder,
         FunderMissing, LoadBatch, CreateFresh, Cleared, OpenChild, WriteChild, Audit,
         Settled, KeepFunder, KeepBatch, SendRefill, RefillArrived, Distribute, IInv, StageOK
<1> QED
  BY <1>2, <1>4

\* A wallet that a live distribution credits stays in its batch.
LEMMA LiveKept ==
    ASSUME IInv, [Next]_vars, NEW t \in mempool, Live(t),
           NEW k \in Keys, t.credit[k] > 0
    PROVE  InBatch(k)'
<1>1. PICK d \in Days, s \in Slots : batch[d][s] = k
  BY DEF IInv, TransfersOK, Live, Dist, InBatch
<1> SUFFICES batch'[d][s] = k
  BY DEF InBatch
<1>2. CASE batch' = batch
  BY <1>1, <1>2
<1>3. CASE ClearJson
  <2>1. PICK v \in Slots : batch' = [batch EXCEPT ![dir][v] = Absent]
    BY <1>3 DEF ClearJson
  <2>2. dir \in Days /\ Unfunded(dir)
    BY <1>3 DEF ClearJson, IInv, CleanOK, TypeOK, ProcessType
  <2>3. ~(d = dir /\ s = v)
    BY <1>1, <2>2 DEF Unfunded, UnfundedFile
  <2> QED
    BY <1>1, <2>1, <2>2, <2>3, OneFile DEF IInv
<1>4. CASE OpenChild \/ WriteChild
  BY <1>1, <1>4, ChildFile, IsBase
<1> QED
  BY <1>2, <1>3, <1>4, Frame, ChainFrame
     DEF Quiet, FileStep, RemoveFunder, OpenFunder, WriteFunder, disk

\* A funder that leaves its file is empty.
LEMMA FunderLeaves ==
    ASSUME IInv, [Next]_vars, fundFile \in Keys, fundFile' # fundFile
    PROVE  bal[fundFile] = 0 /\ bal' = bal /\ mempool' = mempool /\ fundFile' = Absent
<1>1. RemoveFunder
  BY Frame, ChainFrame, BoundsAssumption
     DEF Quiet, FileStep, OpenFunder, WriteFunder, ClearJson, OpenChild, WriteChild, disk,
         IInv, MemoryOK
<1> QED
  BY <1>1, FileFrame DEF FileStep, RemoveFunder, IInv, VerifiedOK, MemoryOK, Resolved

LEMMA TransfersOKStep == IInv /\ [CarefulNext]_vars => TransfersOK'
<1> SUFFICES ASSUME IInv, [CarefulNext]_vars, NEW t \in mempool'
             PROVE  /\ t.kind = "sweep" => \A k \in Keys : t.credit[k] = 0
                    /\ t.kind = "refill" =>
                         /\ fundFile' \in Keys /\ ~Gated'
                         /\ \A k \in Keys : t.credit[k] > 0 => k = fundFile'
                    /\ t.kind = "dist" =>
                         /\ t.payer \in Keys /\ t.debit[t.payer] > 0
                         /\ t.payer = fundFile' =>
                              \A k \in Keys : t.credit[k] > 0 => InBatch(k)'
                         /\ t.payer # fundFile' => bal'[t.payer] = 0
  BY DEF TransfersOK
<1>0. [Next]_vars
  BY CarefulFrame
<1>1. CASE t \notin mempool
  <2>1. SendStep
    BY <1>0, <1>1, Frame, FewerTransfers
  <2>2. fundFile' = fundFile /\ batch' = batch
    BY <2>1, ChainFrame DEF disk
  <2>3. SendRefill => ~Gated'
    BY DEF SendRefill, Gated
  <2>4. dir \in Days
    BY DEF IInv, TypeOK, ProcessType
  <2>5. \A k \in Keys : (\E s \in Slots : batch[dir][s] = k) => InBatch(k)'
    BY <2>2, <2>4 DEF InBatch
  <2> QED
    BY <1>1, <2>1, <2>2, <2>3, <2>5, NewTransfer
<1>2. CASE t \in mempool
  <2>1. t.kind = "sweep" => \A k \in Keys : t.credit[k] = 0
    BY <1>2 DEF IInv, TransfersOK
  <2>2. ASSUME t.kind = "refill"
        PROVE  /\ fundFile' \in Keys /\ ~Gated'
               /\ \A k \in Keys : t.credit[k] > 0 => k = fundFile'
    BY <1>2, <2>2, RefillFrame DEF IInv, TransfersOK
  <2>3. ASSUME t.kind = "dist"
        PROVE  /\ t.payer \in Keys /\ t.debit[t.payer] > 0
               /\ t.payer = fundFile' => \A k \in Keys : t.credit[k] > 0 => InBatch(k)'
               /\ t.payer # fundFile' => bal'[t.payer] = 0
    <3>1. t.payer \in Keys /\ t.debit[t.payer] > 0 /\ ~InBatch(t.payer)
      BY <1>2, <2>3 DEF IInv, TransfersOK, Apart, Dist
    <3>2. ASSUME t.payer = fundFile', NEW k \in Keys, t.credit[k] > 0 PROVE InBatch(k)'
      <4>1. t.payer = fundFile
        BY <1>0, <1>2, <3>1, <3>2, FileKeys DEF IInv, Fresh, WriteFunder, TypeOK, HostType
      <4> QED
        BY <1>2, <2>3, <3>2, <4>1, <1>0, LiveKept DEF Live, Dist
    <3>3. ASSUME t.payer # fundFile' PROVE bal'[t.payer] = 0
      <4>1. CASE t.payer = fundFile
        BY <3>1, <3>3, <4>1, <1>0, FunderLeaves
      <4>2. CASE t.payer # fundFile
        <5>1. bal[t.payer] = 0
          BY <1>2, <2>3, <4>2 DEF IInv, TransfersOK
        <5>2. CASE \E u \in mempool : Land(u)
          <6>1. PICK u \in mempool : Land(u)
            BY <5>2
          <6>2. ~(u.credit[t.payer] > 0)
            BY <3>1, <4>2, <6>1, LandCredits
          <6> QED
            BY <3>1, <5>1, <6>1, <6>2, LandEmpty DEF IInv
        <5>3. CASE TradeStep
          BY <3>1, <5>1, <5>3, TradeKeepsFunded DEF IInv
        <5> QED
          BY <1>0, <5>1, <5>2, <5>3, Frame, FileFrame, SendFrame DEF Quiet, LandStep
      <4> QED
        BY <4>1, <4>2
    <3> QED
      BY <3>1, <3>2, <3>3
  <2> QED
    BY <2>1, <2>2, <2>3
<1> QED
  BY <1>1, <1>2

\* Directories: one file changes at a time, in today's directory or the one being rebuilt.
LEMMA DirsOKStep == IInv /\ [Next]_vars => DirsOK'
<1> SUFFICES ASSUME IInv, [Next]_vars PROVE DirsOK'
  OBVIOUS
<1>0. /\ dir \in Days /\ day \in Days /\ slot \in Slots /\ dir <= day
      /\ dir' \in Days /\ day' \in Days /\ dir \in Nat /\ day \in Nat /\ dir' \in Nat /\ day' \in Nat
  <2>1. TypeOK /\ TypeOK' /\ dir <= day
    BY TypeStep DEF IInv, DirsOK
  <2>2. Days \subseteq Nat
    BY BoundsAssumption
  <2> QED
    BY <2>1, <2>2 DEF TypeOK, ProcessType, HostType
<1>1. day <= day' /\ dir' <= day'
  BY <1>0, PcFrame, StopFrame, BoundsAssumption
     DEF Still, Halt, Start, ResolveMove, FileMove, SweepMove, FundMove, LoadFunder,
         FunderMissing, LoadBatch, CreateFresh, Cleared, RemoveFunder, OpenFunder,
         WriteFunder, OpenChild, WriteChild, Audit, Settled, VerifyZero, KeepFunder,
         KeepBatch, SendRefill, RefillArrived, Distribute, host, cursor
\* A file that is there now was there before, or is the one a child step fills.
<1>2. ASSUME NEW d \in Days, NEW s \in Slots, batch'[d][s] # Absent
      PROVE  batch[d][s] # Absent \/ ((OpenChild \/ WriteChild) /\ d = dir /\ s = slot)
  <2>1. CASE batch' = batch
    BY <1>2, <2>1
  <2>2. CASE ClearJson
    <3>1. PICK v \in Slots : batch' = [batch EXCEPT ![dir][v] = Absent]
      BY <2>2 DEF ClearJson
    <3> QED
      BY <1>0, <1>2, <3>1, OneFile DEF IInv
  <2>3. CASE OpenChild \/ WriteChild
    BY <1>2, <2>3, ChildFile, IsBase
  <2> QED
    BY <2>1, <2>2, <2>3, Frame, ChainFrame
       DEF Quiet, FileStep, RemoveFunder, OpenFunder, WriteFunder, disk
<1>4. ASSUME NEW d \in Days, NEW s \in Slots, batch'[d][s] # Absent
      PROVE  d <= day'
  <2>1. d <= day
    BY <1>0, <1>2, <1>4 DEF IInv, DirsOK
  <2> QED
    BY <1>0, <1>1, <2>1
<1>5. \/ pc' \in {"down", "funder", "batch"}
      \/ pc' \in {"openFunder", "writeFunder"} /\ stage' = "resolve"
      \/ \A d \in Days, s \in Slots : d > dir' => batch'[d][s] = Absent
  <2> DEFINE Early == \/ pc \in {"down", "funder", "batch"}
                      \/ pc \in {"openFunder", "writeFunder"} /\ stage = "resolve"
             Above == \A d \in Days, s \in Slots : d > dir => batch[d][s] = Absent
  <2>0. Early \/ Above
    BY DEF IInv, DirsOK
  <2>1. CASE LoadBatch \/ CreateFresh
    BY <2>1 DEF LoadBatch, CreateFresh, disk, IInv, DirsOK
  <2>2. CASE ~LoadBatch /\ ~CreateFresh /\ ~Early'
    <3>1. dir' = dir /\ ~Early
      BY <2>2, PcFrame, StopFrame
         DEF Still, Halt, Start, ResolveMove, FileMove, SweepMove, FundMove, LoadFunder,
             FunderMissing, Cleared, RemoveFunder, OpenFunder, WriteFunder, OpenChild,
             WriteChild, Audit, Settled, VerifyZero, KeepFunder, KeepBatch, SendRefill,
             RefillArrived, Distribute, cursor, IInv, StageOK, TypeOK, ProcessType
    <3> QED
      BY <1>0, <1>2, <2>0, <3>1
  <2> QED
    BY <2>1, <2>2
<1> QED
  BY <1>0, <1>1, <1>4, <1>5 DEF DirsOK

\* The process: its keys are those of its files until the files are replaced.
LEMMA DistributedOKStep == IInv /\ [Next]_vars => DistributedOK'
<1> SUFFICES ASSUME IInv, [Next]_vars, NotYetDistributed', NEW t \in mempool', t.kind = "dist"
             PROVE  t.payer # fundFile'
  BY DEF DistributedOK, Live, Dist
<1>1. t \in mempool \/ Distribute
  BY Frame, FewerTransfers, NewTransfer
<1>2. ~Distribute
  BY DEF Distribute, NotYetDistributed, Resolved, IInv, StageOK
<1>3. t \in mempool /\ t.payer \in Keys
  BY <1>1, <1>2 DEF IInv, TransfersOK
<1>4. t.payer = fundFile' => fundFile' = fundFile
  BY <1>3, FileKeys DEF IInv, Fresh, WriteFunder, TypeOK, HostType
<1>5. CASE NotYetDistributed
  BY <1>3, <1>4, <1>5 DEF IInv, DistributedOK, Live, Dist
<1>6. CASE fundFile \notin Keys
  BY <1>3, <1>4, <1>6
<1>7. NotYetDistributed \/ fundFile \notin Keys \/ WriteFunder \/ RemoveFunder
  <2> USE DEF NotYetDistributed, Resolved, prepared
  <2>1. CASE Still
    BY <2>1 DEF Still
  <2>2. CASE StopMove \/ Start
    BY <2>2, StopFrame DEF Halt, Start
  <2>3. CASE ResolveMove
    BY <2>3 DEF ResolveMove, LoadFunder, FunderMissing, LoadBatch, CreateFresh, Cleared,
                IInv, StageOK, MemoryOK
  <2>4. CASE FileMove
    BY <2>4 DEF FileMove, OpenFunder, OpenChild, WriteChild, IInv, StageOK, MemoryOK
  <2>5. CASE SweepMove
    BY <2>5 DEF SweepMove, Audit, Settled, VerifyZero, KeepFunder, KeepBatch, IInv, StageOK
  <2>6. CASE FundMove
    BY <2>6 DEF FundMove, SendRefill, RefillArrived, Distribute, IInv, StageOK
  <2> QED
    BY <2>1, <2>2, <2>3, <2>4, <2>5, <2>6, PcFrame
<1>8. CASE WriteFunder
  BY <1>3, <1>4, <1>8, BoundsAssumption DEF WriteFunder, IInv, MemoryOK
<1>9. CASE RemoveFunder
  BY <1>3, <1>9, BoundsAssumption DEF RemoveFunder
<1> QED
  BY <1>5, <1>6, <1>7, <1>8, <1>9

LEMMA VerifiedOKStep == IInv /\ [Next]_vars => VerifiedOK'
<1> SUFFICES ASSUME IInv, [Next]_vars PROVE VerifiedOK'
  OBVIOUS
<1> DEFINE Rotating == pc \in {"rotateFunder", "openFunder", "writeFunder", "rotateBatch"}
                         /\ stage = "rotate" /\ "batch" \in loaded
\* Nothing can credit a verified wallet: no distribution is payable any more.
<1>1. ASSUME NEW k \in Keys, bal[k] = 0, k = fundFile \/ InBatch(k),
             pc \in {"rotateFunder", "openFunder", "writeFunder", "rotateBatch"},
             stage = "rotate"
      PROVE  bal'[k] = 0
  <2>1. CASE \E t \in mempool : Land(t)
    <3>1. PICK t \in mempool : Land(t)
      BY <2>1
    <3>2. t.kind = "dist" => ~Live(t)
      <4> SUFFICES ASSUME Live(t) PROVE FALSE
        OBVIOUS
      <4>1. t.payer = fundFile /\ fundFile \in Keys /\ t.debit[t.payer] > 0
        BY DEF Live, Dist, IInv, TransfersOK
      <4>2. pc = "rotateFunder" /\ "funder" \in loaded
        BY <1>1, <4>1, BoundsAssumption DEF IInv, DistributedOK, NotYetDistributed, MemoryOK
      <4>3. bal[t.payer] = 0
        BY <4>1, <4>2 DEF IInv, VerifiedOK, MemoryOK, Resolved
      <4>4. bal[t.payer] >= t.debit[t.payer] /\ t.debit[t.payer] \in Nat
        <5>1. t \in TxType /\ t.payer \in Wallets
          BY <4>1, BoundsAssumption DEF IInv, TypeOK, ChainType
        <5> QED
          BY <3>1, <5>1, TxFields DEF Land, Payable
      <4> QED
        BY <4>1, <4>3, <4>4
    <3>3. t.kind # "refill"
      BY <1>1 DEF IInv, TransfersOK, Gated
    <3>4. ~(t.credit[k] > 0)
      BY <3>1, <3>2, <3>3, LandCredits
    <3> QED
      BY <1>1, <3>1, <3>4, LandEmpty DEF IInv
  <2>2. CASE TradeStep
    BY <1>1, <2>2, TradeKeepsFunded DEF IInv
  <2> QED
    BY <1>1, <2>1, <2>2, Frame, FileFrame, SendFrame DEF Quiet, LandStep
<1>2. ASSUME pc' = "rotateFunder", "funder" \in loaded' PROVE bal'[funder'] = 0
  <2>1. \/ pc = "rotateFunder" /\ funder' = funder /\ loaded' = loaded
        \/ VerifyZero
    BY <1>2, PcFrame, StopFrame
       DEF Still, Halt, Start, ResolveMove, FileMove, SweepMove, FundMove, LoadFunder,
           FunderMissing, LoadBatch, CreateFresh, Cleared, RemoveFunder, OpenFunder,
           WriteFunder, OpenChild, WriteChild, Audit, Settled, KeepFunder,
           KeepBatch, SendRefill, RefillArrived, Distribute
  <2>2. CASE VerifyZero
    BY <1>2, <2>2 DEF VerifyZero, ToRotate, prepared, chain
  <2>3. CASE pc = "rotateFunder" /\ funder' = funder /\ loaded' = loaded
    BY <1>1, <1>2, <2>3 DEF IInv, VerifiedOK, MemoryOK, Resolved, StageOK
  <2> QED
    BY <2>1, <2>2, <2>3
<1>3. ASSUME Rotating', NEW s \in 1 .. size' PROVE bal'[kids'[s]] = 0
  <2>1. \/ Rotating /\ kids' = kids /\ size' = size
        \/ VerifyZero
    BY <1>3, PcFrame, StopFrame
       DEF Still, Halt, Start, ResolveMove, FileMove, SweepMove, FundMove, LoadFunder,
           FunderMissing, LoadBatch, CreateFresh, Cleared, RemoveFunder, OpenFunder,
           WriteFunder, OpenChild, WriteChild, Audit, Settled, KeepFunder,
           KeepBatch, SendRefill, RefillArrived, Distribute, prepared, IInv, StageOK,
           TypeOK, ProcessType
  <2>2. CASE VerifyZero
    BY <1>3, <2>2 DEF VerifyZero, ToRotate, prepared, chain
  <2>3. CASE Rotating /\ kids' = kids /\ size' = size
    <3>1. size \in Sizes /\ s \in Slots /\ dir \in Days
      BY <1>3, <2>3, BoundsAssumption DEF IInv, MemoryOK, TypeOK, ProcessType
    <3>2. kids[s] \in Keys /\ kids[s] = batch[dir][s] /\ bal[kids[s]] = 0
      BY <1>3, <2>3, <3>1 DEF IInv, MemoryOK, VerifiedOK
    <3>3. InBatch(kids[s])
      BY <3>1, <3>2 DEF InBatch
    <3> QED
      BY <1>1, <2>3, <3>2, <3>3
  <2> QED
    BY <2>1, <2>2, <2>3
<1> QED
  BY <1>2, <1>3 DEF VerifiedOK

LEMMA MemoryOKStep == Base /\ [Next]_vars => MemoryOK'
<1> SUFFICES ASSUME Base, [Next]_vars PROVE MemoryOK'
  OBVIOUS
<1>0. /\ dir \in Days /\ slot \in Slots /\ MemoryOK /\ StageOK /\ batch \in [Days -> [Slots -> File]]
      /\ kids \in [Slots -> Keys \cup {Absent}] /\ stage \in {"resolve", "rotate"}
      /\ size \in Sizes \cup {0} /\ Sizes \subseteq Slots /\ Slots \subseteq Nat
  BY BoundsAssumption DEF Base, TypeOK, ProcessType, DiskType
<1>1. /\ Resolved' => funder' \in Keys /\ fundFile' = funder'
      /\ pc' = "openFunder" => fundFile' = Absent
      /\ pc' = "writeFunder" => fundFile' = Blank
  <2>1. CASE Still
    <3>1. fundFile' = fundFile \/ FileMove
      BY Frame, ChainFrame DEF Quiet, FileStep, FileMove, ClearJson, disk
    <3>2. CASE fundFile' = fundFile
      BY <1>0, <2>1, <3>2 DEF Still, Resolved, MemoryOK
    <3>3. CASE FileMove
      BY <1>0, <2>1, <3>3 DEF Still, FileMove, RemoveFunder, OpenFunder, WriteFunder,
         OpenChild, WriteChild, Resolved, MemoryOK
    <3> QED
      BY <3>1, <3>2, <3>3
  <2>2. CASE StopMove \/ Start
    BY <2>2, StopFrame DEF Halt, Start, Resolved
  <2>3. CASE WriteFunder
    BY <2>3, KeyCounter DEF WriteFunder, Resolved, Base
  <2>4. CASE RemoveFunder \/ OpenFunder \/ OpenChild \/ WriteChild
    BY <1>0, <2>4 DEF RemoveFunder, OpenFunder, OpenChild, WriteChild, prepared, Resolved, MemoryOK
  <2>5. CASE ResolveMove
    BY <1>0, <2>5 DEF ResolveMove, LoadFunder, FunderMissing, LoadBatch, CreateFresh, Cleared,
       prepared, disk, Resolved, MemoryOK
  <2>6. CASE SweepMove \/ FundMove
    BY <1>0, <2>6 DEF SweepMove, FundMove, Audit, Settled, VerifyZero, KeepFunder, KeepBatch,
       SendRefill, RefillArrived, Distribute, prepared, disk, Resolved, MemoryOK
  <2> QED
    BY <2>1, <2>2, <2>3, <2>4, <2>5, <2>6, PcFrame DEF FileMove
<1>2. pc' # "down" => size' \in Sizes
  BY <1>0, PcFrame, StopFrame
     DEF Still, Halt, Start, ResolveMove, FileMove, SweepMove, FundMove, LoadFunder,
         FunderMissing, LoadBatch, CreateFresh, Cleared, RemoveFunder, OpenFunder,
         WriteFunder, OpenChild, WriteChild, Audit, Settled, VerifyZero, KeepFunder,
         KeepBatch, SendRefill, RefillArrived, Distribute,
         prepared, MemoryOK
<1>3. ASSUME NEW s \in Slots, kids'[s] \in Keys PROVE kids'[s] = batch'[dir'][s]
  <2>1. CASE WriteChild
    BY <1>0, <1>3, <2>1, ChildFile DEF WriteChild, MemoryOK
  <2>2. CASE OpenChild
    <3>1. kids'[s] = kids[s] /\ dir' = dir /\ kids[s] = batch[dir][s]
      BY <1>0, <1>3, <2>2 DEF OpenChild, prepared, cursor, MemoryOK
    <3> QED
      BY <1>0, <1>3, <2>2, <3>1, ChildFile
  <2>3. CASE ClearJson
    BY <1>0, <1>3, <2>3 DEF ClearJson, process, prepared, MemoryOK
  <2>4. CASE LoadBatch \/ CreateFresh
    <3>1. Absent \notin Keys
      BY BoundsAssumption
    <3>2. ~CreateFresh
      BY <1>3, <3>1 DEF CreateFresh, NoKids
    <3>3. dir' = day /\ batch' = batch /\ kids'[s] = IF s <= size THEN batch[day][s] ELSE Absent
      BY <2>4, <3>2 DEF LoadBatch, disk
    <3> QED
      BY <1>3, <3>1, <3>3
  <2>5. CASE StopMove
    BY <1>3, <2>5, StopFrame, BoundsAssumption DEF Halt, NoKids
  <2>6. CASE batch' = batch /\ dir' = dir /\ kids' = kids
    BY <1>0, <1>3, <2>6 DEF MemoryOK
  <2>7. ~ClearJson /\ ~OpenChild /\ ~WriteChild => batch' = batch
    BY Frame, ChainFrame DEF Quiet, FileStep, RemoveFunder, OpenFunder, WriteFunder, disk
  <2>8. \/ LoadBatch \/ CreateFresh \/ StopMove \/ WriteChild
        \/ dir' = dir /\ kids' = kids
    BY PcFrame
       DEF Still, Start, ResolveMove, FileMove, SweepMove, FundMove, LoadFunder,
         FunderMissing, Cleared, RemoveFunder, OpenFunder, WriteFunder, OpenChild,
         Audit, Settled, VerifyZero, KeepFunder, KeepBatch, SendRefill, RefillArrived,
         Distribute, prepared, cursor
  <2> QED
    BY <2>1, <2>2, <2>3, <2>4, <2>5, <2>6, <2>7, <2>8
<1>4. \/ pc' \in {"down", "funder", "batch", "clear", "open", "write"}
      \/ pc' \in {"openFunder", "writeFunder"} /\ stage' = "resolve"
      \/ \A s \in 1 .. size' : kids'[s] \in Keys
  <2>1. CASE WriteChild
    <3> SUFFICES ASSUME pc' # "open", NEW s \in 1 .. size' PROVE kids'[s] \in Keys
      BY <2>1 DEF WriteChild
    <3>1. size' = size /\ slot = size /\ s \in Slots /\ nextKey \in Keys
      BY <1>0, <2>1, KeyCounter, BoundsAssumption DEF WriteChild, MemoryOK, Base
    <3>2. s < slot \/ s = slot
      BY <1>0, <3>1
    <3> QED
      BY <1>0, <2>1, <3>1, <3>2 DEF WriteChild, MemoryOK
  <2>2. CASE LoadBatch
    <3> SUFFICES ASSUME NEW s \in 1 .. size' PROVE kids'[s] \in Keys
      OBVIOUS
    <3>1. size' = size /\ s \in 1 .. size /\ s \in Slots /\ day \in Days
      BY <1>0, <2>2, BoundsAssumption DEF LoadBatch, Base, TypeOK, HostType
    <3>2. batch[day][s] \in File /\ batch[day][s] # Absent /\ batch[day][s] # Blank
      BY <1>0, <2>2, <3>1 DEF LoadBatch, is_complete
    <3>3. kids'[s] = batch[day][s]
      BY <2>2, <3>1, BoundsAssumption DEF LoadBatch
    <3> QED
      BY <3>2, <3>3 DEF File
  <2>3. CASE ~WriteChild /\ ~LoadBatch
    BY <1>0, <2>3, PcFrame, StopFrame
       DEF Still, Halt, Start, ResolveMove, FileMove, SweepMove, FundMove, LoadFunder,
         FunderMissing, CreateFresh, Cleared, RemoveFunder, OpenFunder, WriteFunder,
         OpenChild, Audit, Settled, VerifyZero, KeepFunder, KeepBatch, SendRefill,
         RefillArrived, Distribute, prepared, MemoryOK, StageOK
  <2> QED
    BY <2>1, <2>2, <2>3
<1>5. /\ pc' = "clear" => slot' = 1
      /\ pc' \in {"down", "clear"} => \A s \in Slots : kids'[s] \notin Keys
  BY <1>0, PcFrame, StopFrame, BoundsAssumption
     DEF Still, Halt, Start, ResolveMove, FileMove, SweepMove, FundMove, LoadFunder,
         FunderMissing, LoadBatch, CreateFresh, Cleared, RemoveFunder, OpenFunder,
         WriteFunder, OpenChild, WriteChild, Audit, Settled, VerifyZero, KeepFunder,
         KeepBatch, SendRefill, RefillArrived, Distribute,
         prepared, cursor, NoKids, MemoryOK
<1>6. pc' \in {"open", "write"} => \A s \in Slots : s < slot' => kids'[s] \in Keys
  <2>1. CASE WriteChild
    <3> SUFFICES ASSUME NEW s \in Slots, pc' = "open", s < slot' PROVE kids'[s] \in Keys
      BY <2>1 DEF WriteChild
    <3>1. s < slot \/ s = slot
      BY <1>0, <2>1 DEF WriteChild
    <3>2. nextKey \in Keys
      BY <2>1, KeyCounter DEF Base
    <3> QED
      BY <1>0, <2>1, <3>1, <3>2 DEF WriteChild, MemoryOK
  <2>2. CASE Cleared
    BY <1>0, <2>2 DEF Cleared, prepared, cursor, MemoryOK
  <2>3. CASE ~WriteChild /\ ~Cleared
    BY <1>0, <2>3, PcFrame, StopFrame
       DEF Still, Halt, Start, ResolveMove, FileMove, SweepMove, FundMove, LoadFunder,
         FunderMissing, LoadBatch, CreateFresh, RemoveFunder, OpenFunder, WriteFunder,
         OpenChild, Audit, Settled, VerifyZero, KeepFunder, KeepBatch, SendRefill,
         RefillArrived, Distribute, prepared, cursor, MemoryOK
  <2> QED
    BY <2>1, <2>2, <2>3
<1>7. /\ pc' = "open" => \A s \in Slots : s >= slot' => batch'[dir'][s] = Absent
      /\ pc' = "write" => /\ batch'[dir'][slot'] = Blank
                          /\ \A s \in Slots : s > slot' => batch'[dir'][s] = Absent
  <2>1. CASE WriteChild
    <3> SUFFICES ASSUME NEW s \in Slots, pc' = "open", s >= slot' PROVE batch'[dir'][s] = Absent
      BY <2>1 DEF WriteChild
    <3>1. s > slot /\ s # slot /\ dir' = dir
      BY <1>0, <2>1 DEF WriteChild
    <3> QED
      BY <1>0, <2>1, <3>1, ChildFile DEF WriteChild, MemoryOK
  <2>2. CASE OpenChild
    <3>1. pc' = "write" /\ pc = "open" /\ dir' = dir /\ slot' = slot
      BY <2>2 DEF OpenChild, cursor
    <3>2. \A s \in Slots : s > slot => s >= slot /\ s # slot
      BY <1>0
    <3> QED
      BY <1>0, <2>2, <3>1, <3>2, ChildFile DEF MemoryOK
  <2>3. CASE Cleared
    BY <1>0, <2>3 DEF Cleared, disk, cursor, MemoryOK
  <2>4. CASE ~WriteChild /\ ~OpenChild /\ ~Cleared
    <3>1. pc' \in {"open", "write"} => pc' = pc /\ dir' = dir /\ slot' = slot
      BY <1>0, <2>4, PcFrame, StopFrame
         DEF Still, Halt, Start, ResolveMove, FileMove, SweepMove, FundMove, LoadFunder,
         FunderMissing, LoadBatch, CreateFresh, RemoveFunder, OpenFunder, WriteFunder,
         Audit, Settled, VerifyZero, KeepFunder, KeepBatch, SendRefill,
         RefillArrived, Distribute
    <3>2. pc \in {"open", "write"} => batch' = batch
      BY <2>4, Frame, ChainFrame DEF Quiet, FileStep, RemoveFunder, OpenFunder, WriteFunder,
         ClearJson, disk
    <3> QED
      BY <1>0, <3>1, <3>2 DEF MemoryOK
  <2> QED
    BY <2>1, <2>2, <2>3, <2>4
<1>8. pc' \in {"open", "write"} => slot' <= size'
  <2>1. CASE WriteChild
    <3>1. slot \in Nat /\ size \in Nat /\ size' = size
      BY <1>0, <2>1 DEF WriteChild
    <3> QED
      BY <2>1, <3>1 DEF WriteChild
  <2>2. CASE Cleared
    <3>1. size \in Slots /\ size' = size /\ slot' = 1
      BY <1>0, <2>2 DEF Cleared, prepared, cursor, MemoryOK
    <3> QED
      BY <3>1, BoundsAssumption
  <2>3. CASE ~WriteChild /\ ~Cleared
    BY <1>0, <2>3, PcFrame, StopFrame
       DEF Still, Halt, Start, ResolveMove, FileMove, SweepMove, FundMove, LoadFunder,
         FunderMissing, LoadBatch, CreateFresh, RemoveFunder, OpenFunder, WriteFunder,
         OpenChild, Audit, Settled, VerifyZero, KeepFunder, KeepBatch, SendRefill,
         RefillArrived, Distribute, prepared, cursor, MemoryOK
  <2> QED
    BY <2>1, <2>2, <2>3
<1>9. ASSUME NEW s \in Slots, kids'[s] \in Keys PROVE s <= size'
  <2>1. CASE WriteChild
    <3>1. slot <= size /\ size' = size
      BY <1>0, <2>1 DEF WriteChild, MemoryOK
    <3>2. s = slot \/ kids'[s] = kids[s]
      BY <1>0, <2>1 DEF WriteChild
    <3> QED
      BY <1>0, <1>9, <3>1, <3>2 DEF MemoryOK
  <2>2. CASE LoadBatch
    <3>1. Absent \notin Keys
      BY BoundsAssumption
    <3>2. kids'[s] = (IF s <= size THEN batch[day][s] ELSE Absent) /\ size' = size
      BY <2>2 DEF LoadBatch
    <3> QED
      BY <1>9, <3>1, <3>2
  <2>3. CASE CreateFresh \/ StopMove \/ Start
    BY <1>0, <1>9, <2>3, StopFrame, BoundsAssumption DEF CreateFresh, Halt, Start, NoKids, MemoryOK
  <2>4. CASE ~WriteChild /\ ~LoadBatch /\ ~CreateFresh /\ ~StopMove /\ ~Start
    <3>1. kids' = kids /\ size' = size
      BY <2>4, PcFrame
         DEF Still, ResolveMove, FileMove, SweepMove, FundMove, LoadFunder, FunderMissing,
         Cleared, RemoveFunder, OpenFunder, WriteFunder, OpenChild, Audit, Settled,
         VerifyZero, KeepFunder, KeepBatch, SendRefill, RefillArrived, Distribute, prepared
    <3> QED
      BY <1>0, <1>9, <3>1 DEF MemoryOK
  <2> QED
    BY <2>1, <2>2, <2>3, <2>4
<1> QED
  BY <1>1, <1>2, <1>3, <1>4, <1>5, <1>6, <1>7, <1>8, <1>9 DEF MemoryOK

\* A file that was never paid for stays so, but for the distribution that pays its slot.
LEMMA FileUnfundedKept ==
    ASSUME IInv, [Next]_vars, NEW d \in Days, NEW s \in Slots, UnfundedFile(d, s),
           ~(Distribute /\ d = dir /\ s <= size)
    PROVE  UnfundedFile(d, s)'
<1> SUFFICES ASSUME batch'[d][s] \in Keys
             PROVE  /\ bal'[batch'[d][s]] = 0
                    /\ \A t \in mempool' :
                         t.kind = "dist" /\ t.payer = fundFile' => t.credit[batch'[d][s]] = 0
  BY DEF UnfundedFile, Live, Dist
<1> DEFINE k == batch'[d][s]
<1>1. CASE WriteChild /\ k = nextKey
  <2>1. bal[k] = 0 /\ \A t \in mempool : t.credit[k] = 0
    BY <1>1, KeyCounter DEF IInv, Fresh
  <2> QED
    BY <1>1, <2>1, FileFrame DEF FileStep
<1>2. CASE ~(WriteChild /\ k = nextKey)
  <2>1. k = batch[d][s]
    <3>1. CASE ClearJson
      <4>1. PICK v \in Slots : batch' = [batch EXCEPT ![dir][v] = Absent]
        BY <3>1 DEF ClearJson
      <4>2. Absent \notin Keys /\ dir \in Days
        BY BoundsAssumption DEF IInv, TypeOK, ProcessType
      <4> QED
        BY <4>1, <4>2, OneFile DEF IInv
    <3>2. CASE OpenChild \/ WriteChild
      <4>1. Blank \notin Keys
        BY BoundsAssumption
      <4> QED
        BY <1>2, <3>2, <4>1, ChildFile, IsBase
    <3> QED
      BY <3>1, <3>2, Frame, ChainFrame
         DEF Quiet, FileStep, RemoveFunder, OpenFunder, WriteFunder, disk
  <2>2. k \in Keys /\ InBatch(k) /\ bal[k] = 0 /\ k # fundFile
    BY <2>1 DEF InBatch, UnfundedFile, IInv, Apart
  <2>3. bal'[k] = 0
    <3>1. CASE \E t \in mempool : Land(t)
      <4>1. PICK t \in mempool : Land(t)
        BY <3>1
      <4>2. ~(t.credit[k] > 0)
        <5>1. Live(t) => t.credit[k] = 0
          BY <2>1 DEF UnfundedFile
        <5>2. t.kind = "refill" => ~(t.credit[k] > 0)
          BY <2>2 DEF IInv, TransfersOK
        <5> QED
          BY <2>2, <4>1, <5>1, <5>2, LandCredits
      <4> QED
        BY <2>2, <4>1, <4>2, LandEmpty DEF IInv
    <3>2. CASE TradeStep
      BY <2>2, <3>2, TradeKeepsFunded DEF IInv
    <3> QED
      BY <2>2, <3>1, <3>2, Frame, FileFrame, SendFrame DEF Quiet, LandStep
  <2>4. ASSUME NEW t \in mempool', t.kind = "dist", t.payer = fundFile' PROVE t.credit[k] = 0
    <3>1. CASE t \in mempool
      <4>1. t.payer = fundFile
        BY <2>4, <3>1, FileKeys DEF IInv, TransfersOK, Fresh, WriteFunder, TypeOK, HostType
      <4> QED
        BY <2>1, <2>4, <3>1, <4>1 DEF UnfundedFile, Live, Dist
    <3>2. CASE t \notin mempool
      <4>1. SendStep
        BY <3>2, Frame, FewerTransfers
      <4>2. /\ Distribute
            /\ t.credit[k] = 0 \/ \E u \in Slots : u <= size /\ batch[dir][u] = k
        BY <2>2, <2>4, <3>2, <4>1, NewTransfer
      <4>3. \A u \in Slots : u <= size => batch[dir][u] # k
        BY <2>1, <2>2, <4>2 DEF IInv, Apart, TypeOK, ProcessType
      <4> QED
        BY <4>2, <4>3
    <3> QED
      BY <3>1, <3>2
  <2> QED
    BY <2>3, <2>4
<1> QED
  BY <1>1, <1>2

\* The same for a whole directory.
LEMMA UnfundedKept ==
    ASSUME IInv, [Next]_vars, NEW d \in Days, Unfunded(d), ~(Distribute /\ d = dir)
    PROVE  Unfunded(d)'
<1>1. ASSUME NEW s \in Slots PROVE UnfundedFile(d, s)'
  BY FileUnfundedKept DEF Unfunded
<1> QED
  BY <1>1 DEF Unfunded

\* The directory that is about to be rebuilt holds nothing worth keeping: an
\* incomplete batch was never paid for, and a complete one has been verified.
LEMMA FreshDirUnfunded ==
    ASSUME IInv, CreateFresh
    PROVE  Unfunded(day)
<1>0. day \in Days /\ dir \in Days /\ dir <= day /\ size \in Sizes /\ Absent \notin Keys
  BY BoundsAssumption DEF IInv, TypeOK, HostType, ProcessType, DirsOK, CreateFresh, MemoryOK
<1>1. CASE pc = "batch"
  BY <1>1 DEF CreateFresh, IInv, CleanOK
<1>2. CASE pc = "rotateBatch" /\ "batch" \in loaded
  <2>1. \A t \in mempool : ~Live(t)
    BY <1>2 DEF IInv, DistributedOK, NotYetDistributed, StageOK
  <2>2. ASSUME NEW s \in Slots, batch[day][s] \in Keys PROVE bal[batch[day][s]] = 0
    <3>1. CASE day = dir /\ s <= size
      <4>1. s \in 1 .. size
        BY <1>0, <3>1, BoundsAssumption
      <4>2. kids[s] \in Keys /\ bal[kids[s]] = 0
        BY <1>2, <4>1 DEF IInv, MemoryOK, VerifiedOK, StageOK
      <4> QED
        BY <3>1, <4>2 DEF IInv, MemoryOK
    <3>2. CASE s > size
      BY <2>2, <3>2 DEF IInv, CleanOK, Beyond, UnfundedFile
    <3>3. CASE day > dir
      BY <1>0, <1>2, <2>2, <3>3 DEF IInv, DirsOK
    <3> QED
      BY <1>0, <3>1, <3>2, <3>3, BoundsAssumption
  <2> QED
    BY <2>1, <2>2 DEF Unfunded, UnfundedFile
<1> QED
  BY <1>1, <1>2 DEF CreateFresh

LEMMA DayFrame == [Next]_vars => day' = day \/ Midnight
<1> SUFFICES ASSUME [Next]_vars, ~Midnight PROVE day' = day
  OBVIOUS
<1>1. CASE StopMove
  BY <1>1, StopFrame
<1>2. CASE Start \/ ResolveMove \/ FileMove \/ ClearJson
  BY <1>2 DEF Start, ResolveMove, FileMove, LoadFunder, FunderMissing, LoadBatch, CreateFresh,
              Cleared, RemoveFunder, OpenFunder, WriteFunder, OpenChild, WriteChild, ClearJson,
              host
<1>3. CASE SweepMove \/ SkipChunk \/ SendChunk \/ FailChunk \/ FundMove
  BY <1>3 DEF SweepMove, FundMove, Audit, Settled, VerifyZero, KeepFunder, KeepBatch,
              SkipChunk, SendChunk, FailChunk, SendRefill, RefillArrived, Distribute, host
<1>4. CASE Settle \/ Trade \/ UNCHANGED vars
  BY <1>4 DEF Settle, Trade, Land, Drop, FireBuys, BuyLands, SellLands, host, vars
<1> QED
  BY <1>1, <1>2, <1>3, <1>4
     DEF Next, Others, ResolveKeys, SweepWallets, RotateKeys, FundWallets, ResolveMove,
         FileMove, SweepMove, FundMove, StopMove

\* A batch that has all its files keeps them until create_fresh clears it.
LEMMA CompleteKept ==
    ASSUME IInv, [Next]_vars, day' = day, size' = size, is_complete(day, size), ~Unfunded(day)
    PROVE  is_complete(day, size)'
<1>0. dir \in Days /\ day \in Days /\ \A s \in 1 .. size : s \in Slots
  BY BoundsAssumption DEF IInv, TypeOK, HostType, ProcessType
<1>1. ~(ClearJson /\ day = dir)
  BY DEF ClearJson, IInv, CleanOK
<1>2. ASSUME NEW s \in Slots, batch[day][s] # Absent PROVE batch'[day][s] # Absent
  <2>1. CASE ClearJson
    <3>1. PICK v \in Slots : batch' = [batch EXCEPT ![dir][v] = Absent]
      BY <2>1 DEF ClearJson
    <3>2. batch'[day][s] = batch[day][s]
      BY <1>0, <1>1, <2>1, <3>1 DEF IInv, TypeOK, DiskType
    <3> QED
      BY <1>2, <3>2
  <2>2. CASE OpenChild \/ WriteChild
    BY <1>0, <1>2, <2>2, ChildFile, IsBase, KeyCounter, BoundsAssumption DEF IInv
  <2> QED
    BY <1>2, <2>1, <2>2, Frame, ChainFrame
       DEF Quiet, FileStep, RemoveFunder, OpenFunder, WriteFunder, disk
<1> QED
  BY <1>0, <1>2 DEF is_complete

\* batch_size only moves while today's batch is empty, so no funded file is ever
\* outside of what is_complete and the gate look at.
LEMMA CleanOKStep == IInv /\ [CarefulNext]_vars => CleanOK'
<1> SUFFICES ASSUME IInv, [CarefulNext]_vars PROVE CleanOK'
  OBVIOUS
<1>0. dir \in Days /\ day \in Days /\ [Next]_vars
  BY CarefulFrame DEF IInv, TypeOK, HostType, ProcessType
<1>1. ASSUME day' # day PROVE Unfunded(day)' /\ Beyond(day)'
  <2>1. batch' = batch /\ day' > day /\ day' \in Days
    BY <1>0, <1>1, DayFrame, BoundsAssumption DEF Midnight, disk
  <2>2. \A s \in Slots : batch'[day'][s] \notin Keys
    BY <2>1, BoundsAssumption DEF IInv, DirsOK
  <2> QED
    BY <2>2 DEF Unfunded, Beyond, UnfundedFile
<1>2. ASSUME size' # size PROVE Unfunded(day)' /\ Beyond(day)'
  <2>1. Start /\ Emptied(day)
    BY <1>2, CarefulFrame
  <2>2. UNCHANGED <<disk, bal, day>> /\ mempool' \subseteq mempool
    BY <2>1 DEF Start
  <2> QED
    BY <2>1, <2>2 DEF Emptied, Unfunded, Beyond, UnfundedFile, Live, Dist, disk
<1>3. ASSUME day' = day, size' = size PROVE is_complete(day, size)' \/ Unfunded(day)'
  <2>1. PICK d \in Days : d = day
    BY <1>0
  <2>2. CASE Unfunded(day) /\ ~(Distribute /\ day = dir)
    <3>1. Unfunded(d)'
      BY <1>0, <2>1, <2>2, UnfundedKept
    <3> QED
      BY <1>3, <2>1, <3>1 DEF Unfunded
  <2>3. CASE Distribute /\ day = dir
    <3>1. batch' = batch /\ pc = "distribute"
      BY <2>3 DEF Distribute, disk
    <3>2. \A s \in 1 .. size : kids[s] \in Keys /\ s \in Slots
      <4>1. size \in Sizes
        BY <3>1 DEF IInv, MemoryOK
      <4>2. \A s \in 1 .. size : s \in Slots
        BY <4>1, BoundsAssumption
      <4> QED
        BY <3>1, <4>2 DEF IInv, MemoryOK
    <3>3. \A s \in 1 .. size : batch[dir][s] # Absent
      BY <3>2, BoundsAssumption DEF IInv, MemoryOK
    <3> QED
      BY <1>3, <2>3, <3>1, <3>3 DEF is_complete
  <2>4. CASE is_complete(day, size) /\ ~Unfunded(day)
    BY <1>0, <1>3, <2>4, CompleteKept
  <2> QED
    BY <2>2, <2>3, <2>4 DEF IInv, CleanOK
<1>4. ASSUME day' = day, size' = size PROVE Beyond(day)'
  <2>1. PICK d \in Days : d = day
    BY <1>0
  <2>2. ASSUME NEW s \in Slots, s > size PROVE UnfundedFile(d, s)'
    <3>1. UnfundedFile(d, s)
      BY <2>1, <2>2 DEF IInv, CleanOK, Beyond
    <3>2. ~(s <= size)
      BY <2>2, BoundsAssumption DEF IInv, TypeOK, ProcessType
    <3> QED
      BY <1>0, <3>1, <3>2, FileUnfundedKept
  <2> QED
    BY <1>4, <2>1, <2>2 DEF Beyond
<1>5. ASSUME pc' \in {"clear", "open", "write"} PROVE Unfunded(dir)'
  <2>1. \/ pc \in {"clear", "open", "write"} /\ dir' = dir
        \/ CreateFresh /\ dir' = day
    BY <1>0, <1>5, PcFrame, StopFrame
       DEF Still, Halt, Start, ResolveMove, FileMove, SweepMove, FundMove, LoadFunder,
         FunderMissing, LoadBatch, CreateFresh, Cleared, RemoveFunder, OpenFunder,
         WriteFunder, OpenChild, WriteChild, Audit, Settled, VerifyZero, KeepFunder,
         KeepBatch, SendRefill, RefillArrived, Distribute, cursor
  <2>2. ~Distribute
    BY <1>5 DEF Distribute
  <2>3. PICK d \in Days : dir' = d /\ Unfunded(d)
    BY <1>0, <2>1, FreshDirUnfunded DEF IInv, CleanOK
  <2>4. Unfunded(d)'
    BY <1>0, <2>2, <2>3, UnfundedKept
  <2> QED
    BY <2>3, <2>4 DEF Unfunded
<1>6. is_complete(day, size)' \/ Unfunded(day)'
  BY <1>1, <1>2, <1>3
<1>7. Beyond(day)'
  BY <1>1, <1>2, <1>4
<1> QED
  BY <1>5, <1>6, <1>7 DEF CleanOK
-----------------------------------------------------------------------------
LEMMA Initially == Init => IInv
<1> SUFFICES ASSUME Init PROVE IInv
  OBVIOUS
<1>1. TypeOK
  BY TypeInit
<1> USE BoundsAssumption DEF Init
<1>2. \A k \in Keys : bal[k] = 0
  BY DEF Nothing
<1>3. NoFundsLost /\ Fresh
  BY <1>2 DEF NoFundsLost, Fresh, InBatch
<1>4. Apart /\ TransfersOK /\ StageOK /\ DistributedOK /\ VerifiedOK
  BY DEF Apart, TransfersOK, StageOK, DistributedOK, VerifiedOK, InBatch, Dist, Live
<1>5. MemoryOK
  BY DEF MemoryOK, Resolved, NoKids
<1>6. DirsOK
  BY DEF DirsOK
<1>7. CleanOK
  BY DEF CleanOK, Unfunded, Beyond, UnfundedFile
<1> QED
  BY <1>1, <1>3, <1>4, <1>5, <1>6, <1>7 DEF IInv

\* Every variable keeps its type, whatever the operator does between two runs.
THEOREM TypeCorrect == Spec => []TypeOK
<1>1. Init => Base
  BY Initially, IsBase
<1>2. Base /\ [Next]_vars => Base'
  BY TypeStep, MemoryOKStep, StageOKStep DEF Base
<1>3. Base => TypeOK
  BY DEF Base
<1> QED
  BY <1>1, <1>2, <1>3, PTL DEF Spec

\* The invariant is inductive: no handler, crash, landing or midnight breaks it, and
\* neither does an operator who edits batch_size only while today's batch is empty and
\* lets no run through the gate with an old refill under way.
THEOREM Inductive == IInv /\ [CarefulNext]_vars => IInv'
  BY TypeStep, NoFundsLostStep, FreshStep, ApartStep, TransfersOKStep, MemoryOKStep,
     StageOKStep, DirsOKStep, CleanOKStep, VerifiedOKStep, DistributedOKStep, IsBase,
     CarefulFrame DEF IInv

\* Under such an operator every reachable state satisfies the invariant.
THEOREM Invariance == CarefulSpec => []IInv
  BY Inductive, Initially, PTL DEF CarefulSpec

\* keys::prepare never leaves lamports on a wallet whose key is gone (the promise
\* of the gate at wallets.rs:116 and :155), for any number of runs, crashes, timeouts,
\* late transactions of every kind and any batch_size, provided that batch_size is only
\* edited while today's batch is empty (batch.rs:13 clears it unchecked) and that no run
\* reaches the gate with an old refill under way (refill.rs:50 lets it go).
THEOREM FundsAreNeverLost == CarefulSpec => []NoFundsLost
<1>1. IInv => NoFundsLost
  BY DEF IInv
<1> QED
  BY <1>1, Invariance, PTL

\* Under the same operator, who may start a run with transactions of every kind under
\* way: one that could be paid credits no wallet whose key is gone, so landing late it
\* loses nothing.  A refill is one of them until it lands or expires: the operator holds
\* back the rotation, not the refill.
THEOREM LateTransfersAreSafe == CarefulSpec => []NoTransferToLostKey
<1>1. IInv => NoTransferToLostKey
  <2> SUFFICES ASSUME IInv, NEW t \in mempool, Payable(t), NEW k \in Keys, t.credit[k] > 0
               PROVE  OnDisk(k)
    BY DEF NoTransferToLostKey
  <2>1. InBatch(k) \/ k = fundFile
    BY PayableCredits
  <2> QED
    BY <2>1 DEF OnDisk, InBatch
<1> QED
  BY <1>1, Invariance, PTL

\* Under the same operator the gate of wallets.rs:116 holds at the moment a file goes,
\* not only when it was read: no rotation and no clearing of an incomplete batch, after
\* whatever crash, takes a key off the disk while its wallet shows lamports.
THEOREM OnlyEmptyKeysRotate == CarefulSpec => RotateOnlyEmpty
<1>1. IInv /\ IInv' /\ [CarefulNext]_vars
        => [\A k \in Keys : OnDisk(k) /\ ~OnDisk(k)' => bal[k] = 0]_vars
  <2> SUFFICES ASSUME IInv, IInv', [CarefulNext]_vars, NEW k \in Keys, OnDisk(k), ~OnDisk(k)'
               PROVE  bal[k] = 0
    OBVIOUS
  <2>1. FileStep
    BY CarefulFrame, Frame, ChainFrame DEF Quiet, disk, OnDisk
  <2>2. bal' = bal
    BY <2>1, FileFrame
  <2>3. ~(bal'[k] > 0)
    BY DEF IInv, NoFundsLost
  <2>4. bal[k] \in Nat
    BY BoundsAssumption DEF IInv, TypeOK, ChainType
  <2> QED
    BY <2>2, <2>3, <2>4
<1> QED
  BY <1>1, Invariance, PTL DEF RotateOnlyEmpty, CarefulSpec
-----------------------------------------------------------------------------
\* From the moment a run deals itself a fresh batch until it pays for it.
BatchIsNew ==
    \/ pc \in {"refill", "awaitRefill", "distribute"}
    \/ /\ "batch" \notin loaded
       /\ \/ pc \in {"audit", "sweep", "verify", "rotateFunder", "rotateBatch"}
          \/ pc \in {"openFunder", "writeFunder"} /\ stage = "rotate"

\* Nothing was paid into the directory of a new batch, and nothing under way can be.
NewBatchOK == BatchIsNew => Unfunded(dir)

LEMMA NewBatchStep == IInv /\ NewBatchOK /\ [Next]_vars => NewBatchOK'
<1> SUFFICES ASSUME IInv, NewBatchOK, [Next]_vars, BatchIsNew' PROVE Unfunded(dir)'
  BY DEF NewBatchOK
<1>0. ~Distribute /\ dir \in Days
  BY DEF Distribute, BatchIsNew, IInv, TypeOK, ProcessType
<1>1. dir' = dir /\ (BatchIsNew \/ pc \in {"clear", "open", "write"})
  <2> USE DEF BatchIsNew
  <2>1. CASE Still
    BY <2>1 DEF Still
  <2>2. CASE Start \/ StopMove
    BY <2>2, StopFrame DEF Start, Halt
  <2>3. CASE ResolveMove
    BY <2>3 DEF ResolveMove, LoadFunder, FunderMissing, LoadBatch, CreateFresh, Cleared,
                IInv, StageOK
  <2>4. CASE FileMove
    BY <2>4 DEF FileMove, RemoveFunder, OpenFunder, WriteFunder, OpenChild, WriteChild,
                prepared, cursor, IInv, StageOK, TypeOK, ProcessType
  <2>5. CASE SweepMove
    BY <2>5 DEF SweepMove, Audit, Settled, VerifyZero, KeepFunder, KeepBatch, prepared, cursor
  <2>6. CASE FundMove
    BY <1>0, <2>6 DEF FundMove, SendRefill, RefillArrived, prepared, cursor
  <2> QED
    BY <2>1, <2>2, <2>3, <2>4, <2>5, <2>6, PcFrame
<1>2. PICK d \in Days : dir' = d /\ dir = d /\ Unfunded(d)
  BY <1>0, <1>1 DEF NewBatchOK, IInv, CleanOK
<1>3. Unfunded(d)'
  BY <1>0, <1>2, UnfundedKept
<1> QED
  BY <1>2, <1>3 DEF Unfunded

\* When the eater pays for a new generation, everything that earlier runs put into the
\* funder and into this day's batch is back, whatever was lost, late or crashed: two
\* generations are never funded at once (wallets.rs:116, refill.rs), given an operator
\* who edits batch_size only while today's batch is empty and holds back the rotation
\* while an old refill is under way.
THEOREM SweptFirst == CarefulSpec => []SweptBeforeRefill
<1>1. Init => NewBatchOK
  BY DEF Init, NewBatchOK, BatchIsNew
<1>2. IInv /\ NewBatchOK /\ [CarefulNext]_vars => NewBatchOK'
  BY CarefulFrame, NewBatchStep
<1>3. CarefulSpec => []NewBatchOK
  BY <1>1, <1>2, Invariance, PTL DEF CarefulSpec
<1>4. IInv /\ NewBatchOK => SweptBeforeRefill
  <2> SUFFICES ASSUME IInv, NewBatchOK, pc \in {"awaitRefill", "distribute"},
                      NEW k \in Keys \ {funder}, bal[k] > 0
               PROVE  \E d \in Days \ {dir}, s \in Slots : batch[d][s] = k
    BY DEF SweptBeforeRefill
  <2>1. PICK d \in Days, s \in Slots : batch[d][s] = k
    BY DEF IInv, NoFundsLost, OnDisk, MemoryOK, Resolved
  <2>2. d # dir
    BY <2>1 DEF NewBatchOK, BatchIsNew, Unfunded, UnfundedFile
  <2> QED
    BY <2>1, <2>2
<1> QED
  BY <1>3, <1>4, Invariance, PTL
=============================================================================
