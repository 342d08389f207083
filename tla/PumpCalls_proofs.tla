--------------------------- MODULE PumpCalls_proofs ---------------------------
(***************************************************************************)
(* One coin on chain and the calls on it, for every set of modes and of    *)
(* lists of shareholders: the accounts of the coin hang together, every    *)
(* shareholder can be paid, and creator fees are never stranded, however   *)
(* late a call lands.  An instruction is followed from the method that     *)
(* builds it, through the accounts Anchor fills in, to the program that    *)
(* checks them and the accounts it changes.                                *)
(***************************************************************************)
EXTENDS PumpCalls, WellFoundedInduction, FiniteSetTheorems, SequenceTheorems, TLAPS

------------------------------------------------------------------------------
(***************************************************************************)
(* The invariant.                                                          *)
(***************************************************************************)

(* A sequence of whatever it holds. *)
List(s) == \E S : s \in Seq(S)

(* The accounts of the coin are a record of these fields, with these types. *)
IsCoin(c) ==
  /\ c = [phase |-> c.phase, token |-> c.token, creator |-> c.creator, mayhem |-> c.mayhem,
          cashback |-> c.cashback, size |-> c.size, ata |-> c.ata, uva |-> c.uva,
          shares |-> c.shares, social |-> c.social, fees |-> c.fees, ammVaults |-> c.ammVaults,
          pool |-> c.pool]
  /\ c.shares = [version |-> 2, revoked |-> c.shares.revoked, admin |-> c.shares.admin,
                 holders |-> c.shares.holders]
  /\ List(c.shares.holders)
  /\ c.phase \in {"none", "curve", "complete", "amm"}
  /\ c.token \in {TOKEN_PROGRAM_ID, TOKEN_2022_PROGRAM_ID} /\ c.size \in {"old", "new"}
  /\ c.mayhem \in BOOLEAN /\ c.cashback \in BOOLEAN
  /\ c.ata \subseteq Users /\ c.uva \subseteq Users

(* The curve, and the pool once there is one, name the sharing              *)
(* configuration as creator exactly when it exists, and the shares set in   *)
(* it are whole.                                                            *)
OwnersHold(c) ==
  /\ c.creator \in Owners /\ c.pool \in Owners
  /\ HasShares(c) <=> c.creator = Config
  /\ Graduated(c) /\ HasShares(c) <=> c.pool = Config
  /\ HasShares(c) => ValidShares(c.shares.holders)
  /\ c.phase = "none" => ~HasShares(c)

(* Fees are only ever held in the vaults of an owner, and the vaults of the *)
(* AMM open after the migration.                                            *)
VaultsHold(c) ==
  /\ c.fees \subseteq UNION {Vaults(o) : o \in Owners}
  /\ c.ammVaults \subseteq {ammVaultAta(o) : o \in Owners}
  /\ c.ammVaults # {} => Graduated(c)

(* The accounts of the coin are typed, and name each other rightly. *)
Good(c) == IsCoin(c) /\ OwnersHold(c) /\ VaultsHold(c)

(* Every shareholder can be paid. *)
CanBePaid(holder, c) ==
  \/ holder.p = "wallet"
  \/ /\ holder \in c.social
     /\ \E p \in SUPPORTED_SOCIAL_PLATFORMS : holder.s[2] = Wallet(p)

(* Every shareholder of a coin that is shared can be paid. *)
Payable(c) == \A i \in DOMAIN c.shares.holders : CanBePaid(c.shares.holders[i].address, c)

(* What the methods that pay out rely on: fees in the vaults of the sharing *)
(* configuration are there for shareholders, and a vault of the AMM that    *)
(* holds fees is open.                                                      *)
Collectable(c) ==
  /\ Vaults(Config) \cap c.fees # {} => HasShares(c)
  /\ \A o \in Owners : ammVaultAta(o) \in c.fees => ammVaultAta(o) \in c.ammVaults

(* The call under way was made by one of the actions: by a user, for a list *)
(* the SDK does not turn down, on a coin that is there when the method      *)
(* needs one.                                                               *)
CallsPlain == {"createAndBuy", "createV2AndBuy", "buy", "sell", "buyRaw", "sellRaw", "migrate",
               "initAccumulator", "syncAccumulator", "closeAccumulator", "claimCashback",
               "claimIncentives", "adminIncentives", "setCreator", "adminSetCreator", "collect",
               "shareAlone", "distribute", "minimumFee"}
CallsSharing == {"share", "reshare"}
CallsBot == {"botLaunch", "botBuy", "botSell"}

(* The call under way was made by one of the actions. *)
CallOK(m, c) ==
  \/ m = NoCall
  \/ /\ m.op \in CallsPlain \cup CallsSharing \cup CallsBot
     /\ m.op \notin {"setCreator", "adminSetCreator", "adminIncentives"} => m.user \in Users
     /\ m.op \in {"createV2AndBuy", "sell", "sellRaw"} => m.opt \in Modes
     /\ m.op \in CallsSharing => m.opt \in ShareLists /\ ~ThrowsOn(m.opt)
     /\ m.op \in {"share", "shareAlone"} => c.phase # "none"
     /\ m.op \in {"setCreator", "adminSetCreator", "adminIncentives"} => m.user = Authority
     /\ m.op = "sell" => m.seen.ata
     /\ m.op \in {"reshare", "distribute", "minimumFee"} => m.seen.holders # <<>>
     /\ m.op \in Bot => m.seen = AsLaunched

(* The inductive invariant. *)
IInv == Good(chain) /\ Payable(chain) /\ Collectable(chain) /\ CallOK(call, chain)

------------------------------------------------------------------------------
(***************************************************************************)
(* The functions Landed and Sweep are defined by recursion on their index; *)
(* each is the last value of a function that satisfies its equation, which *)
(* exists for every length.                                                *)
(***************************************************************************)

(* Induction over the naturals, for a set of them. *)
LEMMA Inductive ==
    ASSUME NEW T, T \subseteq Nat, 0 \in T, \A n \in T : n + 1 \in T
    PROVE  T = Nat
  <1> SUFFICES ASSUME Nat \ T # {} PROVE FALSE
    OBVIOUS
  <1>1. \E x \in Nat \ T : \A y \in Nat \ T : ~ (<<y, x>> \in OpToRel(<, Nat))
    BY NatLessThanWellFounded, WFMin
  <1>2. PICK x \in Nat \ T : \A y \in Nat \ T : ~ (y < x)
    BY <1>1 DEF OpToRel
  <1>3. x # 0 /\ x - 1 \in Nat /\ x - 1 < x
    BY <1>2
  <1>4. x - 1 \in T
    BY <1>2, <1>3
  <1>5. (x - 1) + 1 \in T
    BY <1>4
  <1> QED BY <1>3, <1>5, <1>2

(* What a transaction leaves behind is what its instructions leave, one *)
(* after the other.                                                     *)
LEMMA LandedIs ==
    ASSUME NEW c, NEW ixs, Len(ixs) \in Nat
    PROVE  \E f : /\ f = [i \in 0 .. Len(ixs) |->
                           IF i = 0 THEN c ELSE Run(f[i - 1], ixs[i], IDL!Idl[ixs[i].op])]
                  /\ Landed(c, ixs) = f[Len(ixs)]
  <1> DEFINE F(n, f) ==
               f = [i \in 0 .. n |->
                      IF i = 0 THEN c ELSE Run(f[i - 1], ixs[i], IDL!Idl[ixs[i].op])]
             T == {n \in Nat : \E f : F(n, f)}
  <1>1. 0 \in T
    <2>1. F(0, [i \in 0 .. 0 |-> c])
      OBVIOUS
    <2> QED BY <2>1
  <1>2. ASSUME NEW n \in T PROVE n + 1 \in T
    <2>1. PICK f : F(n, f)
      OBVIOUS
    <2> DEFINE g == [i \in 0 .. n + 1 |->
                       IF i = n + 1 THEN Run(f[n], ixs[n + 1], IDL!Idl[ixs[n + 1].op]) ELSE f[i]]
    <2>2. ASSUME NEW i \in 0 .. n + 1
          PROVE  g[i] = IF i = 0 THEN c ELSE Run(g[i - 1], ixs[i], IDL!Idl[ixs[i].op])
      <3>1. CASE i = n + 1
         BY <3>1, <2>1
      <3>2. CASE i # n + 1
         <4>1. i \in 0 .. n /\ g[i] = f[i] /\ (i # 0 => g[i - 1] = f[i - 1] /\ i - 1 \in 0 .. n)
           BY <3>2
         <4> HIDE DEF g
         <4> QED BY <2>1, <4>1
      <3> QED BY <3>1, <3>2
    <2>3. F(n + 1, g)
      BY <2>2
    <2>4. n + 1 \in Nat /\ \E h : F(n + 1, h)
      <3> HIDE DEF F, g
      <3> QED BY <2>3
    <2> QED BY <2>4
  <1> HIDE DEF T
  <1>3. T = Nat
    <2>1. T \subseteq Nat BY DEF T
    <2> QED BY <1>1, <1>2, <2>1, Inductive
  <1>4. \E f : F(Len(ixs), f)
    BY <1>3 DEF T
  <1> DEFINE after == CHOOSE f : F(Len(ixs), f)
  <1>5. F(Len(ixs), after)
    BY <1>4
  <1>6. Landed(c, ixs) = after[Len(ixs)]
    BY DEF Landed
  <1> QED BY <1>5, <1>6

(* One sweep over the account list resolves its rows, one after the other. *)
LEMMA SweepIs ==
    ASSUME NEW acc, NEW idl, Len(idl) \in Nat
    PROVE  \E f : /\ f = [i \in 0 .. Len(idl) |-> IF i = 0 THEN acc ELSE Resolve(idl[i], f[i - 1])]
                  /\ Sweep(idl, acc) = f[Len(idl)]
  <1> DEFINE F(n, f) == f = [i \in 0 .. n |-> IF i = 0 THEN acc ELSE Resolve(idl[i], f[i - 1])]
             T == {n \in Nat : \E f : F(n, f)}
  <1>1. 0 \in T
    <2>1. F(0, [i \in 0 .. 0 |-> acc])
      OBVIOUS
    <2> QED BY <2>1
  <1>2. ASSUME NEW n \in T PROVE n + 1 \in T
    <2>1. PICK f : F(n, f)
      OBVIOUS
    <2> DEFINE g == [i \in 0 .. n + 1 |-> IF i = n + 1 THEN Resolve(idl[n + 1], f[n]) ELSE f[i]]
    <2>2. ASSUME NEW i \in 0 .. n + 1
          PROVE  g[i] = IF i = 0 THEN acc ELSE Resolve(idl[i], g[i - 1])
      <3>1. CASE i = n + 1
         BY <3>1, <2>1
      <3>2. CASE i # n + 1
         <4>1. i \in 0 .. n /\ g[i] = f[i] /\ (i # 0 => g[i - 1] = f[i - 1] /\ i - 1 \in 0 .. n)
           BY <3>2
         <4> HIDE DEF g
         <4> QED BY <2>1, <4>1
      <3> QED BY <3>1, <3>2
    <2>3. F(n + 1, g)
      BY <2>2
    <2>4. n + 1 \in Nat /\ \E h : F(n + 1, h)
      <3> HIDE DEF F, g
      <3> QED BY <2>3
    <2> QED BY <2>4
  <1> HIDE DEF T
  <1>3. T = Nat
    <2>1. T \subseteq Nat BY DEF T
    <2> QED BY <1>1, <1>2, <2>1, Inductive
  <1>4. \E f : F(Len(idl), f)
    BY <1>3 DEF T
  <1> DEFINE upTo == CHOOSE f : F(Len(idl), f)
  <1>5. F(Len(idl), upTo)
    BY <1>4
  <1>6. Sweep(idl, acc) = upTo[Len(idl)]
    BY DEF Sweep
  <1> QED BY <1>5, <1>6

(* A transaction of one instruction, *)
LEMMA LandedOne ==
    ASSUME NEW c, NEW ix
    PROVE  Landed(c, <<ix>>) = Run(c, ix, IDL!Idl[ix.op])
  <1> DEFINE ixs == <<ix>>
  <1>1. Len(ixs) = 1 /\ ixs[1] = ix
    OBVIOUS
  <1>2. Len(ixs) \in Nat
    BY <1>1
  <1> HIDE DEF ixs
  <1>3. PICK f : /\ f = [i \in 0 .. Len(ixs) |->
                           IF i = 0 THEN c ELSE Run(f[i - 1], ixs[i], IDL!Idl[ixs[i].op])]
                 /\ Landed(c, ixs) = f[Len(ixs)]
    BY <1>2, LandedIs
  <1>4. f[0] = c /\ f[1] = Run(f[0], ixs[1], IDL!Idl[ixs[1].op])
    BY <1>1, <1>3
  <1> QED BY <1>1, <1>3, <1>4 DEF ixs

(* one of two, *)
LEMMA LandedTwo ==
    ASSUME NEW c, NEW ix, NEW ix2
    PROVE  Landed(c, <<ix, ix2>>)
             = Run(Run(c, ix, IDL!Idl[ix.op]), ix2, IDL!Idl[ix2.op])
  <1> DEFINE ixs == <<ix, ix2>>
  <1>1. Len(ixs) = 2 /\ ixs[1] = ix /\ ixs[2] = ix2
    OBVIOUS
  <1>2. Len(ixs) \in Nat
    BY <1>1
  <1> HIDE DEF ixs
  <1>3. PICK f : /\ f = [i \in 0 .. Len(ixs) |->
                           IF i = 0 THEN c ELSE Run(f[i - 1], ixs[i], IDL!Idl[ixs[i].op])]
                 /\ Landed(c, ixs) = f[Len(ixs)]
    BY <1>2, LandedIs
  <1>4. f[0] = c /\ f[1] = Run(f[0], ixs[1], IDL!Idl[ixs[1].op])
    BY <1>1, <1>3
  <1>5. f[2] = Run(f[1], ixs[2], IDL!Idl[ixs[2].op])
    BY <1>1, <1>3
  <1> QED BY <1>1, <1>3, <1>4, <1>5 DEF ixs

(* and one of three. *)
LEMMA LandedThree ==
    ASSUME NEW c, NEW ix, NEW ix2, NEW ix3
    PROVE  Landed(c, <<ix, ix2, ix3>>)
             = Run(Run(Run(c, ix, IDL!Idl[ix.op]), ix2, IDL!Idl[ix2.op]), ix3, IDL!Idl[ix3.op])
  <1> DEFINE ixs == <<ix, ix2, ix3>>
  <1>1. Len(ixs) = 3 /\ ixs[1] = ix /\ ixs[2] = ix2 /\ ixs[3] = ix3
    OBVIOUS
  <1>2. Len(ixs) \in Nat
    BY <1>1
  <1> HIDE DEF ixs
  <1>3. PICK f : /\ f = [i \in 0 .. Len(ixs) |->
                           IF i = 0 THEN c ELSE Run(f[i - 1], ixs[i], IDL!Idl[ixs[i].op])]
                 /\ Landed(c, ixs) = f[Len(ixs)]
    BY <1>2, LandedIs
  <1>4. f[0] = c /\ f[1] = Run(f[0], ixs[1], IDL!Idl[ixs[1].op])
    BY <1>1, <1>3
  <1>5. f[2] = Run(f[1], ixs[2], IDL!Idl[ixs[2].op])
    BY <1>1, <1>3
  <1>6. f[3] = Run(f[2], ixs[3], IDL!Idl[ixs[3].op])
    BY <1>1, <1>3
  <1> QED BY <1>1, <1>3, <1>4, <1>5, <1>6 DEF ixs

------------------------------------------------------------------------------
(***************************************************************************)
(* How an instruction's accounts are filled in, and what the program reads *)
(* back.                                                                   *)
(***************************************************************************)

(* The accounts after the three sweeps of Anchor's resolver. *)
Completed(idl, given) == Sweep(idl, Sweep(idl, Sweep(idl, given)))

(* An account that is known stays what it is: in one step, *)
LEMMA StepKeeps ==
    ASSUME NEW row, NEW acc, NEW n \in DOMAIN acc
    PROVE  n \in DOMAIN Resolve(row, acc) /\ Resolve(row, acc)[n] = acc[n]
  BY DEF Resolve

(* in a sweep, *)
LEMMA SweepKeeps ==
    ASSUME NEW idl, Len(idl) \in Nat, NEW acc, NEW n \in DOMAIN acc
    PROVE  n \in DOMAIN Sweep(idl, acc) /\ Sweep(idl, acc)[n] = acc[n]
  <1>1. PICK f : /\ f = [i \in 0 .. Len(idl) |-> IF i = 0 THEN acc ELSE Resolve(idl[i], f[i - 1])]
                 /\ Sweep(idl, acc) = f[Len(idl)]
    BY SweepIs
  <1> DEFINE T == {i \in Nat : i \in 0 .. Len(idl) => n \in DOMAIN f[i] /\ f[i][n] = acc[n]}
  <1>2. T \subseteq Nat /\ 0 \in T
    BY <1>1
  <1>3. ASSUME NEW i \in T PROVE i + 1 \in T
    <2> SUFFICES ASSUME i + 1 \in 0 .. Len(idl)
                 PROVE  n \in DOMAIN f[i + 1] /\ f[i + 1][n] = acc[n]
      OBVIOUS
    <2>1. f[i + 1] = Resolve(idl[i + 1], f[i])
      BY <1>1
    <2>2. n \in DOMAIN f[i] /\ f[i][n] = acc[n]
      OBVIOUS
    <2> QED BY <2>1, <2>2, StepKeeps
  <1> HIDE DEF T
  <1>4. T = Nat
    BY <1>2, <1>3, Inductive
  <1>5. n \in DOMAIN f[Len(idl)] /\ f[Len(idl)][n] = acc[n]
    BY <1>4 DEF T
  <1> QED BY <1>1, <1>5

(* and in all three. *)
LEMMA CompletedKeeps ==
    ASSUME NEW idl, Len(idl) \in Nat, NEW given, NEW n \in DOMAIN given
    PROVE  n \in DOMAIN Completed(idl, given) /\ Completed(idl, given)[n] = given[n]
  BY SweepKeeps DEF Completed

(* The program finds in a row's place the account the sweeps found for it. *)
LEMMA AccountIs ==
    ASSUME NEW idl, Len(idl) \in Nat, DOMAIN idl = 1 .. Len(idl),
           NEW ix, NEW M, ix.rest \in Seq(M), NEW i \in DOMAIN idl
    PROVE  Accounts(FilledIn(ix, idl), idl)[idl[i].name]
             = IF idl[i].name \in DOMAIN Completed(idl, ix.given)
               THEN Completed(idl, ix.given)[idl[i].name] ELSE Unresolved
  <1> DEFINE acc == Completed(idl, ix.given)
             filled == FilledIn(ix, idl)
             key(n) == IF n \in DOMAIN acc THEN acc[n] ELSE Unresolved
             rows == [j \in DOMAIN idl |-> Meta(key(idl[j].name), idl[j].flags)]
             k == CHOOSE j \in DOMAIN idl : idl[j].name = idl[i].name
  <1> HIDE DEF acc
  <1>1. filled.metas = rows \o ix.rest
    BY DEF FilledIn, Filled, Completed, acc
  <1>2. k \in 1 .. Len(idl) /\ idl[k].name = idl[i].name
    OBVIOUS
  <1>3. (rows \o ix.rest)[k] = rows[k]
    BY <1>2
  <1>4. rows[k].key = key(idl[i].name)
    BY <1>2 DEF Meta
  <1>5. Accounts(filled, idl)[idl[i].name] = filled.metas[k].key
    BY DEF Accounts
  <1> QED BY <1>1, <1>3, <1>4, <1>5 DEF acc

(* What the caller gives arrives. *)
LEMMA GivenAccount ==
    ASSUME NEW idl, Len(idl) \in Nat, DOMAIN idl = 1 .. Len(idl), NEW b, NEW M, b.rest \in Seq(M),
           NEW n \in DOMAIN b.given, \E i \in DOMAIN idl : idl[i].name = n
    PROVE  Accounts(FilledIn(b, idl), idl)[n] = b.given[n]
  <1>1. n \in DOMAIN Completed(idl, b.given) /\ Completed(idl, b.given)[n] = b.given[n]
    BY CompletedKeeps
  <1> QED BY <1>1, AccountIs

(* Instructions are filled in each by its own account list. *)
LEMMA InstructionsAre ==
    ASSUME NEW ixs, NEW S, ixs \in Seq(S)
    PROVE  /\ Len(Instructions(ixs)) = Len(ixs)
           /\ \A i \in 1 .. Len(ixs) :
                 /\ Instructions(ixs)[i] = FilledIn(ixs[i], IDL!Idl[ixs[i].op])
                 /\ Instructions(ixs)[i].op = ixs[i].op
                 /\ Instructions(ixs)[i].args = ixs[i].args
  <1> DEFINE fill(i) == FilledIn(ixs[i], IDL!Idl[ixs[i].op])
  <1>1. DOMAIN ixs = 1 .. Len(ixs) /\ Len(ixs) \in Nat
    OBVIOUS
  <1>2. \A i \in 1 .. Len(ixs) : fill(i).op = ixs[i].op /\ fill(i).args = ixs[i].args
    BY DEF FilledIn, Filled
  <1>3. Instructions(ixs) = [i \in 1 .. Len(ixs) |-> fill(i)]
    BY <1>1 DEF Instructions
  <1> HIDE DEF fill
  <1>4. Len(Instructions(ixs)) = Len(ixs)
    BY <1>1, <1>3
  <1>5. \A i \in 1 .. Len(ixs) : Instructions(ixs)[i] = fill(i)
    BY <1>3
  <1> QED BY <1>2, <1>4, <1>5 DEF fill

------------------------------------------------------------------------------
(***************************************************************************)
(* The rows of the account lists: their names, and what a row that holds   *)
(* says.                                                                   *)
(***************************************************************************)

(* The name of a row is the one it was written with: of a row of the *)
(* caller's choice,                                                  *)
LEMMA GivenName == ASSUME NEW n, NEW flags PROVE IDL!Given(n, flags).name = n
  BY DEF IDL!Given

(* of a fixed one, *)
LEMMA FixedName == ASSUME NEW n, NEW flags, NEW prog PROVE IDL!Fixed(n, flags, prog).name = n
  BY DEF IDL!Fixed

(* of a derived one, *)
LEMMA DerivedName ==
    ASSUME NEW n, NEW flags, NEW prog, NEW tag, NEW seeds
    PROVE  IDL!Derived(n, flags, prog, tag, seeds).name = n
  BY DEF IDL!Derived

(* and of those that are written out. *)
LEMMA RowNames ==
  /\ IDL!Global.name = "global" /\ IDL!SystemProgram.name = "systemProgram"
  /\ IDL!AssociatedTokenProgram.name = "associatedTokenProgram"
  /\ IDL!UserVolumeAccumulator.name = "userVolumeAccumulator"
  /\ IDL!GlobalIncentiveTokenAccount.name = "globalIncentiveTokenAccount"
  /\ \A flags : /\ IDL!Mint(flags).name = "mint" /\ IDL!BondingCurve(flags).name = "bondingCurve"
                /\ IDL!CreatorVault(flags).name = "creatorVault"
                /\ IDL!GlobalVolumeAccumulator(flags).name = "globalVolumeAccumulator"
                /\ IDL!SharingConfig(flags).name = "sharingConfig"
                /\ IDL!Metadata(flags).name = "metadata"
  /\ \A token : IDL!AssociatedBondingCurve(token).name = "associatedBondingCurve"
  /\ \A n, prog : IDL!EventAuthority(n, prog).name = n
  /\ \A n, flags, owner, token, mint : IDL!AtaOf(n, flags, owner, token, mint).name = n
  /\ \A n, flags : IDL!Given(n, flags).name = n
  /\ \A n, flags, prog : IDL!Fixed(n, flags, prog).name = n
  /\ \A n, flags, prog, tag, seeds : IDL!Derived(n, flags, prog, tag, seeds).name = n
  BY GivenName, FixedName, DerivedName
     DEF IDL!Global, IDL!SystemProgram, IDL!AssociatedTokenProgram, IDL!UserVolumeAccumulator,
         IDL!GlobalIncentiveTokenAccount, IDL!Mint, IDL!BondingCurve, IDL!CreatorVault,
         IDL!GlobalVolumeAccumulator, IDL!SharingConfig, IDL!Metadata,
         IDL!AssociatedBondingCurve, IDL!EventAuthority, IDL!AtaOf

(* A row of the caller's choice holds what is given, *)
LEMMA GivenHolds ==
    ASSUME NEW n, NEW flags, NEW op, NEW acc, NEW c,
           RowHolds(IDL!Given(n, flags), op, acc, c)
    PROVE  ChoiceHolds(n, op, acc, c)
  BY DEF RowHolds, IDL!Given

(* a derived one its address, *)
LEMMA DerivedHolds ==
    ASSUME NEW n, NEW flags, NEW prog, NEW tag, NEW seeds, NEW op, NEW acc, NEW c,
           RowHolds(IDL!Derived(n, flags, prog, tag, seeds), op, acc, c)
    PROVE  acc[n] = Pda(prog, tag, [i \in DOMAIN seeds |-> SeedOnChain(seeds[i], acc, c)])
  BY DEF RowHolds, IDL!Derived

(* and a fixed one its program. *)
LEMMA FixedHolds ==
    ASSUME NEW n, NEW flags, NEW prog, NEW op, NEW acc, NEW c,
           RowHolds(IDL!Fixed(n, flags, prog), op, acc, c)
    PROVE  acc[n] = Program(prog)
  BY DEF RowHolds, IDL!Fixed

(* An address derived from one seed, *)
LEMMA DerivedHolds1 ==
    ASSUME NEW n, NEW flags, NEW prog, NEW tag, NEW s, NEW op, NEW acc, NEW c,
           RowHolds(IDL!Derived(n, flags, prog, tag, <<s>>), op, acc, c)
    PROVE  acc[n] = Pda(prog, tag, <<SeedOnChain(s, acc, c)>>)
  <1>1. [i \in DOMAIN <<s>> |-> SeedOnChain(<<s>>[i], acc, c)] = <<SeedOnChain(s, acc, c)>>
    OBVIOUS
  <1> QED BY <1>1, DerivedHolds

(* and a token account, derived from three. *)
LEMMA AtaHolds ==
    ASSUME NEW n, NEW flags, NEW owner, NEW token, NEW mint, NEW op, NEW acc, NEW c,
           RowHolds(IDL!AtaOf(n, flags, owner, token, mint), op, acc, c)
    PROVE  acc[n] = Pda("ata", "none", <<SeedOnChain(owner, acc, c), SeedOnChain(token, acc, c),
                                     SeedOnChain(mint, acc, c)>>)
  <1>1. RowHolds(IDL!Derived(n, flags, "ata", "none", <<owner, token, mint>>), op, acc, c)
    BY DEF IDL!AtaOf
  <1>2. acc[n] = Pda("ata", "none", [i \in DOMAIN <<owner, token, mint>> |->
                                  SeedOnChain(<<owner, token, mint>>[i], acc, c)])
    BY <1>1, DerivedHolds
  <1>3. [i \in DOMAIN <<owner, token, mint>> |-> SeedOnChain(<<owner, token, mint>>[i], acc, c)]
          = <<SeedOnChain(owner, acc, c), SeedOnChain(token, acc, c), SeedOnChain(mint, acc, c)>>
    OBVIOUS
  <1> QED BY <1>2, <1>3

(* A trade pays its fee into the vault of the creator the coin names now, *)
(* for a user with a token account.                                       *)
LEMMA TradeHolds ==
    ASSUME NEW ix, NEW acc, NEW c, ix.op \in {"buy", "buyExactSolIn", "sell"},
           AccountsHold(ix, IDL!Idl[ix.op], acc, c)
    PROVE  /\ acc.creatorVault = creatorVaultPda(c.creator)
           /\ acc.user \in c.ata
  <1>1. CASE ix.op \in {"buy", "buyExactSolIn"}
    <2>1. IDL!Idl[ix.op] = IDL!buy
      BY <1>1, SMTT(20) DEF IDL!Idl, IDL!buyExactSolIn, IDL!buy, IDL!BuyExactCurve,
             IDL!BuyExactCaller, IDL!BuyExactFees
    <2>2. /\ DOMAIN IDL!buy = 1 .. 16
          /\ IDL!buy[6] = IDL!Given("associatedUser", IDL!W)
          /\ IDL!buy[10] = IDL!CreatorVault(IDL!W)
      BY DEF IDL!buy, IDL!TradeCurve, IDL!BuyCaller, IDL!BuyFees, IDL!Events, IDL!FeeConfig
    <2>3. /\ RowHolds(IDL!Given("associatedUser", IDL!W), ix.op, acc, c)
          /\ RowHolds(IDL!CreatorVault(IDL!W), ix.op, acc, c)
      BY <2>1, <2>2 DEF AccountsHold
    <2>4. acc["creatorVault"]
            = Pda("pump", "creator-vault", <<SeedOnChain("bondingCurve.creator", acc, c)>>)
      BY <2>3, DerivedHolds1 DEF IDL!CreatorVault
    <2>5. ChoiceHolds("associatedUser", ix.op, acc, c)
      BY <2>3, GivenHolds
    <2> QED BY <2>4, <2>5 DEF ChoiceHolds, SeedOnChain, creatorVaultPda
  <1>2. CASE ix.op = "sell"
    <2>1. IDL!Idl[ix.op] = IDL!sell
      BY <1>2 DEF IDL!Idl
    <2>2. /\ DOMAIN IDL!sell = 1 .. 14
          /\ IDL!sell[6] = IDL!Given("associatedUser", IDL!W)
          /\ IDL!sell[9] = IDL!CreatorVault(IDL!W)
      BY DEF IDL!sell, IDL!SellCurve, IDL!TradeCurve, IDL!SellCaller, IDL!Events, IDL!FeeConfig
    <2>3. /\ RowHolds(IDL!Given("associatedUser", IDL!W), ix.op, acc, c)
          /\ RowHolds(IDL!CreatorVault(IDL!W), ix.op, acc, c)
      BY <2>1, <2>2 DEF AccountsHold
    <2>4. acc["creatorVault"]
            = Pda("pump", "creator-vault", <<SeedOnChain("bondingCurve.creator", acc, c)>>)
      BY <2>3, DerivedHolds1 DEF IDL!CreatorVault
    <2>5. ChoiceHolds("associatedUser", ix.op, acc, c)
      BY <2>3, GivenHolds
    <2> QED BY <2>4, <2>5 DEF ChoiceHolds, SeedOnChain, creatorVaultPda
  <1> QED BY <1>1, <1>2

(* A coin is created under one of the two token programs. *)
LEMMA CreatedToken ==
    ASSUME NEW ix, NEW acc, NEW c, ix.op \in {"create", "createV2"},
           AccountsHold(ix, IDL!Idl[ix.op], acc, c)
    PROVE  acc.tokenProgram \in {TOKEN_PROGRAM_ID, TOKEN_2022_PROGRAM_ID}
  <1>1. CASE ix.op = "create"
    <2>1. IDL!Idl[ix.op] = IDL!create
      BY <1>1 DEF IDL!Idl
    <2>2. /\ DOMAIN IDL!create = 1 .. 14
          /\ IDL!create[10] = IDL!Fixed("tokenProgram", IDL!RO, "Tokenkeg")
      BY DEF IDL!create, IDL!CreateCoin, IDL!CreateCaller, IDL!Events
    <2>3. RowHolds(IDL!Fixed("tokenProgram", IDL!RO, "Tokenkeg"), ix.op, acc, c)
      BY <2>1, <2>2 DEF AccountsHold
    <2> QED BY <2>3, FixedHolds DEF TOKEN_PROGRAM_ID
  <1>2. CASE ix.op = "createV2"
    <2>1. IDL!Idl[ix.op] = IDL!createV2
      BY <1>2 DEF IDL!Idl
    <2>2. /\ DOMAIN IDL!createV2 = 1 .. 16
          /\ IDL!createV2[8] = IDL!Fixed("tokenProgram", IDL!RO, "Token2022")
      BY DEF IDL!createV2, IDL!CreateV2Coin, IDL!CreateV2Programs, IDL!CreateV2Mayhem, IDL!Events
    <2>3. RowHolds(IDL!Fixed("tokenProgram", IDL!RO, "Token2022"), ix.op, acc, c)
      BY <2>1, <2>2 DEF AccountsHold
    <2> QED BY <2>3, FixedHolds DEF TOKEN_2022_PROGRAM_ID
  <1> QED BY <1>1, <1>2

(* The sharing configuration is the one derived from the mint. *)
LEMMA SharingHolds ==
    ASSUME NEW ix, NEW acc, NEW c, ix.op = "createFeeSharingConfig",
           DOMAIN acc = {IDL!createFeeSharingConfig[i].name :
                           i \in DOMAIN IDL!createFeeSharingConfig},
           AccountsHold(ix, IDL!Idl[ix.op], acc, c)
    PROVE  acc.sharingConfig = Config
  <1>1. IDL!Idl[ix.op] = IDL!createFeeSharingConfig
    BY DEF IDL!Idl
  <1>2. /\ DOMAIN IDL!createFeeSharingConfig = 1 .. 13
        /\ IDL!createFeeSharingConfig[5] = IDL!Mint(IDL!RO)
        /\ IDL!createFeeSharingConfig[6] = IDL!SharingConfig(IDL!W)
    BY DEF IDL!createFeeSharingConfig, IDL!ShareConfigCaller, IDL!ShareConfigCurve,
           IDL!ShareConfigPool, IDL!Events
  <1>3. /\ RowHolds(IDL!Mint(IDL!RO), ix.op, acc, c)
        /\ RowHolds(IDL!SharingConfig(IDL!W), ix.op, acc, c)
    BY <1>1, <1>2 DEF AccountsHold
  <1>4. acc["mint"] = MINT
    BY <1>3, GivenHolds DEF IDL!Mint, ChoiceHolds, Incentives
  <1>5. "mint" \in DOMAIN acc
    <2>1. IDL!createFeeSharingConfig[5].name = "mint"
      BY <1>2, GivenName DEF IDL!Mint
    <2> QED BY <1>2, <2>1
  <1> QED
    BY <1>3, <1>4, <1>5, DerivedHolds1
       DEF IDL!SharingConfig, SeedOnChain, Config, feeSharingConfigPda

(* Fees move between the two vaults of one creator. *)
LEMMA TransferHolds ==
    ASSUME NEW ix, NEW acc, NEW c, ix.op = "transferCreatorFeesToPump",
           DOMAIN acc = {IDL!transferCreatorFeesToPump[i].name :
                           i \in DOMAIN IDL!transferCreatorFeesToPump},
           AccountsHold(ix, IDL!Idl[ix.op], acc, c)
    PROVE  /\ acc.coinCreatorVaultAta = ammVaultAta(acc.coinCreator)
           /\ acc.pumpCreatorVault = creatorVaultPda(acc.coinCreator)
  <1> DEFINE idl == IDL!transferCreatorFeesToPump
             holds(row) == RowHolds(row, ix.op, acc, c)
  <1>1. IDL!Idl[ix.op] = idl
    BY DEF IDL!Idl
  <1>2. /\ DOMAIN idl = 1 .. 10
        /\ idl[1] = IDL!Given("wsolMint", IDL!RO)
        /\ idl[2] = IDL!Given("tokenProgram", IDL!RO)
        /\ idl[5] = IDL!Given("coinCreator", IDL!RO)
        /\ idl[6] = IDL!Derived("coinCreatorVaultAuthority", IDL!W, "pumpAmm", "creator_vault",
                                <<"coinCreator">>)
        /\ idl[7] = IDL!AtaOf("coinCreatorVaultAta", IDL!W, "coinCreatorVaultAuthority",
                              "tokenProgram", "wsolMint")
        /\ idl[8] = IDL!Derived("pumpCreatorVault", IDL!W, "pump", "creator-vault",
                                <<"coinCreator">>)
    BY DEF IDL!transferCreatorFeesToPump, IDL!TransferAmmVault, IDL!TransferPumpVault, IDL!Events
  <1>3. /\ idl[1].name = "wsolMint" /\ idl[2].name = "tokenProgram" /\ idl[5].name = "coinCreator"
        /\ idl[6].name = "coinCreatorVaultAuthority"
    BY <1>2, GivenName, DerivedName
  <1> HIDE DEF idl
  <1>4. \A i \in 1 .. 10 : holds(idl[i]) /\ idl[i].name \in DOMAIN acc
    BY <1>1, <1>2 DEF AccountsHold, idl
  <1>5. {"wsolMint", "tokenProgram", "coinCreator", "coinCreatorVaultAuthority"}
          \subseteq DOMAIN acc
    BY <1>4, <1>3
  <1>6. acc["wsolMint"] = NATIVE_MINT /\ acc["tokenProgram"] = TOKEN_PROGRAM_ID
    <2>1. ChoiceHolds("wsolMint", ix.op, acc, c) /\ ChoiceHolds("tokenProgram", ix.op, acc, c)
      BY <1>2, <1>4, GivenHolds
    <2> QED BY <2>1 DEF ChoiceHolds, TokenOf, Incentives, Wrapped
  <1>7. acc["coinCreatorVaultAuthority"] = ammCreatorVaultPda(acc.coinCreator)
    <2>1. acc["coinCreatorVaultAuthority"]
            = Pda("pumpAmm", "creator_vault", <<SeedOnChain("coinCreator", acc, c)>>)
      BY <1>2, <1>4, DerivedHolds1
    <2> QED BY <1>5, <2>1 DEF SeedOnChain, ammCreatorVaultPda
  <1>8. acc["coinCreatorVaultAta"] = ammVaultAta(acc.coinCreator)
    <2>1. acc["coinCreatorVaultAta"]
            = Pda("ata", "none", <<SeedOnChain("coinCreatorVaultAuthority", acc, c),
                               SeedOnChain("tokenProgram", acc, c),
                               SeedOnChain("wsolMint", acc, c)>>)
      <3>1. holds(IDL!AtaOf("coinCreatorVaultAta", IDL!W, "coinCreatorVaultAuthority",
                            "tokenProgram", "wsolMint"))
        BY <1>2, <1>4
      <3> QED BY <3>1, AtaHolds
    <2> QED BY <1>5, <1>6, <1>7, <2>1 DEF SeedOnChain, ammVaultAta, getAssociatedTokenAddressSync
  <1>9. acc["pumpCreatorVault"] = creatorVaultPda(acc.coinCreator)
    <2>1. acc["pumpCreatorVault"]
            = Pda("pump", "creator-vault", <<SeedOnChain("coinCreator", acc, c)>>)
      BY <1>2, <1>4, DerivedHolds1
    <2> QED BY <1>5, <2>1 DEF SeedOnChain, creatorVaultPda
  <1> QED BY <1>8, <1>9

------------------------------------------------------------------------------
(***************************************************************************)
(* One instruction keeps the accounts of the coin good.                    *)
(***************************************************************************)

(* The instructions that name a creator, of the curve or of the pool. *)
SetsCreator == {"setCreator", "adminSetCreator", "adminSetCoinCreator"}

(* What an instruction brings along that its program does not check. *)
Demands(ix, c) ==
  LET acc == Accounts(ix, IDL!Idl[ix.op])
  IN /\ ix.op \in {"create", "createV2"} =>
          /\ ix.args.creator \in Users
          /\ ix.args.mayhem \in BOOLEAN /\ ix.args.cashback \in BOOLEAN
     /\ ix.op \in SetsCreator => ix.args.creator \in Users
     /\ ix.op = "createIdempotent" => acc.wallet \in Users
     /\ ix.op = "initUserVolumeAccumulator" => acc.user \in Users
     /\ ix.op = "createFeeSharingConfig" => c.phase # "none"
     /\ ix.op = "updateFeeShares" => List(ix.args.shares)

(* The wallets, the sharing configuration and the vaults are different *)
(* accounts.                                                           *)
LEMMA Distinct ==
  /\ Dev # Other /\ Config \notin Users
  /\ \A o \in Users : o.p = "wallet"
  /\ \A o \in Owners, p \in Owners : ammVaultAta(o) = ammVaultAta(p) => o = p
  /\ \A o \in Owners, p \in Owners : ammVaultAta(o) # creatorVaultPda(p)
  BY DEF Dev, Other, Users, Config, Owners, feeSharingConfigPda, Wallet, Pda, Address, ammVaultAta,
         getAssociatedTokenAddressSync, ammCreatorVaultPda, creatorVaultPda

(* Creation, *)
LEMMA CreateKeeps ==
    ASSUME NEW ix, NEW acc, NEW c, Good(c), ix.op \in {"create", "createV2"},
           acc.tokenProgram \in {TOKEN_PROGRAM_ID, TOKEN_2022_PROGRAM_ID},
           ix.args.creator \in Users, ix.args.mayhem \in BOOLEAN, ix.args.cashback \in BOOLEAN,
           Ready(ix, acc, c)
    PROVE  Good(Effect(ix, acc, c))
  <1> DEFINE d == Effect(ix, acc, c)
  <1>1. d = [phase |-> "curve", token |-> acc.tokenProgram, creator |-> ix.args.creator,
             mayhem |-> ix.args.mayhem, cashback |-> ix.args.cashback,
             size |-> IF ix.op = "create" THEN "old" ELSE "new", ata |-> c.ata, uva |-> c.uva,
             shares |-> c.shares, social |-> c.social, fees |-> c.fees, ammVaults |-> c.ammVaults,
             pool |-> c.pool]
    BY DEF Effect, Good, IsCoin
  <1>2. c.phase = "none"
    BY DEF Ready
  <1> HIDE DEF d
  <1>3. IsCoin(d)
    BY <1>1 DEF Good, IsCoin
  <1>4. OwnersHold(d)
    BY <1>1, <1>2, Distinct DEF Good, OwnersHold, Owners, HasShares, Graduated
  <1>5. VaultsHold(d)
    BY <1>1, <1>2 DEF Good, VaultsHold, Graduated
  <1> QED BY <1>3, <1>4, <1>5 DEF Good, d

(* a trade, *)
LEMMA TradeKeeps ==
    ASSUME NEW ix, NEW acc, NEW c, Good(c), ix.op \in {"buy", "buyExactSolIn", "sell"},
           acc.creatorVault = creatorVaultPda(c.creator), acc.user \in c.ata
    PROVE  Good(Effect(ix, acc, c))
  <1> DEFINE d == Effect(ix, acc, c)
  <1>1. d = [phase |-> c.phase, token |-> c.token, creator |-> c.creator, mayhem |-> c.mayhem,
             cashback |-> c.cashback, size |-> c.size, ata |-> c.ata,
             uva |-> IF ix.op = "sell" THEN c.uva ELSE c.uva \cup {acc.user},
             shares |-> c.shares, social |-> c.social, fees |-> c.fees \cup {acc.creatorVault},
             ammVaults |-> c.ammVaults, pool |-> c.pool]
    BY DEF Effect, Good, IsCoin
  <1> HIDE DEF d
  <1>2. IsCoin(d)
    BY <1>1 DEF Good, IsCoin
  <1>3. OwnersHold(d)
    BY <1>1 DEF Good, OwnersHold, HasShares, Graduated
  <1>4. VaultsHold(d)
    BY <1>1 DEF Good, VaultsHold, Graduated, OwnersHold, Vaults
  <1> QED BY <1>2, <1>3, <1>4 DEF Good, d

(* (one share of everything is the whole) *)
LEMMA TotalOfOne ==
    ASSUME NEW h, h.bps \in Nat
    PROVE  TotalShares(<<h>>) = h.bps
  <1> DEFINE F(f) == f = [s \in SUBSET (DOMAIN <<h>>) |->
                     IF s = {} THEN 0
                     ELSE LET x == CHOOSE x \in s : TRUE IN <<h>>[x].bps + f[s \ {x}]]
             g == [s \in SUBSET {1} |-> IF s = {} THEN 0 ELSE h.bps]
  <1>1. DOMAIN <<h>> = {1}
    OBVIOUS
  <1>2. F(g)
    <2> SUFFICES ASSUME NEW s \in SUBSET {1}
                 PROVE  g[s] = IF s = {} THEN 0
                               ELSE LET x == CHOOSE x \in s : TRUE IN <<h>>[x].bps + g[s \ {x}]
      BY <1>1
    <2>1. s = {} \/ s = {1}
      OBVIOUS
    <2>2. CASE s = {}
      BY <2>2
    <2>3. CASE s = {1}
      <3>1. (CHOOSE x \in s : TRUE) = 1
        BY <2>3
      <3>2. s \ {1} = {} /\ g[{}] = 0 /\ g[s] = h.bps /\ <<h>>[1].bps = h.bps
        BY <2>3
      <3> QED BY <2>3, <3>1, <3>2
    <2> QED BY <2>1, <2>2, <2>3
  <1>3. TotalShares(<<h>>) = (CHOOSE f : F(f))[DOMAIN <<h>>]
    BY DEF TotalShares, FoldSeq, FoldFunction, FoldFunctionOnSet, MapThenFoldSet
  <1> DEFINE f == CHOOSE f : F(f)
  <1>4. F(f)
    BY <1>2
  <1> HIDE DEF f
  <1>5. f[{1}] = h.bps + f[{}] /\ f[{}] = 0
    <2>1. (CHOOSE x \in {1} : TRUE) = 1 /\ {1} \ {1} = {} /\ {} \in SUBSET {1} /\ {1} \in SUBSET {1}
      OBVIOUS
    <2> QED BY <1>4, <1>1, <2>1
  <1> QED BY <1>1, <1>3, <1>5 DEF f

(* a new sharing configuration, *)
LEMMA SharingKeeps ==
    ASSUME NEW ix, NEW acc, NEW c, Good(c), ix.op = "createFeeSharingConfig",
           acc.sharingConfig = Config, c.phase # "none", Ready(ix, acc, c)
    PROVE  Good(Effect(ix, acc, c))
  <1> DEFINE d == Effect(ix, acc, c)
             h == [address |-> acc.payer, bps |-> ShareTotal]
  <1>1. d = [phase |-> c.phase, token |-> c.token, creator |-> Config, mayhem |-> c.mayhem,
             cashback |-> c.cashback, size |-> c.size, ata |-> c.ata, uva |-> c.uva,
             shares |-> FirstShares(acc.payer), social |-> c.social, fees |-> c.fees,
             ammVaults |-> c.ammVaults, pool |-> IF Graduated(c) THEN Config ELSE c.pool]
    BY DEF Effect, Good, IsCoin
  <1>2. d.shares.holders = <<h>>
    BY <1>1 DEF FirstShares
  <1> HIDE DEF d
  <1>3. IsCoin(d)
    <2> DEFINE T == {h}
    <2>1. <<h>> \in Seq(T)
      OBVIOUS
    <2> HIDE DEF T, h
    <2>2. List(d.shares.holders)
      BY <1>2, <2>1 DEF List
    <2> QED BY <1>1, <2>2 DEF Good, IsCoin, FirstShares
  <1>4. OwnersHold(d)
    <2>1. ValidShares(<<h>>)
      <3>1. TotalShares(<<h>>) = ShareTotal
        BY TotalOfOne DEF ShareTotal
      <3>2. {<<h>>[i].address : i \in DOMAIN <<h>>} = {acc.payer}
        OBVIOUS
      <3>3. Cardinality({acc.payer}) = 1
        BY FS_Singleton
      <3> QED BY <3>1, <3>2, <3>3 DEF ValidShares, MAX_SHAREHOLDERS, ShareTotal
    <2>2. <<h>> # <<>>
      OBVIOUS
    <2> HIDE DEF h
    <2>3. HasShares(d) /\ ValidShares(d.shares.holders)
      BY <1>2, <2>1, <2>2 DEF HasShares
    <2>4. /\ d.creator = Config /\ d.phase # "none" /\ (Graduated(d) <=> Graduated(c))
          /\ d.pool = IF Graduated(c) THEN Config ELSE c.pool
      BY <1>1 DEF Graduated
    <2>5. c.pool \in Owners /\ (c.pool = Config => Graduated(c))
      BY DEF Good, OwnersHold
    <2> QED BY <2>3, <2>4, <2>5 DEF OwnersHold, Owners
  <1>5. VaultsHold(d)
    BY <1>1 DEF Good, VaultsHold, Graduated
  <1> QED BY <1>3, <1>4, <1>5 DEF Good, d

(* new shares, *)
LEMMA ReshareKeeps ==
    ASSUME NEW ix, NEW acc, NEW c, Good(c), ix.op = "updateFeeShares", Ready(ix, acc, c),
           List(ix.args.shares)
    PROVE  Good(Effect(ix, acc, c))
  <1> DEFINE d == Effect(ix, acc, c)
  <1>1. d = [phase |-> c.phase, token |-> c.token, creator |-> c.creator, mayhem |-> c.mayhem,
             cashback |-> c.cashback, size |-> c.size, ata |-> c.ata, uva |-> c.uva,
             shares |-> [version |-> c.shares.version, revoked |-> TRUE,
                         admin |-> c.shares.admin, holders |-> ix.args.shares],
             social |-> c.social,
             fees |-> c.fees \ {acc.pumpCreatorVault, acc.coinCreatorVaultAta},
             ammVaults |-> c.ammVaults, pool |-> c.pool]
    BY DEF Effect, Good, IsCoin
  <1>2. HasShares(c) /\ ValidShares(ix.args.shares)
    BY DEF Ready
  <1>3. c.shares.version = 2
    BY DEF Good, IsCoin
  <1> HIDE DEF d
  <1>4. IsCoin(d)
    BY <1>1, <1>3 DEF Good, IsCoin
  <1>5. OwnersHold(d)
    <2>1. ix.args.shares # <<>>
      BY <1>2 DEF ValidShares
    <2> QED BY <1>1, <1>2, <2>1 DEF Good, OwnersHold, HasShares, Graduated
  <1>6. VaultsHold(d)
    BY <1>1 DEF Good, VaultsHold, Graduated
  <1> QED BY <1>4, <1>5, <1>6 DEF Good, d

(* a transfer of fees from the AMM, *)
LEMMA TransferKeeps ==
    ASSUME NEW ix, NEW acc, NEW c, Good(c), ix.op = "transferCreatorFeesToPump", Ready(ix, acc, c),
           acc.coinCreatorVaultAta = ammVaultAta(acc.coinCreator),
           acc.pumpCreatorVault = creatorVaultPda(acc.coinCreator)
    PROVE  Good(Effect(ix, acc, c))
  <1> DEFINE d == Effect(ix, acc, c)
  <1>1. d = [phase |-> c.phase, token |-> c.token, creator |-> c.creator, mayhem |-> c.mayhem,
             cashback |-> c.cashback, size |-> c.size, ata |-> c.ata, uva |-> c.uva,
             shares |-> c.shares, social |-> c.social, fees |-> Consolidated(acc, c),
             ammVaults |-> c.ammVaults, pool |-> c.pool]
    BY DEF Effect, Good, IsCoin
  <1>2. acc.coinCreatorVaultAta \in c.ammVaults
    BY DEF Ready
  <1> HIDE DEF d
  <1>3. IsCoin(d)
    BY <1>1 DEF Good, IsCoin
  <1>4. OwnersHold(d)
    BY <1>1 DEF Good, OwnersHold, HasShares, Graduated
  <1>5. VaultsHold(d)
    <2>1. PICK o \in Owners : ammVaultAta(acc.coinCreator) = ammVaultAta(o)
      BY <1>2 DEF Good, VaultsHold
    <2>2. acc.coinCreator = o
      BY <2>1 DEF ammVaultAta, getAssociatedTokenAddressSync, ammCreatorVaultPda, Pda, Address
    <2> QED BY <1>1, <2>2 DEF Good, VaultsHold, Graduated, Consolidated, Vaults
  <1> QED BY <1>3, <1>4, <1>5 DEF Good, d

(* and every other instruction keep the accounts good. *)
LEMMA OtherKeeps ==
    ASSUME NEW ix, NEW acc, NEW c, Good(c), Ready(ix, acc, c),
           ix.op \notin {"create", "createV2", "buy", "buyExactSolIn", "sell",
                         "createFeeSharingConfig", "updateFeeShares",
                         "transferCreatorFeesToPump"},
           ix.op \in SetsCreator => ix.args.creator \in Users,
           ix.op = "createIdempotent" => acc.wallet \in Users,
           ix.op = "initUserVolumeAccumulator" => acc.user \in Users
    PROVE  Good(Effect(ix, acc, c))
  <1> DEFINE d == Effect(ix, acc, c)
  <1>1. CASE ix.op \in SetsCreator
    <2> DEFINE new == ix.args.creator
               a == IF ix.op = "adminSetCoinCreator" THEN c.creator ELSE new
               p == IF ix.op = "adminSetCoinCreator" THEN new ELSE c.pool
    <2>1. \/ ix.op # "adminSetCoinCreator" /\ d = [c EXCEPT !.creator = new] /\ c.creator # Config
          \/ ix.op = "adminSetCoinCreator" /\ d = [c EXCEPT !.pool = new] /\ Graduated(c)
               /\ c.pool # Config
      BY <1>1 DEF Effect, SetsCreator, Ready, isCreatorUsingSharingConfig, Config
    <2>2. new \in Owners /\ new # Config
      BY <1>1, Distinct DEF Owners
    <2> HIDE DEF d, new
    <2>3. d = [phase |-> c.phase, token |-> c.token, creator |-> a, mayhem |-> c.mayhem,
               cashback |-> c.cashback, size |-> c.size, ata |-> c.ata, uva |-> c.uva,
               shares |-> c.shares, social |-> c.social, fees |-> c.fees,
               ammVaults |-> c.ammVaults, pool |-> p]
      <3>1. CASE ix.op = "adminSetCoinCreator"
        BY <2>1, <3>1 DEF Good, IsCoin
      <3>2. CASE ix.op # "adminSetCoinCreator"
        BY <2>1, <3>2 DEF Good, IsCoin
      <3> QED BY <3>1, <3>2
    <2>4. a \in Owners /\ p \in Owners /\ ~HasShares(c) /\ a # Config /\ p # Config
      BY <2>1, <2>2 DEF Good, OwnersHold
    <2> HIDE DEF a, p
    <2>5. IsCoin(d)
      BY <2>3 DEF Good, IsCoin
    <2>6. OwnersHold(d)
      BY <2>3, <2>4 DEF OwnersHold, HasShares
    <2>7. VaultsHold(d)
      BY <2>3 DEF Good, VaultsHold, Graduated
    <2> QED BY <2>5, <2>6, <2>7 DEF Good, d
  <1>2. CASE ix.op \in {"collectCreatorFee", "collectCoinCreatorFee", "distributeCreatorFees"}
    <2>1. PICK f : d = [c EXCEPT !.fees = f] /\ f \subseteq c.fees
      BY <1>2, ZenonT(30) DEF Effect
    <2> HIDE DEF d
    <2>2. d = [phase |-> c.phase, token |-> c.token, creator |-> c.creator, mayhem |-> c.mayhem,
               cashback |-> c.cashback, size |-> c.size, ata |-> c.ata, uva |-> c.uva,
               shares |-> c.shares, social |-> c.social, fees |-> f, ammVaults |-> c.ammVaults,
               pool |-> c.pool]
      BY <2>1 DEF Good, IsCoin
    <2>3. IsCoin(d)
      BY <2>2 DEF Good, IsCoin
    <2>4. OwnersHold(d)
      BY <2>2 DEF Good, OwnersHold, HasShares, Graduated
    <2>5. VaultsHold(d)
      BY <2>1, <2>2 DEF Good, VaultsHold, Graduated
    <2> QED BY <2>3, <2>4, <2>5 DEF Good, d
  <1>3. CASE ix.op \in {"extendAccount", "createIdempotent", "migrate",
                        "initUserVolumeAccumulator", "closeUserVolumeAccumulator",
                        "createSocialFeePda"}
    <2>1. /\ d.phase = (IF ix.op = "migrate" THEN "amm" ELSE c.phase)
          /\ d = [phase |-> d.phase, token |-> c.token, creator |-> c.creator,
                  mayhem |-> c.mayhem, cashback |-> c.cashback, size |-> d.size, ata |-> d.ata,
                  uva |-> d.uva, shares |-> c.shares, social |-> d.social, fees |-> c.fees,
                  ammVaults |-> c.ammVaults, pool |-> d.pool]
          /\ d.pool = (IF ix.op = "migrate" THEN c.creator ELSE c.pool)
          /\ d.size \in {"old", "new"} /\ d.ata \subseteq Users /\ d.uva \subseteq Users
      BY <1>3, ZenonT(30) DEF Effect, Good, IsCoin
    <2>2. ix.op = "migrate" => c.phase = "complete"
      BY DEF Ready
    <2> HIDE DEF d
    <2>3. IsCoin(d)
      BY <2>1 DEF Good, IsCoin
    <2>4. OwnersHold(d)
      BY <2>1, <2>2 DEF Good, OwnersHold, HasShares, Graduated
    <2>5. VaultsHold(d)
      BY <2>1 DEF Good, VaultsHold, Graduated
    <2> QED BY <2>3, <2>4, <2>5 DEF Good, d
  <1>4. CASE ix.op \notin SetsCreator \cup
               {"collectCreatorFee", "collectCoinCreatorFee", "distributeCreatorFees",
                "extendAccount", "createIdempotent", "migrate", "initUserVolumeAccumulator",
                "closeUserVolumeAccumulator", "createSocialFeePda"}
    BY <1>4 DEF Effect, SetsCreator
  <1> QED BY <1>1, <1>2, <1>3, <1>4

(* So does an instruction that runs. *)
LEMMA GoodStep ==
    ASSUME NEW ix, NEW c, Good(c), Demands(ix, c), Run(c, ix, IDL!Idl[ix.op]) # Refused
    PROVE  LET d == Run(c, ix, IDL!Idl[ix.op])
           IN Good(d) /\ (c.phase # "none" => d.phase # "none")
  <1> DEFINE idl == IDL!Idl[ix.op]
             acc == Accounts(ix, idl)
             d == Effect(ix, acc, c)
  <1>1. AccountsHold(ix, idl, acc, c) /\ Ready(ix, acc, c) /\ Run(c, ix, idl) = d
    BY DEF Run, Executed
  <1>2. DOMAIN acc = {idl[i].name : i \in DOMAIN idl}
    BY DEF Accounts
  <1>3. /\ ix.op \in {"create", "createV2"} =>
             /\ ix.args.creator \in Users
             /\ ix.args.mayhem \in BOOLEAN /\ ix.args.cashback \in BOOLEAN
        /\ ix.op \in SetsCreator => ix.args.creator \in Users
        /\ ix.op = "createIdempotent" => acc.wallet \in Users
        /\ ix.op = "initUserVolumeAccumulator" => acc.user \in Users
        /\ ix.op = "createFeeSharingConfig" => c.phase # "none"
        /\ ix.op = "updateFeeShares" => List(ix.args.shares)
    BY DEF Demands
  <1> HIDE DEF acc
  <1> SUFFICES Good(d) /\ (c.phase # "none" => d.phase # "none")
    BY <1>1
  <1>4. c.phase # "none" => d.phase # "none"
    BY <1>1 DEF Effect, Ready, Good, IsCoin
  <1> SUFFICES Good(d)
    BY <1>4
  <1>5. CASE ix.op \in {"create", "createV2"}
    BY <1>3, <1>1, <1>5, CreatedToken, CreateKeeps
  <1>6. CASE ix.op \in {"buy", "buyExactSolIn", "sell"}
    BY <1>1, <1>6, TradeHolds, TradeKeeps
  <1>7. CASE ix.op = "createFeeSharingConfig"
    <2>1. idl = IDL!createFeeSharingConfig
      BY <1>7 DEF IDL!Idl
    <2>2. acc.sharingConfig = Config
      BY <1>1, <1>2, <1>7, <2>1, SharingHolds
    <2> QED BY <1>3, <1>1, <1>7, <2>2, SharingKeeps
  <1>8. CASE ix.op = "updateFeeShares"
    BY <1>3, <1>1, <1>8, ReshareKeeps
  <1>9. CASE ix.op = "transferCreatorFeesToPump"
    <2>1. idl = IDL!transferCreatorFeesToPump
      BY <1>9 DEF IDL!Idl
    <2>2. /\ acc.coinCreatorVaultAta = ammVaultAta(acc.coinCreator)
          /\ acc.pumpCreatorVault = creatorVaultPda(acc.coinCreator)
      BY <1>1, <1>2, <1>9, <2>1, TransferHolds
    <2> QED BY <1>1, <1>9, <2>2, TransferKeeps
  <1>10. CASE ix.op \notin {"create", "createV2", "buy", "buyExactSolIn", "sell",
                           "createFeeSharingConfig", "updateFeeShares",
                           "transferCreatorFeesToPump"}
    BY <1>3, <1>1, <1>10, OtherKeeps
  <1> QED BY <1>5, <1>6, <1>7, <1>8, <1>9, <1>10

------------------------------------------------------------------------------
(***************************************************************************)
(* Shareholders, fees and whole transactions.                              *)
(***************************************************************************)

(* The account of a user of a social platform that an instruction opens. *)
SocialAccount(ix) == Accounts(ix, IDL!Idl[ix.op]).socialFeePda

(* A transaction that sets shares opens the accounts of its social *)
(* shareholders first.                                             *)
Prepared(ixs) ==
  \A i \in 1 .. Len(ixs) : ixs[i].op = "updateFeeShares" =>
    \A k \in DOMAIN ixs[i].args.shares :
      LET holder == ixs[i].args.shares[k].address
      IN \/ holder.p = "wallet"
         \/ /\ \E j \in 1 .. i - 1 : /\ ixs[j].op = "createSocialFeePda"
                                     /\ SocialAccount(ixs[j]) = holder
            /\ \E p \in SUPPORTED_SOCIAL_PLATFORMS : holder.s[2] = Wallet(p)

(* One instruction: an account once opened stays, and shares change in two *)
(* instructions only.                                                      *)
LEMMA SharesStep ==
    ASSUME NEW ix, NEW c, Good(c), Run(c, ix, IDL!Idl[ix.op]) # Refused
    PROVE  LET d == Run(c, ix, IDL!Idl[ix.op])
           IN /\ c.social \subseteq d.social
              /\ ix.op = "createSocialFeePda" => SocialAccount(ix) \in d.social
              /\ \/ d.shares = c.shares
                 \/ \E payer \in Users : d.shares = FirstShares(payer)
                 \/ ix.op = "updateFeeShares" /\ d.shares.holders = ix.args.shares
  <1> DEFINE acc == Accounts(ix, IDL!Idl[ix.op])
             d == Effect(ix, acc, c)
  <1>1. Ready(ix, acc, c) /\ Run(c, ix, IDL!Idl[ix.op]) = d
    BY DEF Run, Executed
  <1>2. SocialAccount(ix) = acc.socialFeePda
    BY DEF SocialAccount
  <1> HIDE DEF acc
  <1>3. /\ c.social \subseteq d.social
        /\ ix.op = "createSocialFeePda" => acc.socialFeePda \in d.social
    BY DEF Effect, Good, IsCoin
  <1>4. CASE ix.op = "createFeeSharingConfig"
    <2>1. acc.payer \in Users
      BY <1>1, <1>4 DEF Ready, Good, OwnersHold, Owners
    <2>2. d.shares = FirstShares(acc.payer)
      BY <1>4 DEF Effect, Good, IsCoin
    <2> QED BY <1>1, <1>2, <1>3, <2>1, <2>2
  <1>5. CASE ix.op = "updateFeeShares"
    <2>1. d.shares.holders = ix.args.shares
      BY <1>5 DEF Effect, Good, IsCoin
    <2> QED BY <1>1, <1>2, <1>3, <1>5, <2>1
  <1>6. CASE ix.op \notin {"createFeeSharingConfig", "updateFeeShares"}
    <2>1. d.shares = c.shares
      BY <1>6 DEF Effect, Good, IsCoin
    <2> QED BY <1>1, <1>2, <1>3, <2>1
  <1> QED BY <1>4, <1>5, <1>6

(* Every owner has its own two vaults. *)
LEMMA OwnVaults ==
    \A o \in Owners, p \in Owners :
      /\ creatorVaultPda(o) \in Vaults(p) => o = p
      /\ ammVaultAta(o) \in Vaults(p) => o = p
      /\ ammVaultAta(o) # creatorVaultPda(p)
  <1>1. \A o, p : /\ creatorVaultPda(o) = creatorVaultPda(p) => o = p
                  /\ ammVaultAta(o) = ammVaultAta(p) => o = p
                  /\ ammVaultAta(o) # creatorVaultPda(p)
    BY DEF creatorVaultPda, ammVaultAta, getAssociatedTokenAddressSync, ammCreatorVaultPda, Pda,
           Address
  <1> QED BY <1>1 DEF Vaults

(* One instruction leaves the fees where the methods that pay out find *)
(* them.                                                               *)
LEMMA CollectableStep ==
    ASSUME NEW ix, NEW c, Good(c), Collectable(c), Run(c, ix, IDL!Idl[ix.op]) # Refused
    PROVE  Collectable(Run(c, ix, IDL!Idl[ix.op]))
  <1> DEFINE idl == IDL!Idl[ix.op]
             acc == Accounts(ix, idl)
             d == Effect(ix, acc, c)
  <1>1. AccountsHold(ix, idl, acc, c) /\ Ready(ix, acc, c) /\ Run(c, ix, idl) = d
    BY DEF Run, Executed
  <1>2. DOMAIN acc = {idl[i].name : i \in DOMAIN idl}
    BY DEF Accounts
  <1> HIDE DEF acc
  <1>3. HasShares(c) => HasShares(d)
    <2>1. \/ d.shares = c.shares
          \/ ix.op = "createFeeSharingConfig" /\ ~HasShares(c)
          \/ d.shares.holders = ix.args.shares /\ ValidShares(ix.args.shares)
      BY <1>1 DEF Effect, Ready, Good, IsCoin
    <2>2. ValidShares(ix.args.shares) => ix.args.shares # <<>>
      BY DEF ValidShares
    <2> QED BY <2>1, <2>2 DEF HasShares
  <1>4. d.ammVaults = c.ammVaults
    BY DEF Effect, Good, IsCoin
  <1>5. CASE ix.op \in {"buy", "buyExactSolIn", "sell"}
    <2>1. acc.creatorVault = creatorVaultPda(c.creator)
      BY <1>1, <1>5, TradeHolds
    <2>2. d.fees = c.fees \cup {creatorVaultPda(c.creator)}
      BY <1>5, <2>1 DEF Effect, Good, IsCoin
    <2>3. c.creator \in Owners /\ Config \in Owners /\ (c.creator = Config => HasShares(c))
      BY DEF Good, OwnersHold, Owners
    <2>4. creatorVaultPda(c.creator) \in Vaults(Config) => HasShares(c)
      BY <2>3, OwnVaults
    <2>5. \A o \in Owners : ammVaultAta(o) # creatorVaultPda(c.creator)
      BY <2>3, OwnVaults
    <2> HIDE DEF d
    <2> QED BY <1>1, <1>3, <1>4, <2>2, <2>4, <2>5 DEF Collectable
  <1>6. CASE ix.op = "transferCreatorFeesToPump"
    <2>1. idl = IDL!transferCreatorFeesToPump
      BY <1>6 DEF IDL!Idl
    <2>2. /\ acc.coinCreatorVaultAta = ammVaultAta(acc.coinCreator)
          /\ acc.pumpCreatorVault = creatorVaultPda(acc.coinCreator)
      BY <1>1, <1>2, <1>6, <2>1, TransferHolds
    <2>3. acc.coinCreatorVaultAta \in c.ammVaults
      BY <1>1, <1>6 DEF Ready
    <2>4. PICK o \in Owners : ammVaultAta(acc.coinCreator) = ammVaultAta(o)
      BY <2>2, <2>3 DEF Good, VaultsHold
    <2>5. acc.coinCreator = o
      BY <2>4 DEF ammVaultAta, getAssociatedTokenAddressSync, ammCreatorVaultPda, Pda, Address
    <2>6. d.fees = IF ammVaultAta(o) \in c.fees
                   THEN (c.fees \ {ammVaultAta(o)}) \cup {creatorVaultPda(o)} ELSE c.fees
      BY <1>6, <2>2, <2>5 DEF Effect, Good, IsCoin, Consolidated
    <2>7. creatorVaultPda(o) \in Vaults(Config) => o = Config
      BY OwnVaults DEF Owners
    <2>8. \A p \in Owners : ammVaultAta(p) # creatorVaultPda(o)
      BY OwnVaults
    <2>9. ammVaultAta(Config) \in Vaults(Config)
      BY DEF Vaults
    <2> HIDE DEF d
    <2> QED BY <1>1, <1>3, <1>4, <2>6, <2>7, <2>8, <2>9 DEF Collectable
  <1>7. CASE ix.op \notin {"buy", "buyExactSolIn", "sell", "transferCreatorFeesToPump"}
    <2>1. d.fees \subseteq c.fees
      BY <1>7 DEF Effect, Good, IsCoin
    <2> HIDE DEF d
    <2> QED BY <1>1, <1>3, <1>4, <2>1 DEF Collectable
  <1> QED BY <1>5, <1>6, <1>7

(* A transaction whose instructions bring what is demanded, and that opens *)
(* the accounts it promises shares to, keeps the chain's part of the       *)
(* invariant.                                                              *)
LEMMA LandedKeeps ==
    ASSUME NEW c, Good(c), Payable(c), Collectable(c), NEW ixs, Len(ixs) \in Nat,
           \A i \in 1 .. Len(ixs) : Demands(ixs[i], c), Prepared(ixs),
           Landed(c, ixs) # Refused
    PROVE  Good(Landed(c, ixs)) /\ Payable(Landed(c, ixs)) /\ Collectable(Landed(c, ixs))
              /\ (c.phase # "none" => Landed(c, ixs).phase # "none")
  <1>1. PICK f : /\ f = [i \in 0 .. Len(ixs) |->
                           IF i = 0 THEN c ELSE Run(f[i - 1], ixs[i], IDL!Idl[ixs[i].op])]
                 /\ Landed(c, ixs) = f[Len(ixs)]
    BY LandedIs
  <1> DEFINE Done(n) ==
               f[n] # Refused =>
                 /\ Good(f[n]) /\ Payable(f[n]) /\ Collectable(f[n])
                 /\ (c.phase # "none" => f[n].phase # "none")
                 /\ \A j \in 1 .. n : ixs[j].op = "createSocialFeePda" =>
                                        SocialAccount(ixs[j]) \in f[n].social
             T == {n \in Nat : n \in 0 .. Len(ixs) => Done(n)}
  <1>2. T \subseteq Nat /\ 0 \in T
    BY <1>1
  <1>3. ASSUME NEW n \in T PROVE n + 1 \in T
    <2> SUFFICES ASSUME n + 1 \in 0 .. Len(ixs), f[n + 1] # Refused
                 PROVE  /\ Good(f[n + 1]) /\ Payable(f[n + 1]) /\ Collectable(f[n + 1])
                        /\ c.phase # "none" => f[n + 1].phase # "none"
                        /\ \A j \in 1 .. n + 1 : ixs[j].op = "createSocialFeePda" =>
                                        SocialAccount(ixs[j]) \in f[n + 1].social
      OBVIOUS
    <2> DEFINE ix == ixs[n + 1]
               d == f[n + 1]
               b == f[n]
    <2>1. d = Run(b, ix, IDL!Idl[ix.op])
      BY <1>1
    <2>2. b # Refused
      BY <2>1 DEF Run
    <2>3. /\ Good(b) /\ Payable(b) /\ Collectable(b) /\ (c.phase # "none" => b.phase # "none")
          /\ \A j \in 1 .. n :
               ixs[j].op = "createSocialFeePda" => SocialAccount(ixs[j]) \in b.social
      BY <2>2
    <2>4. n \in Nat /\ n + 1 \in 1 .. Len(ixs)
      OBVIOUS
    <2>5. Demands(ix, b)
      BY <2>3, <2>4 DEF Demands
    <2>6. \A k \in DOMAIN ix.args.shares : ix.op = "updateFeeShares" =>
            LET holder == ix.args.shares[k].address
            IN \/ holder.p = "wallet"
               \/ /\ \E j \in 1 .. n : /\ ixs[j].op = "createSocialFeePda"
                                       /\ SocialAccount(ixs[j]) = holder
                  /\ \E p \in SUPPORTED_SOCIAL_PLATFORMS : holder.s[2] = Wallet(p)
      BY <2>4 DEF Prepared
    <2> HIDE DEF T, ix, d, b
    <2>7. Good(d) /\ (b.phase # "none" => d.phase # "none")
      BY <2>1, <2>3, <2>5, GoodStep DEF d
    <2>8. /\ b.social \subseteq d.social
          /\ ix.op = "createSocialFeePda" => SocialAccount(ix) \in d.social
          /\ \/ d.shares = b.shares
             \/ \E payer \in Users : d.shares = FirstShares(payer)
             \/ ix.op = "updateFeeShares" /\ d.shares.holders = ix.args.shares
      BY <2>1, <2>3, SharesStep DEF d
    <2>9. \A j \in 1 .. n + 1 :
            ixs[j].op = "createSocialFeePda" => SocialAccount(ixs[j]) \in d.social
      <3> SUFFICES ASSUME NEW j \in 1 .. n + 1, ixs[j].op = "createSocialFeePda"
                   PROVE  SocialAccount(ixs[j]) \in d.social
        OBVIOUS
      <3>1. CASE j \in 1 .. n
        BY <3>1, <2>3, <2>8
      <3>2. CASE j = n + 1
        BY <3>2, <2>8 DEF ix
      <3> QED BY <3>1, <3>2, <2>4
    <2>10. Payable(d)
      <3>1. CASE d.shares = b.shares
        BY <3>1, <2>3, <2>8 DEF Payable, CanBePaid
      <3>2. CASE \E payer \in Users : d.shares = FirstShares(payer)
        <4>1. PICK payer \in Users : d.shares = FirstShares(payer)
          BY <3>2
        <4>2. d.shares.holders = <<[address |-> payer, bps |-> ShareTotal]>>
          BY <4>1 DEF FirstShares
        <4>3. \A i \in DOMAIN d.shares.holders : d.shares.holders[i].address = payer
          BY <4>2
        <4> QED BY <4>3, Distinct DEF Payable, CanBePaid
      <3>3. CASE ix.op = "updateFeeShares" /\ d.shares.holders = ix.args.shares
        BY <3>3, <2>3, <2>6, <2>8 DEF Payable, CanBePaid
      <3> QED BY <2>8, <3>1, <3>2, <3>3
    <2>11. Collectable(d)
      BY <2>1, <2>3, CollectableStep DEF d
    <2> QED BY <2>3, <2>7, <2>9, <2>10, <2>11 DEF d
  <1> HIDE DEF T
  <1>4. T = Nat
    BY <1>2, <1>3, Inductive
  <1>5. Done(Len(ixs))
    BY <1>4 DEF T
  <1> QED BY <1>1, <1>5

------------------------------------------------------------------------------
(***************************************************************************)
(* What the methods of the SDK build is of that kind.  A request is a list *)
(* of instructions, none of which sets shares, that ask for what a program *)
(* does not check.                                                         *)
(***************************************************************************)

(* What an instruction has to bring for that, before it is filled in. *)
Asks(b, c) ==
  /\ b.op \in {"create", "createV2"} =>
       b.args.creator \in Users /\ b.args.mayhem \in BOOLEAN /\ b.args.cashback \in BOOLEAN
  /\ b.op \in SetsCreator => b.args.creator \in Users
  /\ b.op = "createIdempotent" => /\ b.rest = <<>> /\ "wallet" \in DOMAIN b.given
                                  /\ b.given["wallet"] \in Users
  /\ b.op = "initUserVolumeAccumulator" => /\ b.rest = <<>> /\ "user" \in DOMAIN b.given
                                           /\ b.given["user"] \in Users
  /\ b.op = "createFeeSharingConfig" => c.phase # "none"
  /\ b.op = "updateFeeShares" => List(b.args.shares)
Fine(b, c) == Asks(b, c) /\ b.op # "updateFeeShares"
Request(ixs, c) == \E S : ixs \in Seq(S) /\ \A b \in S : Fine(b, c)

(* Requests are made one after the other, *)
LEMMA RequestJoin ==
    ASSUME NEW c, NEW s, NEW t, Request(s, c), Request(t, c)
    PROVE  Request(s \o t, c)
  <1>1. PICK S : s \in Seq(S) /\ \A b \in S : Fine(b, c)
    BY DEF Request
  <1>2. PICK T : t \in Seq(T) /\ \A b \in T : Fine(b, c)
    BY DEF Request
  <1>3. s \in Seq(S \cup T) /\ t \in Seq(S \cup T)
    BY <1>1, <1>2
  <1>4. s \o t \in Seq(S \cup T)
    BY <1>3
  <1> QED BY <1>1, <1>2, <1>4 DEF Request

(* of one instruction, *)
LEMMA RequestOne ==
    ASSUME NEW c, NEW b, Fine(b, c)
    PROVE  Request(<<b>>, c)
  <1>1. <<b>> \in Seq({b})
    OBVIOUS
  <1>2. \A x \in {b} : Fine(x, c)
    OBVIOUS
  <1> DEFINE T == {b}
  <1> HIDE DEF T
  <1>3. <<b>> \in Seq(T) /\ \A x \in T : Fine(x, c)
    BY <1>1, <1>2 DEF T
  <1> QED BY <1>3 DEF Request

(* of none, *)
LEMMA RequestNone == ASSUME NEW c PROVE Request(<<>>, c)
  <1>1. <<>> \in Seq({})
    OBVIOUS
  <1> DEFINE T == {}
  <1>2. \A x \in T : Fine(x, c)
    OBVIOUS
  <1>3. <<>> \in Seq(T)
    BY <1>1
  <1> HIDE DEF T
  <1> QED BY <1>2, <1>3 DEF Request

(* or of four. *)
LEMMA RequestFour ==
    ASSUME NEW c, NEW w, NEW x, NEW y, NEW z, Fine(w, c), Fine(x, c), Fine(y, c), Fine(z, c)
    PROVE  Request(<<w, x, y, z>>, c)
  <1> DEFINE T == {w, x, y, z}
  <1>1. <<w, x, y, z>> \in Seq(T)
    OBVIOUS
  <1>2. \A b \in T : Fine(b, c)
    OBVIOUS
  <1> HIDE DEF T
  <1> QED BY <1>1, <1>2 DEF Request

(* Two account lists name a user: the one of a token account third, *)
LEMMA OpenTable ==
  /\ IDL!Idl["createIdempotent"] = IDL!createIdempotent
  /\ DOMAIN IDL!createIdempotent = 1 .. 6 /\ Len(IDL!createIdempotent) = 6
  /\ IDL!createIdempotent[3].name = "wallet"
  BY GivenName DEF IDL!Idl, IDL!createIdempotent

(* the one of a new volume accumulator second. *)
LEMMA InitTable ==
  /\ IDL!Idl["initUserVolumeAccumulator"] = IDL!initUserVolumeAccumulator
  /\ DOMAIN IDL!initUserVolumeAccumulator = 1 .. 6 /\ Len(IDL!initUserVolumeAccumulator) = 6
  /\ IDL!initUserVolumeAccumulator[2].name = "user"
  BY GivenName DEF IDL!Idl, IDL!initUserVolumeAccumulator, IDL!Events

(* An instruction that asks for what it should, demands what it should when *)
(* it is filled in;                                                         *)
LEMMA AsksDemands ==
    ASSUME NEW b, NEW c, Asks(b, c)
    PROVE  Demands(FilledIn(b, IDL!Idl[b.op]), c)
  <1> DEFINE ix == FilledIn(b, IDL!Idl[b.op])
  <1>1. ix.op = b.op /\ ix.args = b.args
    BY DEF FilledIn, Filled
  <1>2. ASSUME b.op = "createIdempotent" PROVE Accounts(ix, IDL!Idl[b.op]).wallet \in Users
    <2> DEFINE idl == IDL!createIdempotent
    <2>1. b.rest = <<>> /\ "wallet" \in DOMAIN b.given /\ b.given["wallet"] \in Users
      BY <1>2 DEF Asks
    <2>2. /\ b.rest \in Seq({}) /\ \E i \in DOMAIN idl : idl[i].name = "wallet"
          /\ Len(idl) \in Nat /\ DOMAIN idl = 1 .. Len(idl)
      BY <2>1, OpenTable
    <2>3. Accounts(FilledIn(b, idl), idl)["wallet"] = b.given["wallet"]
      BY <2>1, <2>2, GivenAccount, ZenonT(30)
    <2> QED BY <1>2, <2>1, <2>3, OpenTable
  <1>3. ASSUME b.op = "initUserVolumeAccumulator"
        PROVE  Accounts(ix, IDL!Idl[b.op]).user \in Users
    <2> DEFINE idl == IDL!initUserVolumeAccumulator
    <2>1. b.rest = <<>> /\ "user" \in DOMAIN b.given /\ b.given["user"] \in Users
      BY <1>3 DEF Asks
    <2>2. /\ b.rest \in Seq({}) /\ \E i \in DOMAIN idl : idl[i].name = "user"
          /\ Len(idl) \in Nat /\ DOMAIN idl = 1 .. Len(idl)
      BY <2>1, InitTable
    <2>3. Accounts(FilledIn(b, idl), idl)["user"] = b.given["user"]
      BY <2>1, <2>2, GivenAccount, ZenonT(30)
    <2> QED BY <1>3, <2>1, <2>3, InitTable
  <1> QED BY <1>1, <1>2, <1>3 DEF Asks, Demands

(* so do all of a list, *)
LEMMA ListDemands ==
    ASSUME NEW c, NEW ixs, NEW S, ixs \in Seq(S), \A i \in 1 .. Len(ixs) : Asks(ixs[i], c)
    PROVE  /\ Len(Instructions(ixs)) \in Nat
           /\ \A i \in 1 .. Len(Instructions(ixs)) : Demands(Instructions(ixs)[i], c)
  BY InstructionsAre, AsksDemands

(* and a request opens every account it promises shares to, since it *)
(* promises none.                                                    *)
LEMMA RequestDemands ==
    ASSUME NEW c, NEW ixs, Request(ixs, c)
    PROVE  /\ Len(Instructions(ixs)) \in Nat
           /\ \A i \in 1 .. Len(Instructions(ixs)) : Demands(Instructions(ixs)[i], c)
           /\ Prepared(Instructions(ixs))
  <1>1. PICK S : ixs \in Seq(S) /\ \A b \in S : Fine(b, c)
    BY DEF Request
  <1>2. \A i \in 1 .. Len(ixs) : Asks(ixs[i], c) /\ ixs[i].op # "updateFeeShares"
    BY <1>1 DEF Fine
  <1>3. \A i \in 1 .. Len(Instructions(ixs)) : Instructions(ixs)[i].op # "updateFeeShares"
    BY <1>1, <1>2, InstructionsAre
  <1>4. Prepared(Instructions(ixs))
    BY <1>3 DEF Prepared
  <1> QED BY <1>1, <1>2, <1>4, ListDemands

(* Which instructions are fine: those that bring nothing the program does *)
(* not check,                                                             *)
LEMMA FinePlain ==
    ASSUME NEW op, NEW given, NEW rest, NEW args, NEW c,
           op \notin {"create", "createV2", "setCreator", "adminSetCreator", "adminSetCoinCreator",
                      "createIdempotent", "initUserVolumeAccumulator", "createFeeSharingConfig",
                      "updateFeeShares"}
    PROVE  Fine(instruction(op, given, rest, args), c)
  BY DEF Fine, Asks, instruction, SetsCreator

(* creations, *)
LEMMA FineCreate ==
    ASSUME NEW user \in Users, NEW mayhem \in BOOLEAN, NEW cashback \in BOOLEAN, NEW c
    PROVE  /\ Fine(createInstruction(user, user), c)
           /\ Fine(createV2Instruction(user, user, mayhem, cashback), c)
  <1>1. Fine(createInstruction(user, user), c)
    BY DEF Fine, Asks, SetsCreator, createInstruction, instruction
  <1>2. Fine(createV2Instruction(user, user, mayhem, cashback), c)
    BY DEF Fine, Asks, SetsCreator, createV2Instruction, instruction
  <1> QED BY <1>1, <1>2

(* new token accounts, *)
LEMMA FineAccount ==
    ASSUME NEW user \in Users, NEW payer, NEW token, NEW c
    PROVE  Fine(createAssociatedTokenAccountIdempotentInstruction(payer, user, token), c)
  BY DEF Fine, Asks, SetsCreator, createAssociatedTokenAccountIdempotentInstruction, instruction

(* buys, *)
LEMMA FineBuy ==
    ASSUME NEW user, NEW creator, NEW recipient, NEW token, NEW c
    PROVE  Fine(getBuyInstructionInternal(user, creator, recipient, token), c)
  BY FinePlain DEF getBuyInstructionInternal

(* sales, *)
LEMMA FineSell ==
    ASSUME NEW user, NEW creator, NEW recipient, NEW token, NEW cashback, NEW c
    PROVE  Fine(getSellInstructionInternal(user, creator, recipient, token, cashback), c)
  <1> DEFINE given == [feeRecipient |-> recipient, mint |-> MINT, user |-> user,
                       associatedUser |-> getAssociatedTokenAddressSync(MINT, user, token),
                       creatorVault |-> creatorVaultPda(creator), tokenProgram |-> token]
             rest == IF cashback THEN <<Meta(userVolumeAccumulatorPda(user), W)>> \o TradeRest
                     ELSE TradeRest
  <1>1. getSellInstructionInternal(user, creator, recipient, token, cashback)
          = instruction("sell", given, rest, NoArgs)
    BY DEF getSellInstructionInternal
  <1> HIDE DEF given, rest
  <1> QED BY <1>1, FinePlain

(* and extensions of the curve. *)
LEMMA FineExtension == ASSUME NEW user, NEW c PROVE Fine(extendAccountInstruction(user), c)
  BY FinePlain DEF extendAccountInstruction

(* The requests of the methods: the volume accumulator, *)
LEMMA AccumulatorAsks ==
    ASSUME NEW user \in Users, NEW c
    PROVE  Request(initUserVolumeAccumulator(user, user), c)
  <1> DEFINE b == instruction("initUserVolumeAccumulator", [payer |-> user, user |-> user], <<>>,
                              NoArgs)
  <1>1. Fine(b, c)
    BY DEF Fine, Asks, instruction, SetsCreator
  <1> QED BY <1>1, RequestOne DEF initUserVolumeAccumulator

(* a change of creator, *)
LEMMA SetCreatorAsks ==
    ASSUME NEW user, NEW c
    PROVE  /\ Request(setCreator(user, Other), c)
           /\ Request(adminSetCoinCreatorInstructions(user, Other), c)
  <1> DEFINE b == instruction("setCreator", [mint |-> MINT, setCreatorAuthority |-> user], <<>>,
                              [creator |-> Other])
             d == adminSetCoinCreatorInstructions(user, Other)
  <1>1. Fine(b, c) /\ Fine(d[1], c) /\ Fine(d[2], c)
    BY DEF Fine, Asks, instruction, Users, SetsCreator, adminSetCoinCreatorInstructions
  <1>2. d = <<d[1]>> \o <<d[2]>>
    BY DEF adminSetCoinCreatorInstructions
  <1> HIDE DEF b, d
  <1>3. Request(<<b>>, c) /\ Request(<<d[1]>>, c) /\ Request(<<d[2]>>, c)
    BY <1>1, RequestOne
  <1>4. Request(d, c)
    BY <1>2, <1>3, RequestJoin
  <1> QED BY <1>3, <1>4 DEF setCreator, b, d

(* a sharing configuration, *)
LEMMA SharingAsks ==
    ASSUME NEW user, NEW pool, NEW c, c.phase # "none"
    PROVE  Request(<<createFeeSharingConfig(user, pool)>>, c)
  <1>1. Fine(createFeeSharingConfig(user, pool), c)
    BY DEF Fine, Asks, SetsCreator, createFeeSharingConfig, instruction
  <1> QED BY <1>1, RequestOne

(* trades, *)
LEMMA TradesAsk ==
    ASSUME NEW user \in Users, NEW curve, NEW mayhem, NEW cashback, NEW c
    PROVE  /\ Request(buyInstructions(user, curve), c)
           /\ Request(sellInstructions(user, curve, mayhem, cashback), c)
  <1> DEFINE account == createAssociatedTokenAccountIdempotentInstruction(user, user, curve.token)
             opened == IF curve.ata THEN <<>> ELSE <<account>>
             bought == <<buyInstruction(user, curve.creator, curve.token, curve.mayhem)>>
             sold == <<getSellInstructionInternal(user, curve.creator, getFeeRecipient(mayhem),
                                                  curve.token, cashback)>>
             extended == Extension(user, curve)
  <1>1. Request(extended, c)
    BY FineExtension, RequestOne, RequestNone DEF Extension
  <1>2. Request(opened, c)
    BY FineAccount, RequestOne, RequestNone
  <1>3. Request(bought, c)
    BY FineBuy, RequestOne DEF buyInstruction
  <1>4. Request(sold, c)
    BY FineSell, RequestOne
  <1> HIDE DEF extended, opened, bought, sold
  <1>5. Request(extended \o opened, c) /\ Request(extended \o sold, c)
    BY <1>1, <1>2, <1>4, RequestJoin
  <1>6. Request(extended \o opened \o bought, c)
    BY <1>3, <1>5, RequestJoin
  <1> QED BY <1>5, <1>6 DEF buyInstructions, sellInstructions, extended, opened, bought, sold

(* creations with a first buy, *)
LEMMA CreationsAsk ==
    ASSUME NEW user \in Users, NEW mayhem \in BOOLEAN, NEW cashback \in BOOLEAN, NEW c
    PROVE  /\ Request(createAndBuyInstructions(user, user), c)
           /\ Request(createV2AndBuyInstructions(user, user, mayhem, cashback), c)
  <1>1. \A token, mode : Fine(buyInstruction(user, user, token, mode), c)
    BY FineBuy DEF buyInstruction
  <1>2. Request(createAndBuyInstructions(user, user), c)
    BY <1>1, FineCreate, FineExtension, FineAccount, RequestFour DEF createAndBuyInstructions
  <1>3. Request(createV2AndBuyInstructions(user, user, mayhem, cashback), c)
    BY <1>1, FineCreate, FineExtension, FineAccount, RequestFour DEF createV2AndBuyInstructions
  <1> QED BY <1>2, <1>3

(* paying out shares, *)
LEMMA PayOutsAsk ==
    ASSUME NEW config, NEW c
    PROVE  /\ Request(buildDistributeCreatorFeesInstructions(config), c)
           /\ Request(minimumDistributableFeeInstructions(config), c)
  <1> DEFINE moved == instruction("transferCreatorFeesToPump",
                        [wsolMint |-> NATIVE_MINT, tokenProgram |-> TOKEN_PROGRAM_ID,
                         coinCreator |-> feeSharingConfigPda(MINT)], <<>>, NoArgs)
  <1>1. Fine(moved, c)
    BY FinePlain
  <1>2. Consolidation(config) \in {<<moved>>, <<>>}
    BY DEF Consolidation
  <1> HIDE DEF moved
  <1>3. Request(Consolidation(config), c)
    BY <1>1, <1>2, RequestOne, RequestNone
  <1>4. /\ Fine(distributeCreatorFees(config.holders), c)
        /\ Fine(getMinimumDistributableFee(config.holders), c)
    BY FinePlain DEF distributeCreatorFees, getMinimumDistributableFee
  <1>5. /\ Request(<<distributeCreatorFees(config.holders)>>, c)
        /\ Request(<<getMinimumDistributableFee(config.holders)>>, c)
    BY <1>4, RequestOne
  <1> QED
    BY <1>3, <1>5, RequestJoin
       DEF buildDistributeCreatorFeesInstructions, minimumDistributableFeeInstructions

(* claims, *)
LEMMA ClaimsAsk ==
    ASSUME NEW user, NEW flag, NEW c
    PROVE  /\ Request(syncUserVolumeAccumulator(user), c)
           /\ Request(closeUserVolumeAccumulator(user), c)
           /\ Request(<<claimCashbackInstruction(user)>>, c)
           /\ Request(claimTokenIncentives(user, user, flag), c)
           /\ Request(adminUpdateTokenIncentives(user), c)
  <1> DEFINE claim == instruction("claimTokenIncentives",
                        [user |-> user, payer |-> user, mint |-> PUMP_TOKEN_MINT,
                         tokenProgram |-> TOKEN_2022_PROGRAM_ID], <<>>, NoArgs)
  <1>1. Request(syncUserVolumeAccumulator(user), c) /\ Request(closeUserVolumeAccumulator(user), c)
    BY FinePlain, RequestOne DEF syncUserVolumeAccumulator, closeUserVolumeAccumulator
  <1>2. Request(<<claimCashbackInstruction(user)>>, c)
    BY FinePlain, RequestOne DEF claimCashbackInstruction
  <1>3. Request(adminUpdateTokenIncentives(user), c)
    BY FinePlain, RequestOne DEF adminUpdateTokenIncentives
  <1>4. Request(<<claim>>, c)
    BY FinePlain, RequestOne
  <1>5. claimTokenIncentives(user, user, flag) \in {<<>>, <<claim>>}
    BY DEF claimTokenIncentives
  <1> HIDE DEF claim
  <1>6. Request(claimTokenIncentives(user, user, flag), c)
    BY <1>4, <1>5, RequestNone
  <1> QED BY <1>1, <1>2, <1>3, <1>6

(* the migration, *)
LEMMA MigrationAsks ==
    ASSUME NEW user, NEW token, NEW c
    PROVE  Request(<<migrateInstruction(Authority, user, token)>>, c)
  BY FinePlain, RequestOne DEF migrateInstruction

(* and collecting the fees of a creator. *)
LEMMA CollectionAsks ==
    ASSUME NEW user, NEW c
    PROVE  Request(collectCoinCreatorFeeInstructions(user), c)
  <1> DEFINE curve == instruction("collectCreatorFee", [creator |-> user], <<>>, NoArgs)
             amm == instruction("collectCoinCreatorFee",
                      [coinCreator |-> user, quoteMint |-> NATIVE_MINT,
                       quoteTokenProgram |-> TOKEN_PROGRAM_ID,
                       coinCreatorVaultAuthority |-> ammCreatorVaultPda(user),
                       coinCreatorVaultAta |-> ammVaultAta(user),
                       coinCreatorTokenAccount |->
                         getAssociatedTokenAddressSync(NATIVE_MINT, user, TOKEN_PROGRAM_ID)],
                      <<>>, NoArgs)
             T == {curve, amm}
  <1>1. collectCoinCreatorFeeInstructions(user) = <<curve, amm>>
    BY DEF collectCoinCreatorFeeInstructions
  <1>2. Fine(curve, c) /\ Fine(amm, c)
    BY FinePlain
  <1> HIDE DEF curve, amm
  <1>3. <<curve, amm>> \in Seq(T) /\ \A b \in T : Fine(b, c)
    BY <1>2
  <1> HIDE DEF T
  <1> QED BY <1>1, <1>3 DEF Request

(* So every method that sets no shares builds a request. *)
LEMMA PlainCallAsks ==
    ASSUME NEW m, NEW c, m # NoCall, CallOK(m, c), m.op \in CallsPlain
    PROVE  Request(SdkCall(m), c)
  <1>1. m.op \notin {"setCreator", "adminSetCreator", "adminIncentives"} => m.user \in Users
    BY DEF CallOK
  <1>2. CASE m.op = "createAndBuy"
    BY <1>1, <1>2, CreationsAsk DEF SdkCall
  <1>3. CASE m.op = "createV2AndBuy"
    <2>1. m.opt.mayhem \in BOOLEAN /\ m.opt.cashback \in BOOLEAN
      BY <1>3, ModesAssumption DEF CallOK
    <2> QED BY <1>1, <1>3, <2>1, CreationsAsk DEF SdkCall
  <1>4. CASE m.op \in {"buy", "sell"}
    BY <1>1, <1>4, TradesAsk DEF SdkCall
  <1>5. CASE m.op = "buyRaw"
    <2>1. SdkCall(m) = <<getBuyInstructionRaw(m.user, m.seen.creator, m.seen.token)>>
      BY <1>5 DEF SdkCall
    <2> QED BY <2>1, FineBuy, RequestOne DEF getBuyInstructionRaw
  <1>6. CASE m.op = "sellRaw"
    <2>1. SdkCall(m)
            = <<getSellInstructionRaw(m.user, m.seen.creator, m.seen.token, m.opt.cashback)>>
      BY <1>6 DEF SdkCall
    <2> QED BY <2>1, FineSell, RequestOne DEF getSellInstructionRaw
  <1>7. CASE m.op = "migrate"
    BY <1>7, MigrationAsks DEF SdkCall
  <1>8. CASE m.op = "initAccumulator"
    BY <1>1, <1>8, AccumulatorAsks DEF SdkCall
  <1>9. CASE m.op \in {"syncAccumulator", "closeAccumulator", "claimCashback", "claimIncentives",
                       "adminIncentives"}
    BY <1>9, ClaimsAsk DEF SdkCall
  <1>10. CASE m.op \in {"setCreator", "adminSetCreator"}
    BY <1>10, SetCreatorAsks DEF SdkCall
  <1>11. CASE m.op = "collect"
    BY <1>11, CollectionAsks DEF SdkCall
  <1>12. CASE m.op = "shareAlone"
    <2>1. c.phase # "none"
      BY <1>12 DEF CallOK
    <2> QED BY <1>12, <2>1, SharingAsks DEF SdkCall
  <1>13. CASE m.op \in {"distribute", "minimumFee"}
    BY <1>13, PayOutsAsk DEF SdkCall
  <1> QED
    BY <1>2, <1>3, <1>4, <1>5, <1>6, <1>7, <1>8, <1>9, <1>10, <1>11, <1>12, <1>13 DEF CallsPlain

------------------------------------------------------------------------------
(***************************************************************************)
(* The methods that set shares open the accounts of the social recipients  *)
(* first.                                                                  *)
(***************************************************************************)

(* A finite set enumerated is a sequence in which each element occurs. *)
LEMMA EnumerationIs ==
    ASSUME NEW T, IsFiniteSet(T)
    PROVE  /\ SetToSeq(T) \in Seq(T)
           /\ \A x \in T : \E j \in 1 .. Len(SetToSeq(T)) : SetToSeq(T)[j] = x
  <1> DEFINE n == Cardinality(T)
             s == SetToSeq(T)
  <1>1. n \in Nat /\ ExistsBijection(1 .. n, T)
    BY FS_CardinalityType
  <1>2. \E f \in [1 .. n -> T] : IsInjective(f)
    BY <1>1 DEF ExistsBijection, Bijection, Injection
  <1>3. s \in [1 .. n -> T] /\ IsInjective(s)
    BY <1>2 DEF SetToSeq
  <1> HIDE DEF s
  <1>4. s \in Injection(1 .. n, T)
    BY <1>3 DEF Injection
  <1>5. IsFiniteSet(1 .. n) /\ Cardinality(1 .. n) = n
    <2>1. IsFiniteSet(1 .. n) /\ Cardinality(1 .. n) = IF 1 > n THEN 0 ELSE n - 1 + 1
      BY <1>1, FS_Interval
    <2> QED BY <1>1, <2>1
  <1>6. s \in Surjection(1 .. n, T)
    BY <1>4, <1>5, FS_Injection
  <1>7. \A x \in T : \E j \in 1 .. n : s[j] = x
    BY <1>6 DEF Surjection
  <1>8. s \in Seq(T) /\ Len(s) = n
    BY <1>1, <1>3
  <1> QED BY <1>7, <1>8 DEF s

(* The social recipients of a list of shares are finitely many. *)
LEMMA RecipientsFinite ==
    ASSUME NEW shares, NEW M, shares \in Seq(M)
    PROVE  IsFiniteSet(SocialRecipients(shares))
  <1> DEFINE J == {j \in DOMAIN shares : shares[j].platform # "none"}
             f == [j \in J |-> <<shares[j].who, shares[j].platform>>]
             T == {<<shares[i].who, shares[i].platform>> : i \in J}
  <1>1. Len(shares) \in Nat /\ DOMAIN shares = 1 .. Len(shares)
    OBVIOUS
  <1>2. IsFiniteSet(DOMAIN shares)
    BY <1>1, FS_Interval
  <1>3. IsFiniteSet(J)
    BY <1>2, FS_Subset
  <1>4. f \in Surjection(J, T)
    BY DEF Surjection
  <1>5. IsFiniteSet(T)
    <2> HIDE DEF f, J, T
    <2> QED BY <1>3, <1>4, FS_Surjection
  <1> QED BY <1>5 DEF SocialRecipients

(* The account the fee program opens for a social recipient is the one the *)
(* SDK derives.                                                            *)
LEMMA SocialTable ==
  /\ IDL!Idl["createSocialFeePda"] = IDL!createSocialFeePda
  /\ DOMAIN IDL!createSocialFeePda = 1 .. 6 /\ Len(IDL!createSocialFeePda) = 6
  /\ IDL!createSocialFeePda[2].name = "socialFeePda"
  BY GivenName DEF IDL!Idl, IDL!createSocialFeePda, IDL!Events

(* So a social recipient of the list has its account opened. *)
LEMMA SocialAccountIs ==
    ASSUME NEW payer, NEW userId, NEW platform
    PROVE  LET b == createSocialFeePda(payer, userId, platform)
           IN /\ b.op = "createSocialFeePda"
              /\ SocialAccount(FilledIn(b, IDL!Idl[b.op])) = socialFeePda(userId, platform)
  <1> DEFINE b == createSocialFeePda(payer, userId, platform)
             idl == IDL!createSocialFeePda
  <1>1. /\ b.op = "createSocialFeePda" /\ b.rest = <<>>
        /\ "socialFeePda" \in DOMAIN b.given
        /\ b.given["socialFeePda"] = socialFeePda(userId, platform)
    BY DEF createSocialFeePda, instruction
  <1>2. FilledIn(b, idl).op = "createSocialFeePda"
    BY <1>1 DEF FilledIn, Filled
  <1>3. \E i \in DOMAIN idl : idl[i].name = "socialFeePda"
    BY SocialTable
  <1>4. Len(idl) \in Nat /\ DOMAIN idl = 1 .. Len(idl) /\ b.rest \in Seq({})
    BY <1>1, SocialTable
  <1>5. "socialFeePda" \in DOMAIN b.given
    BY <1>1
  <1> HIDE DEF b, idl
  <1>6. Accounts(FilledIn(b, idl), idl)["socialFeePda"] = b.given["socialFeePda"]
    BY <1>3, <1>4, <1>5, GivenAccount
  <1>7. IDL!Idl[b.op] = idl
    BY <1>1, SocialTable DEF idl
  <1> QED BY <1>1, <1>2, <1>6, <1>7 DEF SocialAccount, b

(* A normalised shareholder is a wallet, or the account of a recipient of *)
(* the list on a supported platform.                                      *)
LEMMA NormalizedHolder ==
    ASSUME NEW shares, Normalizable(shares), NEW k \in DOMAIN normalizeSocialShareholders(shares)
    PROVE  LET holder == normalizeSocialShareholders(shares)[k].address
           IN \/ holder.p = "wallet"
              \/ \E who, p : /\ <<who, p>> \in SocialRecipients(shares)
                             /\ holder = socialFeePda(who, p) /\ p \in SUPPORTED_SOCIAL_PLATFORMS
                             /\ holder.s[2] = Wallet(p)
  <1>1. k \in DOMAIN shares
    BY DEF normalizeSocialShareholders
  <1>2. CASE shares[k].platform = "none"
    BY <1>1, <1>2 DEF normalizeSocialShareholders, Wallet, Address
  <1>3. CASE shares[k].platform # "none"
    <2> DEFINE who == shares[k].who
               p == shares[k].platform
    <2>1. <<who, p>> \in SocialRecipients(shares)
      BY <1>1, <1>3 DEF SocialRecipients
    <2>2. p \in SUPPORTED_SOCIAL_PLATFORMS
      BY <1>1, <1>3 DEF Normalizable
    <2>3. normalizeSocialShareholders(shares)[k].address = socialFeePda(who, p)
      BY <1>1, <1>3 DEF normalizeSocialShareholders
    <2>4. socialFeePda(who, p).s[2] = Wallet(p)
      BY DEF socialFeePda, Pda, Address
    <2> HIDE DEF who, p
    <2> QED BY <2>1, <2>2, <2>3, <2>4
  <1> QED BY <1>2, <1>3

(* The new shares come after the accounts of all their social holders, *)
LEMMA UpdatePrepared ==
    ASSUME NEW c, NEW before, Request(before, c), NEW user, NEW current,
           NEW M, NEW shares \in Seq(M), ~ThrowsOn(shares)
    PROVE  LET ixs == Instructions(before
                         \o updateSharingConfigWithSocialRecipients(user, current, shares))
           IN /\ Len(ixs) \in Nat
              /\ \A i \in 1 .. Len(ixs) : Demands(ixs[i], c)
              /\ Prepared(ixs)
  <1> DEFINE recipients == SetToSeq(SocialRecipients(shares))
             create(r) == createSocialFeePda(user, r[1], r[2])
             creations == [i \in DOMAIN recipients |-> create(recipients[i])]
             new == normalizeSocialShareholders(shares)
             update == updateFeeShares(user, current, new)
             all == before \o (creations \o <<update>>)
             ixs == Instructions(all)
             k == Len(before)
             n == Len(recipients)
  <1>1. PICK S : before \in Seq(S) /\ \A b \in S : Fine(b, c)
    BY DEF Request
  <1>2. /\ recipients \in Seq(SocialRecipients(shares))
        /\ \A r \in SocialRecipients(shares) : \E j \in 1 .. n : recipients[j] = r
    BY RecipientsFinite, EnumerationIs
  <1>3. updateSharingConfigWithSocialRecipients(user, current, shares) = creations \o <<update>>
    BY DEF updateSharingConfigWithSocialRecipients
  <1>4. update.op = "updateFeeShares" /\ update.args.shares = new
    BY DEF updateFeeShares, instruction
  <1>5. \A r : /\ create(r).op = "createSocialFeePda" /\ Asks(create(r), c)
               /\ SocialAccount(FilledIn(create(r), IDL!Idl[create(r).op]))
                    = socialFeePda(r[1], r[2])
    <2> TAKE r
    <2>1. /\ create(r).op = "createSocialFeePda"
          /\ SocialAccount(FilledIn(create(r), IDL!Idl[create(r).op])) = socialFeePda(r[1], r[2])
      BY SocialAccountIs
    <2>2. Fine(create(r), c)
      BY FinePlain DEF createSocialFeePda
    <2> QED BY <2>1, <2>2 DEF Fine
  <1>6. Normalizable(shares)
    BY DEF ThrowsOn
  <1>7. List(new)
    <2>1. Len(shares) \in Nat /\ DOMAIN new = 1 .. Len(shares)
      BY DEF normalizeSocialShareholders
    <2>2. new = [i \in DOMAIN new |-> new[i]]
      BY DEF normalizeSocialShareholders
    <2> DEFINE N == {new[i] : i \in 1 .. Len(shares)}
    <2> HIDE DEF new
    <2>3. new \in Seq(N)
      BY <2>1, <2>2
    <2> HIDE DEF N
    <2> QED BY <2>3 DEF List
  <1> HIDE DEF recipients, create, new, update
  <1> DEFINE T == S \cup {create(recipients[j]) : j \in 1 .. n} \cup {update}
  <1>8. n \in Nat /\ k \in Nat /\ DOMAIN recipients = 1 .. n
    BY <1>1, <1>2
  <1>9. /\ creations \in Seq(T) /\ Len(creations) = n
        /\ \A j \in 1 .. n : creations[j] = create(recipients[j])
    BY <1>8
  <1>10. <<update>> \in Seq(T) /\ before \in Seq(T)
    BY <1>1
  <1> HIDE DEF T, creations
  <1>11. /\ all \in Seq(T) /\ Len(all) = k + n + 1 /\ all[k + n + 1] = update
         /\ \A i \in 1 .. k : all[i] = before[i]
         /\ \A j \in 1 .. n : all[k + j] = creations[j]
    <2> DEFINE rest == creations \o <<update>>
    <2>1. /\ rest \in Seq(T) /\ Len(rest) = n + 1 /\ rest[n + 1] = update
          /\ \A j \in 1 .. n : rest[j] = creations[j]
      BY <1>8, <1>9, <1>10, SMTT(20)
    <2> HIDE DEF rest
    <2>2. /\ before \o rest \in Seq(T) /\ Len(before \o rest) = k + n + 1
          /\ \A i \in 1 .. k : (before \o rest)[i] = before[i]
          /\ \A j \in 1 .. n + 1 : (before \o rest)[k + j] = rest[j]
      BY <1>8, <1>10, <2>1, SMTT(20)
    <2>3. (before \o rest)[k + (n + 1)] = rest[n + 1] /\ k + (n + 1) = k + n + 1
      BY <1>8, <2>2
    <2> QED BY <1>8, <2>1, <2>2, <2>3 DEF rest
  <1> HIDE DEF all
  <1>12. \A i \in 1 .. Len(all) : i \in 1 .. k \/ (\E j \in 1 .. n : i = k + j) \/ i = k + n + 1
    <2> SUFFICES ASSUME NEW i \in 1 .. k + n + 1, i \notin 1 .. k, i # k + n + 1
                 PROVE  \E j \in 1 .. n : i = k + j
      BY <1>11
    <2>1. i - k \in 1 .. n /\ i = k + (i - k)
      BY <1>8
    <2> QED BY <2>1
  <1>13. \A i \in 1 .. k : Asks(all[i], c) /\ all[i].op # "updateFeeShares"
    BY <1>1, <1>11 DEF Fine
  <1>14. \A j \in 1 .. n : Asks(all[k + j], c) /\ all[k + j].op = "createSocialFeePda"
    <2> TAKE j \in 1 .. n
    <2>1. all[k + j] = create(recipients[j])
      BY <1>9, <1>11
    <2>2. Asks(create(recipients[j]), c) /\ create(recipients[j]).op = "createSocialFeePda"
      BY <1>5
    <2> QED BY <2>1, <2>2
  <1>15. Asks(update, c)
    BY <1>4, <1>7 DEF Asks, SetsCreator
  <1>16. \A i \in 1 .. Len(all) : Asks(all[i], c)
    BY <1>11, <1>12, <1>13, <1>14, <1>15
  <1>17. Len(ixs) \in Nat /\ \A i \in 1 .. Len(ixs) : Demands(ixs[i], c)
    BY <1>11, <1>16, ListDemands
  <1>18. /\ Len(ixs) = k + n + 1
         /\ \A i \in 1 .. k + n + 1 : /\ ixs[i] = FilledIn(all[i], IDL!Idl[all[i].op])
                                      /\ ixs[i].op = all[i].op /\ ixs[i].args = all[i].args
    BY <1>11, InstructionsAre
  <1> HIDE DEF ixs
  <1>19. Prepared(ixs)
    <2> SUFFICES ASSUME NEW i \in 1 .. Len(ixs), ixs[i].op = "updateFeeShares",
                        NEW h \in DOMAIN ixs[i].args.shares
                 PROVE  LET holder == ixs[i].args.shares[h].address
                        IN \/ holder.p = "wallet"
                           \/ /\ \E j \in 1 .. i - 1 : /\ ixs[j].op = "createSocialFeePda"
                                                       /\ SocialAccount(ixs[j]) = holder
                              /\ \E p \in SUPPORTED_SOCIAL_PLATFORMS : holder.s[2] = Wallet(p)
      BY DEF Prepared
    <2>1. all[i].op = "updateFeeShares" /\ i \in 1 .. Len(all)
      BY <1>11, <1>18
    <2>2. i = k + n + 1
      BY <1>12, <1>13, <1>14, <2>1
    <2>3. ixs[i].args.shares = new
      BY <1>4, <1>11, <1>18, <2>2
    <2> DEFINE holder == new[h].address
    <2>4. \/ holder.p = "wallet"
          \/ \E who, p : /\ <<who, p>> \in SocialRecipients(shares)
                         /\ holder = socialFeePda(who, p) /\ p \in SUPPORTED_SOCIAL_PLATFORMS
                         /\ holder.s[2] = Wallet(p)
      BY <1>6, <2>3, NormalizedHolder DEF new
    <2> HIDE DEF holder
    <2>5. ASSUME NEW who, NEW p, <<who, p>> \in SocialRecipients(shares),
                 holder = socialFeePda(who, p)
          PROVE  \E j \in 1 .. i - 1 : /\ ixs[j].op = "createSocialFeePda"
                                       /\ SocialAccount(ixs[j]) = holder
      <3>1. PICK j \in 1 .. n : recipients[j] = <<who, p>>
        BY <1>2, <2>5
      <3>2. k + j \in 1 .. i - 1 /\ k + j \in 1 .. k + n + 1
        BY <1>8, <2>2
      <3>3. all[k + j] = create(<<who, p>>)
        BY <1>9, <1>11, <3>1
      <3>4. SocialAccount(ixs[k + j]) = holder
        <4> DEFINE b == create(<<who, p>>)
        <4>1. ixs[k + j] = FilledIn(b, IDL!Idl[b.op])
          BY <1>18, <3>2, <3>3
        <4>2. SocialAccount(FilledIn(b, IDL!Idl[b.op])) = socialFeePda(<<who, p>>[1], <<who, p>>[2])
          BY <1>5
        <4> QED BY <2>5, <4>1, <4>2
      <3>5. ixs[k + j].op = "createSocialFeePda"
        BY <1>14, <1>18, <3>2
      <3> QED BY <3>2, <3>4, <3>5
    <2> QED BY <2>3, <2>4, <2>5 DEF holder
  <1> QED BY <1>3, <1>17, <1>19 DEF all, ixs

(* and what any method of the SDK builds keeps the chain's part of the *)
(* invariant.                                                          *)
LEMMA SdkLands ==
    ASSUME NEW m, NEW c, m # NoCall, CallOK(m, c), m.op \notin CallsBot
    PROVE  LET ixs == Built(m)
           IN /\ Len(ixs) \in Nat
              /\ \A i \in 1 .. Len(ixs) : Demands(ixs[i], c)
              /\ Prepared(ixs)
  <1>1. Built(m) = Instructions(SdkCall(m))
    BY DEF Built, Bot, CallsBot
  <1>2. CASE m.op \in CallsPlain
    BY <1>1, <1>2, PlainCallAsks, RequestDemands
  <1>3. CASE m.op \in CallsSharing
    <2> DEFINE Rows == [who : STRING, platform : STRING, bps : Nat]
    <2>1. m.opt \in Seq(Rows) /\ ~ThrowsOn(m.opt)
      BY <1>3, ShareListsAssumption DEF CallOK
    <2> HIDE DEF Rows
    <2>2. CASE m.op = "share"
      <3> DEFINE first == <<createFeeSharingConfig(m.user, Pool(m.seen.graduated))>>
      <3>1. c.phase # "none"
        BY <2>2 DEF CallOK
      <3>2. Request(first, c)
        BY <3>1, SharingAsks
      <3>3. SdkCall(m)
              = first \o updateSharingConfigWithSocialRecipients(m.user, <<m.user>>, m.opt)
        BY <2>2 DEF SdkCall, createSharingConfigWithSocialRecipients
      <3> HIDE DEF first
      <3> QED BY <1>1, <2>1, <3>2, <3>3, UpdatePrepared
    <2>3. CASE m.op = "reshare"
      <3> DEFINE update == updateSharingConfigWithSocialRecipients(m.user, m.seen.holders, m.opt)
      <3>1. SdkCall(m) = update
        BY <2>3 DEF SdkCall
      <3>2. <<>> \o update = update
        BY DEF updateSharingConfigWithSocialRecipients
      <3>3. Request(<<>>, c)
        BY RequestNone
      <3> QED BY <1>1, <2>1, <3>1, <3>2, <3>3, UpdatePrepared
    <2> QED BY <1>3, <2>2, <2>3 DEF CallsSharing
  <1> QED BY <1>2, <1>3 DEF CallOK

------------------------------------------------------------------------------
(***************************************************************************)
(* The three messages the bot writes itself: what the network decodes from *)
(* their positions.                                                        *)
(***************************************************************************)

(* The account list of a token account, by position. *)
LEMMA OpenNames ==
  LET idl == IDL!createIdempotent
  IN /\ idl[1].name = "funder" /\ idl[2].name = "ata" /\ idl[3].name = "wallet"
     /\ idl[4].name = "mint" /\ idl[5].name = "systemProgram" /\ idl[6].name = "tokenProgram"
  BY GivenName, DerivedName, FixedName DEF IDL!createIdempotent, IDL!AtaOf, IDL!SystemProgram

(* The wallet of the token account that is opened. *)
LEMMA OpenedWallet ==
    ASSUME NEW ix
    PROVE  Accounts(ix, IDL!createIdempotent).wallet = ix.metas[3].key
  <1> DEFINE idl == IDL!createIdempotent
             k == CHOOSE i \in DOMAIN idl : idl[i].name = "wallet"
  <1>1. DOMAIN idl = 1 .. 6 /\ idl[3].name = "wallet"
    BY OpenTable
  <1>2. \A i \in 1 .. 6 : idl[i].name = "wallet" => i = 3
    BY OpenNames
  <1> HIDE DEF idl
  <1>3. k = 3
    BY <1>1, <1>2
  <1> QED BY <1>1, <1>3 DEF Accounts, idl

(* A decoded instruction finds its accounts at the positions it names. *)
LEMMA DecodedIs ==
    ASSUME NEW msg, NEW op, NEW positions, NEW args
    PROVE  /\ Decoded(msg, op, positions, args).op = op
           /\ Decoded(msg, op, positions, args).args = args
           /\ \A i \in DOMAIN positions :
                Decoded(msg, op, positions, args).metas[i].key = msg.keys[positions[i] + 1]
  BY DEF Decoded, At, Meta

(* Lists, *)
LEMMA ListOfAll ==
    ASSUME NEW s, NEW n \in Nat, s = [i \in 1 .. n |-> s[i]]
    PROVE  List(s) /\ Len(s) = n
  <1> DEFINE T == {s[i] : i \in 1 .. n}
  <1>1. s \in Seq(T) /\ Len(s) = n
    OBVIOUS
  <1> HIDE DEF T
  <1> QED BY <1>1 DEF List

(* the empty one, *)
LEMMA NoList == List(<<>>)
  <1>1. <<>> \in Seq({})
    OBVIOUS
  <1> DEFINE T == {}
  <1>2. <<>> \in Seq(T)
    BY <1>1
  <1> HIDE DEF T
  <1> QED BY <1>2 DEF List

(* and the first key of a message, which is its first static key. *)
LEMMA FirstKey ==
    ASSUME NEW static, NEW more, NEW rest, NEW sigs, NEW readonly,
           List(static), List(more), List(rest), Len(static) > 0
    PROVE  Message(static, sigs, readonly, more, rest).keys[1] = static[1]
  <1>1. PICK S : static \in Seq(S)
    BY DEF List
  <1>2. PICK T : more \in Seq(T)
    BY DEF List
  <1>3. PICK U : rest \in Seq(U)
    BY DEF List
  <1>4. /\ (static \o more)[1] = static[1] /\ 1 \in 1 .. Len(static \o more)
        /\ static \o more \in Seq(S \cup T)
    BY <1>1, <1>2
  <1>5. ((static \o more) \o rest)[1] = (static \o more)[1]
    BY <1>3, <1>4
  <1> QED BY <1>4, <1>5 DEF Message

(* The keys of the lookup table are lists. *)
LEMMA TableKeys == List(LookedUp(AltIndices.writable)) /\ List(LookedUp(AltIndices.readonly))
  <1>1. DOMAIN AltIndices.writable = 1 .. 2 /\ DOMAIN AltIndices.readonly = 1 .. 8
    BY DEF AltIndices
  <1> DEFINE w == LookedUp(AltIndices.writable)
             r == LookedUp(AltIndices.readonly)
  <1>2. w = [i \in 1 .. 2 |-> w[i]] /\ r = [i \in 1 .. 8 |-> r[i]]
    BY <1>1 DEF LookedUp
  <1> HIDE DEF w, r
  <1> QED BY <1>2, ListOfAll DEF w, r

(* The launch, *)
LEMMA LaunchLands ==
    ASSUME NEW user \in Users, NEW c
    PROVE  LET ixs == LaunchMessage(user)
           IN Len(ixs) \in Nat /\ (\A i \in 1 .. Len(ixs) : Demands(ixs[i], c)) /\ Prepared(ixs)
  <1> DEFINE pdas == LaunchPdas(MINT, user)
             fee == getFeeRecipient(FALSE)
             keys == LaunchKeys(user, MINT, pdas, fee)
             msg == Message(keys, 2, 5, LookedUp(AltIndices.writable),
                            LookedUp(AltIndices.readonly))
             args == [creator |-> user, mayhem |-> FALSE, cashback |-> FALSE]
             created == Decoded(msg, "createV2", CREATE_V2_ACCOUNTS, args)
             opened == Decoded(msg, "createIdempotent", LAUNCH_ATA_ACCOUNTS, NoArgs)
             bought == Decoded(msg, "buy", BUY_ACCOUNTS, NoArgs)
  <1>1. LaunchMessage(user) = <<created, opened, bought>>
    BY DEF LaunchMessage, write_create_v2_and_buy_message
  <1>2. /\ created.op = "createV2" /\ created.args = args
        /\ opened.op = "createIdempotent" /\ bought.op = "buy"
    BY DEF Decoded
  <1>3. keys = [i \in 1 .. 17 |-> keys[i]] /\ keys[1] = user
    BY DEF LaunchKeys
  <1>4. msg.keys[1] = user
    <2> HIDE DEF keys
    <2>1. List(keys) /\ Len(keys) = 17
      BY <1>3, ListOfAll
    <2> QED BY <1>3, <2>1, TableKeys, FirstKey
  <1>5. 3 \in DOMAIN LAUNCH_ATA_ACCOUNTS /\ LAUNCH_ATA_ACCOUNTS[3] = 0
    BY DEF LAUNCH_ATA_ACCOUNTS
  <1> HIDE DEF msg
  <1>6. opened.metas[3].key = user
    BY <1>4, <1>5, DecodedIs
  <1> HIDE DEF created, opened, bought
  <1>7. Demands(created, c)
    BY <1>2 DEF Demands, SetsCreator
  <1>8. Demands(opened, c)
    <2>1. Accounts(opened, IDL!Idl[opened.op]).wallet = user
      BY <1>2, <1>6, OpenTable, OpenedWallet
    <2> QED BY <1>2, <2>1 DEF Demands, SetsCreator
  <1>9. Demands(bought, c)
    BY <1>2 DEF Demands, SetsCreator
  <1> DEFINE ixs == <<created, opened, bought>>
  <1>10. Len(ixs) = 3 /\ ixs[1] = created /\ ixs[2] = opened /\ ixs[3] = bought
    OBVIOUS
  <1> HIDE DEF ixs
  <1>11. Prepared(ixs)
    BY <1>2, <1>10 DEF Prepared
  <1> QED BY <1>1, <1>7, <1>8, <1>9, <1>10, <1>11 DEF ixs

(* a buy, *)
LEMMA BotBuyLands ==
    ASSUME NEW user \in Users, NEW c
    PROVE  LET ixs == BuyMessage(Dev, user)
           IN Len(ixs) \in Nat /\ (\A i \in 1 .. Len(ixs) : Demands(ixs[i], c)) /\ Prepared(ixs)
  <1> DEFINE pdas == LaunchPdas(MINT, Dev)
             fee == getFeeRecipient(FALSE)
             keys == BuyKeys(user, userVolumeAccumulatorPda(user), MINT, pdas,
                             getAssociatedTokenAddressSync(MINT, user, TOKEN_2022_PROGRAM_ID), fee)
             msg == Message(keys, 1, 12, <<>>, <<>>)
             opened == Decoded(msg, "createIdempotent", ATA_IDEMPOTENT_ACCOUNTS, NoArgs)
             bought == Decoded(msg, "buyExactSolIn", BUY_EXACT_SOL_ACCOUNTS, NoArgs)
  <1>1. BuyMessage(Dev, user) = <<opened, bought>>
    BY DEF BuyMessage, write_buy_message
  <1>2. opened.op = "createIdempotent" /\ bought.op = "buyExactSolIn"
    BY DEF Decoded
  <1>3. keys = [i \in 1 .. 21 |-> keys[i]] /\ keys[1] = user
    BY DEF BuyKeys
  <1>4. msg.keys[1] = user
    <2> HIDE DEF keys
    <2>1. List(keys) /\ Len(keys) = 21
      BY <1>3, ListOfAll
    <2> QED BY <1>3, <2>1, NoList, FirstKey
  <1>5. 3 \in DOMAIN ATA_IDEMPOTENT_ACCOUNTS /\ ATA_IDEMPOTENT_ACCOUNTS[3] = 0
    BY DEF ATA_IDEMPOTENT_ACCOUNTS
  <1> HIDE DEF msg
  <1>6. opened.metas[3].key = user
    BY <1>4, <1>5, DecodedIs
  <1> HIDE DEF opened, bought
  <1>7. Demands(opened, c)
    <2>1. Accounts(opened, IDL!Idl[opened.op]).wallet = user
      BY <1>2, <1>6, OpenTable, OpenedWallet
    <2> QED BY <1>2, <2>1 DEF Demands, SetsCreator
  <1>8. Demands(bought, c)
    BY <1>2 DEF Demands, SetsCreator
  <1> DEFINE ixs == <<opened, bought>>
  <1>9. Len(ixs) = 2 /\ ixs[1] = opened /\ ixs[2] = bought
    OBVIOUS
  <1> HIDE DEF ixs
  <1>10. Prepared(ixs)
    BY <1>2, <1>9 DEF Prepared
  <1> QED BY <1>1, <1>7, <1>8, <1>9, <1>10 DEF ixs

(* and a sale of the bot keep the chain's part of the invariant. *)
LEMMA BotSellLands ==
    ASSUME NEW user, NEW c
    PROVE  LET ixs == SellMessage(Dev, user)
           IN Len(ixs) \in Nat /\ (\A i \in 1 .. Len(ixs) : Demands(ixs[i], c)) /\ Prepared(ixs)
  <1>1. PICK msg : SellMessage(Dev, user) = <<Decoded(msg, "sell", SELL_ACCOUNTS, NoArgs)>>
    BY DEF SellMessage, write_sell_message
  <1> DEFINE sold == Decoded(msg, "sell", SELL_ACCOUNTS, NoArgs)
             ixs == <<sold>>
  <1>2. sold.op = "sell"
    BY DecodedIs
  <1> HIDE DEF sold
  <1>3. Len(ixs) = 1 /\ ixs[1] = sold
    OBVIOUS
  <1> HIDE DEF ixs
  <1>4. Demands(sold, c)
    BY <1>2 DEF Demands, SetsCreator
  <1>5. Prepared(ixs)
    BY <1>2, <1>3 DEF Prepared
  <1> QED BY <1>1, <1>3, <1>4, <1>5 DEF ixs, sold

------------------------------------------------------------------------------
(***************************************************************************)
(* The invariant is inductive.                                             *)
(***************************************************************************)

(* A call under way, whoever made it, keeps the chain's part of the *)
(* invariant when it lands.                                         *)
LEMMA CallLands ==
    ASSUME NEW m, NEW c, m # NoCall, CallOK(m, c)
    PROVE  LET ixs == Built(m)
           IN Len(ixs) \in Nat /\ (\A i \in 1 .. Len(ixs) : Demands(ixs[i], c)) /\ Prepared(ixs)
  <1>1. CASE m.op \notin CallsBot
    BY <1>1, SdkLands
  <1>2. CASE m.op \in CallsBot
    <2>1. m.user \in Users
      BY <1>2 DEF CallOK, CallsBot
    <2>2. /\ m.op = "botLaunch" => Built(m) = LaunchMessage(m.user)
          /\ m.op = "botBuy" => Built(m) = BuyMessage(Dev, m.user)
          /\ m.op = "botSell" => Built(m) = SellMessage(Dev, m.user)
      BY DEF Built, Bot, BotCall
    <2> QED BY <1>2, <2>1, <2>2, LaunchLands, BotBuyLands, BotSellLands DEF CallsBot
  <1> QED BY <1>1, <1>2

(* It holds at the start, *)
LEMMA Start == Init => IInv
  <1> SUFFICES ASSUME Init PROVE IInv
    OBVIOUS
  <1>1. chain = Unlaunched /\ call = NoCall
    BY DEF Init
  <1>2. IsCoin(chain)
    BY <1>1, NoList DEF IsCoin, Unlaunched, NoShares
  <1>3. ~HasShares(chain)
    BY <1>1 DEF HasShares, Unlaunched, NoShares
  <1>4. OwnersHold(chain)
    BY <1>1, <1>3, Distinct DEF OwnersHold, Unlaunched, Owners, Users
  <1>5. VaultsHold(chain)
    BY <1>1 DEF VaultsHold, Unlaunched
  <1>6. Payable(chain)
    BY <1>1 DEF Payable, Unlaunched, NoShares
  <1>7. Collectable(chain)
    BY <1>1 DEF Collectable, Unlaunched
  <1> QED BY <1>1, <1>2, <1>4, <1>5, <1>6, <1>7 DEF IInv, Good, CallOK

(* a call that is sent keeps it, *)
LEMMA Sent ==
    ASSUME NEW op, NEW user, NEW opt, NEW seen, IInv, Send(op, user, opt, seen),
           op \in CallsPlain \cup CallsSharing \cup CallsBot,
           op \notin {"setCreator", "adminSetCreator", "adminIncentives"} => user \in Users,
           op \in {"createV2AndBuy", "sell", "sellRaw"} => opt \in Modes,
           op \in CallsSharing => opt \in ShareLists /\ ~ThrowsOn(opt),
           op \in {"share", "shareAlone"} => Existing,
           op \in {"setCreator", "adminSetCreator", "adminIncentives"} => user = Authority,
           op = "sell" => seen.ata,
           op \in {"reshare", "distribute", "minimumFee"} => seen.holders # <<>>,
           op \in Bot => seen = AsLaunched
    PROVE  IInv'
  <1>1. call' = [op |-> op, user |-> user, opt |-> opt, seen |-> seen] /\ chain' = chain
    BY DEF Send
  <1>2. CallOK(call', chain')
    BY <1>1 DEF CallOK, Existing
  <1> QED BY <1>1, <1>2 DEF IInv

(* a call that lands keeps it, *)
LEMMA LandingKeeps == ASSUME IInv, Land PROVE IInv'
  <1> DEFINE after == Landed(chain, Built(call))
  <1>1. call # NoCall /\ call' = NoCall /\ (chain' = chain \/ (chain' = after /\ after # Refused))
    BY DEF Land
  <1>2. ASSUME after # Refused PROVE Good(after) /\ Payable(after) /\ Collectable(after)
    BY <1>1, <1>2, CallLands, LandedKeeps DEF IInv
  <1> HIDE DEF after
  <1> QED BY <1>1, <1>2 DEF IInv, CallOK

(* and so do the trades of other people. *)
LEMMA ChainKeeps ==
    ASSUME IInv, Fill \/ AmmTrade
    PROVE  IInv'
  <1>1. CASE Fill
    <2>1. /\ chain' = [phase |-> "complete", token |-> chain.token, creator |-> chain.creator,
                       mayhem |-> chain.mayhem, cashback |-> chain.cashback, size |-> chain.size,
                       ata |-> chain.ata, uva |-> chain.uva, shares |-> chain.shares,
                       social |-> chain.social, fees |-> chain.fees,
                       ammVaults |-> chain.ammVaults, pool |-> chain.pool]
          /\ chain.phase = "curve" /\ call' = call
      BY <1>1 DEF Fill, IInv, Good, IsCoin
    <2>2. IsCoin(chain') /\ OwnersHold(chain')
      BY <2>1 DEF IInv, Good, IsCoin, OwnersHold, HasShares, Graduated
    <2>3. VaultsHold(chain')
      BY <2>1 DEF IInv, Good, VaultsHold, Graduated
    <2>4. Payable(chain') /\ Collectable(chain') /\ CallOK(call', chain')
      BY <2>1 DEF IInv, Payable, CanBePaid, Collectable, HasShares, CallOK
    <2> QED BY <2>2, <2>3, <2>4 DEF IInv, Good
  <1>2. CASE AmmTrade
    <2> DEFINE vault == ammVaultAta(chain.pool)
    <2>1. /\ chain' = [phase |-> chain.phase, token |-> chain.token, creator |-> chain.creator,
                       mayhem |-> chain.mayhem, cashback |-> chain.cashback, size |-> chain.size,
                       ata |-> chain.ata, uva |-> chain.uva, shares |-> chain.shares,
                       social |-> chain.social, fees |-> chain.fees \cup {vault},
                       ammVaults |-> chain.ammVaults \cup {vault}, pool |-> chain.pool]
          /\ Graduated(chain) /\ call' = call
      BY <1>2 DEF AmmTrade, IInv, Good, IsCoin
    <2>2. chain.pool \in Owners /\ vault \in Vaults(chain.pool)
      BY DEF IInv, Good, OwnersHold, Vaults
    <2> HIDE DEF vault
    <2>3. IsCoin(chain') /\ OwnersHold(chain')
      BY <2>1 DEF IInv, Good, IsCoin, OwnersHold, HasShares, Graduated
    <2>4. VaultsHold(chain')
      BY <2>1, <2>2 DEF IInv, Good, VaultsHold, Graduated, vault
    <2>5. Payable(chain') /\ CallOK(call', chain')
      BY <2>1 DEF IInv, Payable, CanBePaid, CallOK
    <2>6. Collectable(chain')
      <3>1. vault \in Vaults(Config) => HasShares(chain)
        BY <2>2, OwnVaults DEF IInv, Good, OwnersHold, Owners, vault
      <3>2. HasShares(chain') <=> HasShares(chain)
        BY <2>1 DEF HasShares
      <3> QED BY <2>1, <3>1, <3>2 DEF IInv, Collectable
    <2> QED BY <2>3, <2>4, <2>5, <2>6 DEF IInv, Good
  <1> QED BY <1>1, <1>2

(* a list of shareholders that is there has addresses, *)
LEMMA AddressesSome ==
    ASSUME NEW holders, List(holders), holders # <<>>
    PROVE  Addresses(holders) # <<>>
  <1>1. PICK S : holders \in Seq(S)
    BY DEF List
  <1>2. 1 \in DOMAIN holders
    BY <1>1
  <1>3. 1 \in DOMAIN Addresses(holders)
    BY <1>2 DEF Addresses
  <1> QED BY <1>3

(* so every step keeps it. *)
LEMMA Kept == IInv /\ [Next]_vars => IInv'
  <1> SUFFICES ASSUME IInv, [Next]_vars PROVE IInv'
    OBVIOUS
  <1> USE DEF CallsPlain, CallsSharing, CallsBot, Bot
  <1>1. {Dev, Other} = Users
    BY DEF Users
  <1>2. CASE CreateAndBuy \/ CreateV2AndBuy \/ BotLaunch
    BY <1>1, <1>2, Sent DEF CreateAndBuy, CreateV2AndBuy, BotLaunch, Issue
  <1>3. CASE Buy \/ BuyRaw \/ SellRaw \/ BotBuy \/ BotSell
    BY <1>1, <1>3, Sent DEF Buy, BuyRaw, SellRaw, BotBuy, BotSell, Issue
  <1>4. CASE Sell
    <2>1. PICK m \in Modes : Send("sell", Other, m, Look("sell", Other, chain))
      BY <1>4 DEF Sell, Issue
    <2>2. Look("sell", Other, chain).ata
      BY <1>4 DEF Sell, Look
    <2> QED BY <1>1, <2>1, <2>2, Sent
  <1>5. CASE Migrate \/ InitAccumulator \/ SyncAccumulator \/ CloseAccumulator \/ ClaimCashback
             \/ ClaimIncentives \/ AdminIncentives
    BY <1>1, <1>5, Sent DEF Migrate, InitAccumulator, SyncAccumulator, CloseAccumulator,
                            ClaimCashback, ClaimIncentives, AdminIncentives, Issue
  <1>6. CASE SetCreator \/ AdminSetCreator \/ Collect \/ ShareAlone \/ Share
    BY <1>1, <1>6, Sent DEF SetCreator, AdminSetCreator, Collect, ShareAlone, Share, Issue
  <1>7. HasShares(chain) => /\ Look("reshare", Dev, chain).holders # <<>>
                             /\ FetchedConfig(chain).holders # <<>>
    <2>1. HasShares(chain) => Addresses(chain.shares.holders) # <<>>
      BY AddressesSome DEF IInv, Good, IsCoin, HasShares
    <2> QED BY <2>1 DEF Look, FetchedConfig
  <1>8. CASE Reshare
    <2>1. PICK u \in Users, s \in ShareLists :
            ~ThrowsOn(s) /\ Send("reshare", u, s, Look("reshare", u, chain))
      BY <1>8 DEF Reshare, Issue
    <2>2. Look("reshare", u, chain) = Look("reshare", Dev, chain)
      BY DEF Look
    <2>3. Look("reshare", u, chain).holders # <<>>
      BY <1>7, <1>8, <2>2 DEF Reshare
    <2> QED BY <2>1, <2>3, Sent
  <1>9. CASE Distribute \/ MinimumFee
    <2>1. /\ Look("distribute", Other, chain) = FetchedConfig(chain)
          /\ Look("minimumFee", Other, chain) = FetchedConfig(chain)
      BY DEF Look
    <2>2. FetchedConfig(chain).holders # <<>>
      BY <1>7, <1>9 DEF Distribute, MinimumFee
    <2>3. CASE Distribute
      <3>1. Send("distribute", Other, NoOption, FetchedConfig(chain))
        BY <2>1, <2>3 DEF Distribute, Issue
      <3> QED BY <1>1, <2>2, <3>1, Sent
    <2>4. CASE MinimumFee
      <3>1. Send("minimumFee", Other, NoOption, FetchedConfig(chain))
        BY <2>1, <2>4 DEF MinimumFee, Issue
      <3> QED BY <1>1, <2>2, <3>1, Sent
    <2> QED BY <1>9, <2>3, <2>4
  <1>10. CASE Land
    BY <1>10, LandingKeeps
  <1>11. CASE Fill \/ AmmTrade
    BY <1>11, ChainKeeps
  <1>12. CASE UNCHANGED vars
    BY <1>12 DEF IInv, vars
  <1> QED BY <1>2, <1>3, <1>4, <1>5, <1>6, <1>8, <1>9, <1>10, <1>11, <1>12 DEF Next

(* It holds throughout. *)
LEMMA InvariantHolds == Spec => []IInv
  BY Start, Kept, PTL DEF Spec

(* The accounts of the coin have their types; above all the coin names its  *)
(* sharing configuration as creator exactly when there is one, and the      *)
(* shares set in it are whole, after any sequence of calls that landed late *)
(* (TypeOK).                                                                *)
THEOREM TypeCorrect == Spec => []TypeOK
  <1>1. IInv => TypeOK
    BY DEF IInv, Good, IsCoin, OwnersHold, VaultsHold, TypeOK
  <1> QED BY <1>1, InvariantHolds, PTL

(* Every shareholder the SDK ever set can be paid: it is a wallet, or a *)
(* social account that exists, on a supported platform (SharesPayable). *)
THEOREM HoldersCanBePaid == Spec => []SharesPayable
  <1>1. IInv => SharesPayable
    BY DEF IInv, Payable, CanBePaid, SharesPayable
  <1> QED BY <1>1, InvariantHolds, PTL

------------------------------------------------------------------------------
(***************************************************************************)
(* When the account list of an instruction can be filled in from what the  *)
(* caller gives: which rows are known from which names, in which sweep.    *)
(***************************************************************************)

(* The names of the rows of a list. *)
Names(idl) == {idl[i].name : i \in DOMAIN idl}

(* Seeds that are read from an account's data. *)
OffChain == {"mint.owner", "bondingCurve.creator"}

(* A row is known from a set of names when all its seeds are among them. *)
Known(row, K) ==
  \/ row.rule = "fixed"
  \/ row.rule = "derived" /\ \A k \in DOMAIN row.seeds : row.seeds[k] \in K \cup Constants

(* The rows the first sweep is sure to find, *)
Early(idl, given) == {i \in DOMAIN idl : Known(idl[i], DOMAIN given)}

(* the names of the rows of G before row i, *)
Before(idl, G, i) == {idl[j].name : j \in {j \in G : j < i}}

(* and the names the second sweep is sure to have when it comes to row i. *)
Sources(idl, given, i) ==
  DOMAIN given \cup {idl[j].name : j \in Early(idl, given)} \cup Before(idl, DOMAIN idl, i)

(* A list that two sweeps fill in. *)
Fillable(idl, given) ==
  /\ Len(idl) \in Nat /\ DOMAIN idl = 1 .. Len(idl)
  /\ \A i \in DOMAIN idl, j \in DOMAIN idl : idl[i].name = idl[j].name => i = j
  /\ Names(idl) \cap (Constants \cup OffChain) = {}
  /\ DOMAIN given \subseteq Names(idl)
  /\ \A i \in DOMAIN idl : idl[i].name \notin DOMAIN given =>
       Known(idl[i], Sources(idl, given, i))

(* The address of a row, from the accounts found so far, *)
ValueOf(row, acc) ==
  IF row.rule = "fixed" THEN Program(row.prog)
  ELSE Pda(row.prog, row.tag, [k \in DOMAIN row.seeds |-> SeedKey(row.seeds[k], acc)])

(* and a state of the sweeps in which every account found is the one its *)
(* row derives.                                                          *)
Derives(idl, given, acc) ==
  /\ \A n \in DOMAIN given : n \in DOMAIN acc /\ acc[n] = given[n]
  /\ DOMAIN acc \subseteq Names(idl)
  /\ \A i \in DOMAIN idl : idl[i].name \in DOMAIN acc \ DOMAIN given =>
       Known(idl[i], DOMAIN acc) /\ acc[idl[i].name] = ValueOf(idl[i], acc)

(* What was derived stays so when more accounts are known. *)
LEMMA ValueKept ==
    ASSUME NEW row, NEW acc, NEW more, Known(row, DOMAIN acc),
           DOMAIN more \cap (Constants \cup OffChain) = {},
           \A n \in DOMAIN acc : n \in DOMAIN more /\ more[n] = acc[n]
    PROVE  Known(row, DOMAIN more) /\ ValueOf(row, more) = ValueOf(row, acc)
  <1>1. Known(row, DOMAIN more)
    BY DEF Known
  <1>2. CASE row.rule = "fixed"
    BY <1>1, <1>2 DEF ValueOf
  <1>3. CASE row.rule # "fixed"
    <2>1. \A k \in DOMAIN row.seeds : SeedKey(row.seeds[k], more) = SeedKey(row.seeds[k], acc)
      BY <1>3 DEF Known, SeedKey, OffChain, Constants
    <2> QED BY <1>1, <1>3, <2>1 DEF ValueOf
  <1> QED BY <1>2, <1>3

(* One step, *)
LEMMA ResolveDerives ==
    ASSUME NEW idl, NEW given, Fillable(idl, given), NEW acc, Derives(idl, given, acc),
           NEW i \in DOMAIN idl
    PROVE  Derives(idl, given, Resolve(idl[i], acc))
  <1> DEFINE row == idl[i]
             more == Resolve(row, acc)
  <1>1. CASE row.name \in DOMAIN acc \/ ~Resolvable(row, acc)
    BY <1>1 DEF Resolve
  <1>2. CASE ~(row.name \in DOMAIN acc \/ ~Resolvable(row, acc))
    <2>1. /\ DOMAIN more = DOMAIN acc \cup {row.name}
          /\ \A n \in DOMAIN acc : n \in DOMAIN more /\ more[n] = acc[n]
          /\ more[row.name] = ValueOf(row, acc)
      BY <1>2 DEF Resolve, ValueOf
    <2>2. DOMAIN more \subseteq Names(idl)
      BY <2>1 DEF Derives, Names
    <2>3. row.name \notin DOMAIN given
      BY <1>2 DEF Derives
    <2>4. Known(row, DOMAIN acc)
      <3>1. row.rule = "derived" =>
              \A k \in DOMAIN row.seeds : row.seeds[k] \notin OffChain
        <4>1. Known(row, Sources(idl, given, i))
          BY <2>3 DEF Fillable
        <4>2. Sources(idl, given, i) \cup Constants \subseteq Names(idl) \cup Constants
          BY DEF Fillable, Sources, Early, Before, Names
        <4>3. Constants \cap OffChain = {}
          BY DEF Constants, OffChain
        <4> QED BY <4>1, <4>2, <4>3 DEF Known, Fillable
      <3> QED BY <1>2, <3>1 DEF Resolvable, Known, OffChain
    <2> HIDE DEF more
    <2>5. DOMAIN more \cap (Constants \cup OffChain) = {}
      BY <2>2 DEF Fillable
    <2>6. ASSUME NEW j \in DOMAIN idl, idl[j].name \in DOMAIN more \ DOMAIN given
          PROVE  Known(idl[j], DOMAIN more) /\ more[idl[j].name] = ValueOf(idl[j], more)
      <3>1. CASE idl[j].name \in DOMAIN acc
        <4>1. Known(idl[j], DOMAIN acc) /\ acc[idl[j].name] = ValueOf(idl[j], acc)
          BY <2>6, <3>1 DEF Derives
        <4> QED BY <2>1, <2>5, <3>1, <4>1, ValueKept
      <3>2. CASE idl[j].name \notin DOMAIN acc
        <4>1. j = i
          BY <2>1, <2>6, <3>2 DEF Fillable
        <4> QED BY <2>1, <2>4, <2>5, <4>1, ValueKept
      <3> QED BY <3>1, <3>2
    <2> QED BY <2>1, <2>2, <2>6 DEF Derives, more
  <1> QED BY <1>1, <1>2

(* and one sweep find only what the rows derive. *)
LEMMA SweepDerives ==
    ASSUME NEW idl, NEW given, Fillable(idl, given), NEW acc, Derives(idl, given, acc)
    PROVE  Derives(idl, given, Sweep(idl, acc))
  <1>1. Len(idl) \in Nat /\ DOMAIN idl = 1 .. Len(idl)
    BY DEF Fillable
  <1>2. PICK f : /\ f = [i \in 0 .. Len(idl) |-> IF i = 0 THEN acc ELSE Resolve(idl[i], f[i - 1])]
                 /\ Sweep(idl, acc) = f[Len(idl)]
    BY <1>1, SweepIs
  <1> DEFINE T == {n \in Nat : n \in 0 .. Len(idl) => Derives(idl, given, f[n])}
  <1>3. T \subseteq Nat /\ 0 \in T
    BY <1>2
  <1>4. ASSUME NEW n \in T PROVE n + 1 \in T
    <2> SUFFICES ASSUME n + 1 \in 0 .. Len(idl) PROVE Derives(idl, given, f[n + 1])
      OBVIOUS
    <2>1. /\ f[n + 1] = Resolve(idl[n + 1], f[n]) /\ n + 1 \in DOMAIN idl
          /\ Derives(idl, given, f[n])
      BY <1>1, <1>2
    <2> QED BY <2>1, ResolveDerives
  <1> HIDE DEF T
  <1>5. T = Nat
    BY <1>3, <1>4, Inductive
  <1>6. Len(idl) \in T /\ Len(idl) \in 0 .. Len(idl)
    BY <1>1, <1>5
  <1> QED BY <1>2, <1>6 DEF T

(* A sweep finds the rows that are known when it comes to them, *)
LEMMA SweepReaches ==
    ASSUME NEW idl, Len(idl) \in Nat, DOMAIN idl = 1 .. Len(idl), NEW acc,
           NEW G \in SUBSET DOMAIN idl,
           \A i \in G : \/ idl[i].name \in DOMAIN acc
                        \/ Known(idl[i], DOMAIN acc \cup Before(idl, G, i))
    PROVE  \A i \in G : idl[i].name \in DOMAIN Sweep(idl, acc)
  <1>1. PICK f : /\ f = [i \in 0 .. Len(idl) |-> IF i = 0 THEN acc ELSE Resolve(idl[i], f[i - 1])]
                 /\ Sweep(idl, acc) = f[Len(idl)]
    BY SweepIs
  <1> DEFINE T == {n \in Nat : n \in 0 .. Len(idl) =>
                     /\ DOMAIN acc \subseteq DOMAIN f[n]
                     /\ \A j \in 1 .. n : j \in G => idl[j].name \in DOMAIN f[n]}
  <1>2. T \subseteq Nat /\ 0 \in T
    BY <1>1
  <1>3. ASSUME NEW n \in T PROVE n + 1 \in T
    <2> SUFFICES ASSUME n + 1 \in 0 .. Len(idl)
                 PROVE  /\ DOMAIN acc \subseteq DOMAIN f[n + 1]
                        /\ \A j \in 1 .. n + 1 : j \in G => idl[j].name \in DOMAIN f[n + 1]
      OBVIOUS
    <2> DEFINE row == idl[n + 1]
    <2>1. f[n + 1] = Resolve(row, f[n]) /\ n + 1 \in DOMAIN idl
      BY <1>1
    <2>2. /\ DOMAIN acc \subseteq DOMAIN f[n]
          /\ \A j \in 1 .. n : j \in G => idl[j].name \in DOMAIN f[n]
      OBVIOUS
    <2>3. Before(idl, G, n + 1) \subseteq DOMAIN f[n]
      BY <2>2 DEF Before
    <2>4. DOMAIN f[n] \subseteq DOMAIN f[n + 1]
      BY <2>1, StepKeeps
    <2>5. ASSUME n + 1 \in G PROVE row.name \in DOMAIN f[n + 1]
      <3>1. CASE row.name \in DOMAIN acc
        BY <2>2, <2>4, <3>1
      <3>2. CASE row.name \notin DOMAIN acc
        <4>1. Known(row, DOMAIN acc \cup Before(idl, G, n + 1))
          BY <2>5, <3>2
        <4>2. Resolvable(row, f[n])
          BY <2>2, <2>3, <4>1 DEF Known, Resolvable
        <4> QED BY <2>1, <4>2 DEF Resolve
      <3> QED BY <3>1, <3>2
    <2>6. \A j \in 1 .. n + 1 : j \in 1 .. n \/ j = n + 1
      OBVIOUS
    <2> QED BY <2>2, <2>4, <2>5, <2>6
  <1> HIDE DEF T
  <1>4. T = Nat
    BY <1>2, <1>3, Inductive
  <1>5. \A j \in 1 .. Len(idl) : j \in G => idl[j].name \in DOMAIN f[Len(idl)]
    BY <1>4 DEF T
  <1> QED BY <1>1, <1>5

(* so the sweeps find all the accounts of a list that can be filled in, as *)
(* its rows derive them,                                                   *)
LEMMA CompletedDerives ==
    ASSUME NEW idl, NEW given, Fillable(idl, given)
    PROVE  Derives(idl, given, Completed(idl, given)) /\ DOMAIN Completed(idl, given) = Names(idl)
  <1> DEFINE first == Sweep(idl, given)
             second == Sweep(idl, first)
  <1>1. Derives(idl, given, given)
    BY DEF Derives, Fillable
  <1>2. Derives(idl, given, Completed(idl, given))
    BY <1>1, SweepDerives DEF Completed
  <1>3. Len(idl) \in Nat
    BY DEF Fillable
  <1>4. DOMAIN given \subseteq DOMAIN first /\ DOMAIN second \subseteq DOMAIN Sweep(idl, second)
    BY <1>3, SweepKeeps
  <1>5. \A i \in Early(idl, given) : idl[i].name \in DOMAIN first
    <2> DEFINE G == Early(idl, given)
    <2>1. /\ G \in SUBSET DOMAIN idl
          /\ \A i \in G : Known(idl[i], DOMAIN given \cup Before(idl, G, i))
      BY DEF Early, Known
    <2> HIDE DEF G
    <2> QED BY <2>1, SweepReaches DEF Fillable, G
  <1>6. \A i \in DOMAIN idl : idl[i].name \in DOMAIN second
    <2> HIDE DEF first
    <2>1. ASSUME NEW i \in DOMAIN idl, idl[i].name \notin DOMAIN first
          PROVE  Known(idl[i], DOMAIN first \cup Before(idl, DOMAIN idl, i))
      <3>1. Known(idl[i], Sources(idl, given, i))
        BY <1>4, <2>1 DEF Fillable
      <3>2. Sources(idl, given, i) \subseteq DOMAIN first \cup Before(idl, DOMAIN idl, i)
        BY <1>4, <1>5 DEF Sources
      <3> QED BY <3>1, <3>2 DEF Known
    <2> QED BY <2>1, SweepReaches DEF Fillable
  <1>7. Names(idl) \subseteq DOMAIN Completed(idl, given)
    BY <1>4, <1>6 DEF Completed, Names
  <1> QED BY <1>2, <1>7 DEF Derives

(* and these are the accounts the program reads, *)
LEMMA AccountsAre ==
    ASSUME NEW b, NEW idl, Fillable(idl, b.given), NEW M, b.rest \in Seq(M)
    PROVE  LET acc == Accounts(FilledIn(b, idl), idl)
           IN /\ DOMAIN acc = Names(idl)
              /\ \A n \in Names(idl) : acc[n] = Completed(idl, b.given)[n]
              /\ \A n \in DOMAIN b.given : n \in Names(idl) /\ acc[n] = b.given[n]
  <1> DEFINE acc == Accounts(FilledIn(b, idl), idl)
  <1>1. DOMAIN acc = Names(idl)
    BY DEF Accounts, Names
  <1>2. Len(idl) \in Nat /\ DOMAIN idl = 1 .. Len(idl)
    BY DEF Fillable
  <1>3. /\ DOMAIN Completed(idl, b.given) = Names(idl)
        /\ Derives(idl, b.given, Completed(idl, b.given))
    BY CompletedDerives
  <1>4. \A i \in DOMAIN idl : acc[idl[i].name] = Completed(idl, b.given)[idl[i].name]
    <2> TAKE i \in DOMAIN idl
    <2>1. idl[i].name \in DOMAIN Completed(idl, b.given)
      BY <1>3 DEF Names
    <2> QED BY <1>2, <2>1, AccountIs
  <1> HIDE DEF acc
  <1>5. \A n \in Names(idl) : acc[n] = Completed(idl, b.given)[n]
    BY <1>4 DEF Names
  <1>6. \A n \in DOMAIN b.given : n \in Names(idl) /\ acc[n] = b.given[n]
    BY <1>3, <1>5 DEF Derives
  <1> QED BY <1>1, <1>5, <1>6 DEF acc

(* which is what it demands of the rows the caller left out. *)
LEMMA DerivedRowHolds ==
    ASSUME NEW idl, NEW given, Fillable(idl, given), NEW acc, DOMAIN acc = Names(idl),
           \A n \in Names(idl) : acc[n] = Completed(idl, given)[n],
           NEW i \in DOMAIN idl, idl[i].name \notin DOMAIN given, NEW op, NEW c
    PROVE  RowHolds(idl[i], op, acc, c)
  <1> DEFINE row == idl[i]
             full == Completed(idl, given)
  <1>1. DOMAIN full = Names(idl) /\ Derives(idl, given, full)
    BY CompletedDerives
  <1>2. row.name \in Names(idl)
    BY DEF Names
  <1>3. Known(row, Names(idl)) /\ acc[row.name] = ValueOf(row, full)
    BY <1>1, <1>2 DEF Derives
  <1> HIDE DEF full
  <1>4. CASE row.rule = "fixed"
    BY <1>3, <1>4 DEF RowHolds, ValueOf
  <1>5. CASE row.rule # "fixed"
    <2>1. /\ row.rule = "derived"
          /\ \A k \in DOMAIN row.seeds : row.seeds[k] \in Names(idl) \cup Constants
      BY <1>3, <1>5 DEF Known
    <2>2. \A k \in DOMAIN row.seeds :
            SeedKey(row.seeds[k], full) = SeedOnChain(row.seeds[k], acc, c)
      <3> TAKE k \in DOMAIN row.seeds
      <3>1. row.seeds[k] \notin OffChain
        BY <2>1 DEF Fillable, Constants, OffChain
      <3> QED BY <1>1, <2>1, <3>1 DEF SeedKey, SeedOnChain, OffChain, full
    <2>3. acc[row.name]
            = Pda(row.prog, row.tag, [k \in DOMAIN row.seeds |-> SeedOnChain(row.seeds[k], acc, c)])
      BY <1>3, <1>5, <2>2 DEF ValueOf
    <2> QED BY <2>1, <2>3 DEF RowHolds
  <1> QED BY <1>4, <1>5

(* The instruction has the layout of its account list, and its further *)
(* accounts after it.                                                  *)
LEMMA FilledLayout ==
    ASSUME NEW b, NEW idl, Len(idl) \in Nat, DOMAIN idl = 1 .. Len(idl), NEW M, b.rest \in Seq(M)
    PROVE  LET ix == FilledIn(b, idl)
           IN /\ ix.op = b.op /\ Len(ix.metas) >= Len(idl)
              /\ \A i \in DOMAIN idl : ix.metas[i].flags = idl[i].flags
              /\ Rest(ix, idl) = b.rest
  <1> DEFINE ix == FilledIn(b, idl)
             full == Completed(idl, b.given)
             key(n) == IF n \in DOMAIN full THEN full[n] ELSE Unresolved
             rows == [j \in DOMAIN idl |-> Meta(key(idl[j].name), idl[j].flags)]
  <1> HIDE DEF full
  <1>1. ix.metas = rows \o b.rest /\ ix.op = b.op
    BY DEF FilledIn, Filled, Completed, full
  <1> DEFINE U == {rows[j] : j \in 1 .. Len(idl)} \cup M
  <1>2. rows \in Seq(U) /\ Len(rows) = Len(idl) /\ b.rest \in Seq(U)
    OBVIOUS
  <1>3. \A i \in DOMAIN idl : rows[i].flags = idl[i].flags
    BY DEF Meta
  <1> HIDE DEF ix, rows, U
  <1>4. \A i \in DOMAIN idl : (rows \o b.rest)[i] = rows[i]
    BY <1>2
  <1>5. Len(rows \o b.rest) = Len(idl) + Len(b.rest)
    BY <1>2
  <1>6. SubSeq(rows \o b.rest, Len(idl) + 1, Len(rows \o b.rest)) = b.rest
    <2> DEFINE all == rows \o b.rest
               tail == SubSeq(all, Len(idl) + 1, Len(all))
    <2>1. all \in Seq(U) /\ Len(b.rest) \in Nat
      BY <1>2
    <2>2. tail \in Seq(U) /\ Len(tail) = Len(b.rest)
      BY <1>5, <2>1
    <2>3. \A k \in 1 .. Len(b.rest) : tail[k] = b.rest[k]
      <3> TAKE k \in 1 .. Len(b.rest)
      <3>1. tail[k] = all[Len(idl) + 1 + k - 1] /\ Len(idl) + 1 + k - 1 = Len(idl) + k
        BY <1>5, <2>1
      <3>2. all[Len(idl) + k] = b.rest[k]
        BY <1>2
      <3> QED BY <3>1, <3>2
    <2> HIDE DEF tail, all
    <2> QED BY <1>2, <2>2, <2>3 DEF tail, all
  <1> QED BY <1>1, <1>3, <1>4, <1>5, <1>6 DEF Rest, ix

(* The program accepts the accounts when those the caller gave are right, *)
LEMMA FilledHolds ==
    ASSUME NEW b, NEW idl, Fillable(idl, b.given), NEW M, b.rest \in Seq(M), NEW c,
           NEW acc, acc = Accounts(FilledIn(b, idl), idl),
           \A i \in DOMAIN idl : idl[i].name \in DOMAIN b.given => RowHolds(idl[i], b.op, acc, c),
           Covers(b.rest, RestNeeded(b.op, acc, c))
    PROVE  AccountsHold(FilledIn(b, idl), idl, acc, c)
  <1>1. Len(idl) \in Nat /\ DOMAIN idl = 1 .. Len(idl)
    BY DEF Fillable
  <1>2. DOMAIN acc = Names(idl) /\ \A n \in Names(idl) : acc[n] = Completed(idl, b.given)[n]
    BY AccountsAre
  <1>3. \A i \in DOMAIN idl : RowHolds(idl[i], b.op, acc, c)
    BY <1>2, DerivedRowHolds
  <1>4. /\ FilledIn(b, idl).op = b.op /\ Len(FilledIn(b, idl).metas) >= Len(idl)
        /\ \A i \in DOMAIN idl : FilledIn(b, idl).metas[i].flags = idl[i].flags
        /\ Rest(FilledIn(b, idl), idl) = b.rest
    BY <1>1, FilledLayout
  <1> QED BY <1>3, <1>4 DEF AccountsHold

(* and runs the instruction when it is also ready for it. *)
LEMMA FilledRuns ==
    ASSUME NEW b, NEW idl, Fillable(idl, b.given), NEW M, b.rest \in Seq(M), NEW c, c # Refused,
           NEW acc, acc = Accounts(FilledIn(b, idl), idl),
           \A i \in DOMAIN idl : idl[i].name \in DOMAIN b.given => RowHolds(idl[i], b.op, acc, c),
           Covers(b.rest, RestNeeded(b.op, acc, c)), Ready(FilledIn(b, idl), acc, c)
    PROVE  Run(c, FilledIn(b, idl), idl) = Effect(FilledIn(b, idl), acc, c)
  BY FilledHolds DEF Run, Executed

(* When a row is known: a fixed one always, *)
LEMMA KnownFixed ==
    ASSUME NEW n, NEW flags, NEW prog, NEW K
    PROVE  Known(IDL!Fixed(n, flags, prog), K)
  BY DEF Known, IDL!Fixed

(* a derived one from its seeds, *)
LEMMA KnownDerived ==
    ASSUME NEW n, NEW flags, NEW prog, NEW tag, NEW seeds, NEW K,
           \A k \in DOMAIN seeds : seeds[k] \in K \cup Constants
    PROVE  Known(IDL!Derived(n, flags, prog, tag, seeds), K)
  BY DEF Known, IDL!Derived

(* one without seeds always, *)
LEMMA KnownAlone ==
    ASSUME NEW n, NEW flags, NEW prog, NEW tag, NEW K
    PROVE  Known(IDL!Derived(n, flags, prog, tag, <<>>), K)
  BY DEF Known, IDL!Derived

(* one with a single seed from it, *)
LEMMA KnownFrom ==
    ASSUME NEW n, NEW flags, NEW prog, NEW tag, NEW s, NEW K, s \in K \cup Constants
    PROVE  Known(IDL!Derived(n, flags, prog, tag, <<s>>), K)
  BY DEF Known, IDL!Derived

(* and a token account from its three. *)
LEMMA KnownAta ==
    ASSUME NEW n, NEW flags, NEW owner, NEW token, NEW mint, NEW K,
           owner \in K \cup Constants, token \in K \cup Constants, mint \in K \cup Constants
    PROVE  Known(IDL!AtaOf(n, flags, owner, token, mint), K)
  BY DEF Known, IDL!Derived, IDL!AtaOf

(* When a row holds: one of the caller's choice, *)
LEMMA GivenRow ==
    ASSUME NEW n, NEW flags, NEW op, NEW acc, NEW c, ChoiceHolds(n, op, acc, c)
    PROVE  RowHolds(IDL!Given(n, flags), op, acc, c)
  BY DEF RowHolds, IDL!Given

(* one derived from a single seed, *)
LEMMA DerivedRow1 ==
    ASSUME NEW n, NEW flags, NEW prog, NEW tag, NEW s, NEW op, NEW acc, NEW c,
           acc[n] = Pda(prog, tag, <<SeedOnChain(s, acc, c)>>)
    PROVE  RowHolds(IDL!Derived(n, flags, prog, tag, <<s>>), op, acc, c)
  <1>1. [i \in DOMAIN <<s>> |-> SeedOnChain(<<s>>[i], acc, c)] = <<SeedOnChain(s, acc, c)>>
    OBVIOUS
  <1> QED BY <1>1 DEF RowHolds, IDL!Derived

(* and a token account. *)
LEMMA AtaRow ==
    ASSUME NEW n, NEW flags, NEW owner, NEW token, NEW mint, NEW op, NEW acc, NEW c,
           acc[n] = Pda("ata", "none", <<SeedOnChain(owner, acc, c), SeedOnChain(token, acc, c),
                                         SeedOnChain(mint, acc, c)>>)
    PROVE  RowHolds(IDL!AtaOf(n, flags, owner, token, mint), op, acc, c)
  <1>1. [i \in DOMAIN <<owner, token, mint>> |-> SeedOnChain(<<owner, token, mint>>[i], acc, c)]
          = <<SeedOnChain(owner, acc, c), SeedOnChain(token, acc, c), SeedOnChain(mint, acc, c)>>
    OBVIOUS
  <1> QED BY <1>1 DEF RowHolds, IDL!AtaOf, IDL!Derived

(* A set of names covers itself. *)
LEMMA CoversSelf == ASSUME NEW s PROVE Covers(s, s)
  BY DEF Covers

------------------------------------------------------------------------------
(***************************************************************************)
(* The methods that pay out fees.                                          *)
(***************************************************************************)

(* The account lists of the four instructions they send can be filled in. *)
LEMMA CollectTable ==
    ASSUME NEW given, DOMAIN given = {"creator"}
    PROVE  Fillable(IDL!collectCreatorFee, given)
  <1> DEFINE idl == IDL!collectCreatorFee
  <1>1. /\ DOMAIN idl = 1 .. 5 /\ Len(idl) = 5
        /\ idl[1] = IDL!Given("creator", IDL!W)
        /\ idl[2] = IDL!Derived("creatorVault", IDL!W, "pump", "creator-vault", <<"creator">>)
        /\ idl[3] = IDL!SystemProgram
        /\ idl[4] = IDL!EventAuthority("eventAuthority", "pump")
        /\ idl[5] = IDL!Fixed("program", IDL!RO, "pump")
    BY DEF IDL!collectCreatorFee, IDL!Events
  <1> HIDE DEF idl
  <1>2. /\ idl[1].name = "creator" /\ idl[2].name = "creatorVault"
        /\ idl[3].name = "systemProgram" /\ idl[4].name = "eventAuthority"
        /\ idl[5].name = "program"
    BY <1>1, RowNames
  <1>3. \A K : "creator" \in K => /\ Known(idl[2], K) /\ Known(idl[3], K)
                                  /\ Known(idl[4], K) /\ Known(idl[5], K)
    BY <1>1, KnownFixed, KnownAlone, KnownFrom
       DEF IDL!SystemProgram, IDL!AssociatedTokenProgram, IDL!EventAuthority
  <1>4. \A i \in DOMAIN idl : idl[i].name \notin DOMAIN given =>
                                Known(idl[i], Sources(idl, given, i))
    BY <1>1, <1>2, <1>3 DEF Sources
  <1>5. \A i \in DOMAIN idl, j \in DOMAIN idl : idl[i].name = idl[j].name => i = j
    BY <1>1, <1>2
  <1>6. Names(idl) \cap (Constants \cup OffChain) = {} /\ DOMAIN given \subseteq Names(idl)
    BY <1>1, <1>2 DEF Names, Constants, OffChain
  <1> QED BY <1>1, <1>4, <1>5, <1>6 DEF Fillable, idl

(* Those of a transfer, *)
LEMMA TransferTable ==
    ASSUME NEW given, DOMAIN given = {"wsolMint", "tokenProgram", "coinCreator"}
    PROVE  Fillable(IDL!transferCreatorFeesToPump, given)
  <1> DEFINE idl == IDL!transferCreatorFeesToPump
  <1>1. /\ DOMAIN idl = 1 .. 10 /\ Len(idl) = 10
        /\ idl[1] = IDL!Given("wsolMint", IDL!RO)
        /\ idl[2] = IDL!Given("tokenProgram", IDL!RO)
        /\ idl[3] = IDL!SystemProgram
        /\ idl[4] = IDL!AssociatedTokenProgram
        /\ idl[5] = IDL!Given("coinCreator", IDL!RO)
        /\ idl[6] = IDL!Derived("coinCreatorVaultAuthority", IDL!W, "pumpAmm", "creator_vault",
                                <<"coinCreator">>)
        /\ idl[7] = IDL!AtaOf("coinCreatorVaultAta", IDL!W, "coinCreatorVaultAuthority",
                              "tokenProgram", "wsolMint")
        /\ idl[8] = IDL!Derived("pumpCreatorVault", IDL!W, "pump", "creator-vault",
                                <<"coinCreator">>)
        /\ idl[9] = IDL!EventAuthority("eventAuthority", "pumpAmm")
        /\ idl[10] = IDL!Fixed("program", IDL!RO, "pumpAmm")
    BY DEF IDL!transferCreatorFeesToPump, IDL!TransferAmmVault, IDL!TransferPumpVault, IDL!Events
  <1> HIDE DEF idl
  <1>2. /\ idl[1].name = "wsolMint" /\ idl[2].name = "tokenProgram"
        /\ idl[3].name = "systemProgram" /\ idl[4].name = "associatedTokenProgram"
        /\ idl[5].name = "coinCreator" /\ idl[6].name = "coinCreatorVaultAuthority"
        /\ idl[7].name = "coinCreatorVaultAta" /\ idl[8].name = "pumpCreatorVault"
        /\ idl[9].name = "eventAuthority" /\ idl[10].name = "program"
    BY <1>1, RowNames
  <1>3. \A K : "coinCreator" \in K =>
          /\ Known(idl[3], K) /\ Known(idl[4], K) /\ Known(idl[6], K) /\ Known(idl[8], K)
          /\ Known(idl[9], K) /\ Known(idl[10], K)
    BY <1>1, KnownFixed, KnownAlone, KnownFrom
       DEF IDL!SystemProgram, IDL!AssociatedTokenProgram, IDL!EventAuthority
  <1>4. {"wsolMint", "tokenProgram", "coinCreatorVaultAuthority"} \subseteq Sources(idl, given, 7)
    BY <1>1, <1>2 DEF Sources, Before
  <1>5. Known(idl[7], Sources(idl, given, 7))
    BY <1>1, <1>4, KnownAta
  <1>6. \A i \in DOMAIN idl : idl[i].name \notin DOMAIN given =>
                                Known(idl[i], Sources(idl, given, i))
    <2>1. \A i : "coinCreator" \in Sources(idl, given, i)
      BY DEF Sources
    <2>2. \A i \in {3, 4, 6, 7, 8, 9, 10} : Known(idl[i], Sources(idl, given, i))
      BY <1>3, <1>5, <2>1
    <2>3. \A i \in {1, 2, 5} : idl[i].name \in DOMAIN given
      BY <1>2
    <2>4. DOMAIN idl = {1, 2, 5} \cup {3, 4, 6, 7, 8, 9, 10}
      BY <1>1
    <2> QED BY <2>2, <2>3, <2>4
  <1>7. \A i \in DOMAIN idl, j \in DOMAIN idl : idl[i].name = idl[j].name => i = j
    BY <1>1, <1>2
  <1>8. Names(idl) \cap (Constants \cup OffChain) = {} /\ DOMAIN given \subseteq Names(idl)
    BY <1>1, <1>2 DEF Names, Constants, OffChain
  <1> QED BY <1>1, <1>6, <1>7, <1>8 DEF Fillable, idl

(* of a collection on the AMM, *)
LEMMA AmmCollectTable ==
    ASSUME NEW given,
           DOMAIN given = {"coinCreator", "quoteMint", "quoteTokenProgram",
                           "coinCreatorVaultAuthority", "coinCreatorVaultAta",
                           "coinCreatorTokenAccount"}
    PROVE  Fillable(IDL!collectCoinCreatorFee, given)
  <1> DEFINE idl == IDL!collectCoinCreatorFee
  <1>1. /\ DOMAIN idl = 1 .. 8 /\ Len(idl) = 8
        /\ idl[1] = IDL!Given("quoteMint", IDL!RO)
        /\ idl[2] = IDL!Given("quoteTokenProgram", IDL!RO)
        /\ idl[3] = IDL!Given("coinCreator", IDL!RO)
        /\ idl[4] = IDL!Derived("coinCreatorVaultAuthority", IDL!RO, "pumpAmm", "creator_vault",
                                <<"coinCreator">>)
        /\ idl[5] = IDL!AtaOf("coinCreatorVaultAta", IDL!W, "coinCreatorVaultAuthority",
                              "quoteTokenProgram", "quoteMint")
        /\ idl[6] = IDL!Given("coinCreatorTokenAccount", IDL!W)
        /\ idl[7] = IDL!EventAuthority("eventAuthority", "pumpAmm")
        /\ idl[8] = IDL!Fixed("program", IDL!RO, "pumpAmm")
    BY DEF IDL!collectCoinCreatorFee, IDL!Events
  <1> HIDE DEF idl
  <1>2. /\ idl[1].name = "quoteMint" /\ idl[2].name = "quoteTokenProgram"
        /\ idl[3].name = "coinCreator" /\ idl[4].name = "coinCreatorVaultAuthority"
        /\ idl[5].name = "coinCreatorVaultAta" /\ idl[6].name = "coinCreatorTokenAccount"
        /\ idl[7].name = "eventAuthority" /\ idl[8].name = "program"
    BY <1>1, RowNames
  <1>3. \A K : Known(idl[7], K) /\ Known(idl[8], K)
    BY <1>1, KnownFixed, KnownDerived DEF IDL!EventAuthority
  <1>4. \A i \in DOMAIN idl : idl[i].name \notin DOMAIN given =>
                                Known(idl[i], Sources(idl, given, i))
    BY <1>1, <1>2, <1>3
  <1>5. \A i \in DOMAIN idl, j \in DOMAIN idl : idl[i].name = idl[j].name => i = j
    BY <1>1, <1>2
  <1>6. Names(idl) \cap (Constants \cup OffChain) = {} /\ DOMAIN given \subseteq Names(idl)
    BY <1>1, <1>2 DEF Names, Constants, OffChain
  <1> QED BY <1>1, <1>4, <1>5, <1>6 DEF Fillable, idl

(* and of a distribution. *)
LEMMA DistributeTable ==
    ASSUME NEW given, DOMAIN given = {"mint", "creatorVault"}
    PROVE  Fillable(IDL!distributeCreatorFees, given)
  <1> DEFINE idl == IDL!distributeCreatorFees
  <1>1. /\ DOMAIN idl = 1 .. 7 /\ Len(idl) = 7
        /\ idl[1] = IDL!Mint(IDL!RO)
        /\ idl[2] = IDL!BondingCurve(IDL!RO)
        /\ idl[3] = IDL!SharingConfig(IDL!RO)
        /\ idl[4] = IDL!CreatorVault(IDL!W)
        /\ idl[5] = IDL!SystemProgram
        /\ idl[6] = IDL!EventAuthority("eventAuthority", "pump")
        /\ idl[7] = IDL!Fixed("program", IDL!RO, "pump")
    BY DEF IDL!distributeCreatorFees, IDL!DistributeConfig, IDL!DistributeVault, IDL!Events
  <1> HIDE DEF idl
  <1>2. /\ idl[1].name = "mint" /\ idl[2].name = "bondingCurve" /\ idl[3].name = "sharingConfig"
        /\ idl[4].name = "creatorVault" /\ idl[5].name = "systemProgram"
        /\ idl[6].name = "eventAuthority" /\ idl[7].name = "program"
    BY <1>1, GivenName, DerivedName, FixedName
       DEF IDL!Mint, IDL!BondingCurve, IDL!SharingConfig, IDL!CreatorVault, IDL!SystemProgram,
           IDL!EventAuthority
  <1>3. \A K : /\ "mint" \in K => Known(idl[2], K) /\ Known(idl[3], K)
               /\ Known(idl[5], K) /\ Known(idl[6], K) /\ Known(idl[7], K)
    BY <1>1, KnownFixed, KnownDerived
       DEF IDL!BondingCurve, IDL!SharingConfig, IDL!SystemProgram, IDL!EventAuthority
  <1>4. \A i \in DOMAIN idl : idl[i].name \notin DOMAIN given =>
                                Known(idl[i], Sources(idl, given, i))
    BY <1>1, <1>2, <1>3 DEF Sources
  <1>5. \A i \in DOMAIN idl, j \in DOMAIN idl : idl[i].name = idl[j].name => i = j
    BY <1>1, <1>2
  <1>6. Names(idl) \cap (Constants \cup OffChain) = {} /\ DOMAIN given \subseteq Names(idl)
    BY <1>1, <1>2 DEF Names, Constants, OffChain
  <1> QED BY <1>1, <1>4, <1>5, <1>6 DEF Fillable, idl

(* A creator collects the fees of the curve, *)
LEMMA CollectRuns ==
    ASSUME NEW owner \in Users, NEW c, Good(c)
    PROVE  LET b == instruction("collectCreatorFee", [creator |-> owner], <<>>, NoArgs)
           IN Run(c, FilledIn(b, IDL!Idl[b.op]), IDL!Idl[b.op])
                = [c EXCEPT !.fees = @ \ {creatorVaultPda(owner)}]
  <1> DEFINE b == instruction("collectCreatorFee", [creator |-> owner], <<>>, NoArgs)
             idl == IDL!collectCreatorFee
             ix == FilledIn(b, idl)
             acc == Accounts(ix, idl)
  <1>1. /\ b.op = "collectCreatorFee" /\ b.rest = <<>> /\ DOMAIN b.given = {"creator"}
        /\ b.given["creator"] = owner
    BY DEF instruction
  <1>2. IDL!Idl[b.op] = idl /\ ix.op = b.op
    BY <1>1 DEF IDL!Idl, FilledIn, Filled
  <1> HIDE DEF b
  <1>3. b.rest \in Seq({})
    BY <1>1
  <1>4. Fillable(idl, b.given)
    BY <1>1, CollectTable
  <1>5. "creator" \in DOMAIN acc /\ acc["creator"] = owner
    <2>1. /\ DOMAIN acc = Names(idl)
          /\ \A n \in DOMAIN b.given : n \in Names(idl) /\ acc[n] = b.given[n]
      BY <1>3, <1>4, AccountsAre
    <2> QED BY <1>1, <2>1
  <1>6. c # Refused
    BY DEF Good, IsCoin, Refused
  <1>7. /\ DOMAIN idl = 1 .. 5
        /\ idl[1] = IDL!Given("creator", IDL!W)
        /\ idl[2] = IDL!Derived("creatorVault", IDL!W, "pump", "creator-vault", <<"creator">>)
        /\ idl[3] = IDL!SystemProgram
        /\ idl[4] = IDL!EventAuthority("eventAuthority", "pump")
        /\ idl[5] = IDL!Fixed("program", IDL!RO, "pump")
    BY DEF IDL!collectCreatorFee, IDL!Events
  <1> HIDE DEF idl, acc, ix
  <1>8. ChoiceHolds("creator", b.op, acc, c)
    BY <1>5 DEF ChoiceHolds, Users, Dev, Other, Wallet, Address, Unresolved
  <1>9. \A i \in DOMAIN idl : idl[i].name \in DOMAIN b.given => RowHolds(idl[i], b.op, acc, c)
    <2>1. RowHolds(idl[1], b.op, acc, c)
      BY <1>7, <1>8, GivenRow
    <2>2. idl[1].name = "creator"
      BY <1>7, GivenName
    <2> QED BY <1>1, <1>4, <1>7, <2>1, <2>2 DEF Fillable
  <1>10. Covers(b.rest, RestNeeded(b.op, acc, c))
    BY <1>1, CoversSelf DEF RestNeeded
  <1>11. Ready(ix, acc, c)
    BY <1>1, <1>2, <1>5, Distinct DEF Ready, isCreatorUsingSharingConfig, Config
  <1>12. Run(c, ix, idl) = Effect(ix, acc, c)
    BY <1>3, <1>4, <1>6, <1>9, <1>10, <1>11, FilledRuns DEF acc, ix
  <1>13. AccountsHold(ix, idl, acc, c)
    BY <1>3, <1>4, <1>9, <1>10, FilledHolds DEF acc, ix
  <1>14. acc.creatorVault = creatorVaultPda(owner)
    <2>1. RowHolds(idl[2], ix.op, acc, c)
      BY <1>7, <1>13 DEF AccountsHold
    <2>2. acc["creatorVault"] = Pda("pump", "creator-vault", <<SeedOnChain("creator", acc, c)>>)
      BY <1>7, <2>1, DerivedHolds1
    <2> QED BY <1>5, <2>2 DEF SeedOnChain, creatorVaultPda
  <1>15. Effect(ix, acc, c) = [c EXCEPT !.fees = @ \ {creatorVaultPda(owner)}]
    BY <1>1, <1>2, <1>14 DEF Effect
  <1> QED BY <1>2, <1>12, <1>15 DEF ix, b

(* and those of the AMM. *)
LEMMA AmmCollectRuns ==
    ASSUME NEW owner \in Users, NEW c, Good(c)
    PROVE  LET b == collectCoinCreatorFeeInstructions(owner)[2]
           IN Run(c, FilledIn(b, IDL!Idl[b.op]), IDL!Idl[b.op])
                = [c EXCEPT !.fees = @ \ {ammVaultAta(owner)}]
  <1> DEFINE b == collectCoinCreatorFeeInstructions(owner)[2]
             idl == IDL!collectCoinCreatorFee
             ix == FilledIn(b, idl)
             acc == Accounts(ix, idl)
  <1>1. /\ b.op = "collectCoinCreatorFee" /\ b.rest = <<>>
        /\ DOMAIN b.given = {"coinCreator", "quoteMint", "quoteTokenProgram",
                             "coinCreatorVaultAuthority", "coinCreatorVaultAta",
                             "coinCreatorTokenAccount"}
        /\ b.given["coinCreator"] = owner /\ b.given["quoteMint"] = NATIVE_MINT
        /\ b.given["quoteTokenProgram"] = TOKEN_PROGRAM_ID
        /\ b.given["coinCreatorVaultAuthority"] = ammCreatorVaultPda(owner)
        /\ b.given["coinCreatorVaultAta"] = ammVaultAta(owner)
        /\ b.given["coinCreatorTokenAccount"]
             = getAssociatedTokenAddressSync(NATIVE_MINT, owner, TOKEN_PROGRAM_ID)
    BY DEF collectCoinCreatorFeeInstructions, instruction
  <1>2. IDL!Idl[b.op] = idl /\ ix.op = b.op
    BY <1>1 DEF IDL!Idl, FilledIn, Filled
  <1> HIDE DEF b
  <1>3. b.rest \in Seq({})
    BY <1>1
  <1>4. Fillable(idl, b.given)
    BY <1>1, AmmCollectTable
  <1>5. \A n \in DOMAIN b.given : n \in DOMAIN acc /\ acc[n] = b.given[n]
    BY <1>3, <1>4, AccountsAre
  <1>6. /\ acc["coinCreator"] = owner /\ acc["quoteMint"] = NATIVE_MINT
        /\ acc["quoteTokenProgram"] = TOKEN_PROGRAM_ID
        /\ acc["coinCreatorVaultAuthority"] = ammCreatorVaultPda(owner)
        /\ acc["coinCreatorVaultAta"] = ammVaultAta(owner)
        /\ acc["coinCreatorTokenAccount"]
             = getAssociatedTokenAddressSync(NATIVE_MINT, owner, TOKEN_PROGRAM_ID)
    BY <1>1, <1>5
  <1>7. {"coinCreator", "quoteMint", "quoteTokenProgram", "coinCreatorVaultAuthority"}
          \subseteq DOMAIN acc
    BY <1>1, <1>5
  <1>8. c # Refused
    BY DEF Good, IsCoin, Refused
  <1>9. /\ DOMAIN idl = 1 .. 8
        /\ idl[1] = IDL!Given("quoteMint", IDL!RO)
        /\ idl[2] = IDL!Given("quoteTokenProgram", IDL!RO)
        /\ idl[3] = IDL!Given("coinCreator", IDL!RO)
        /\ idl[4] = IDL!Derived("coinCreatorVaultAuthority", IDL!RO, "pumpAmm", "creator_vault",
                                <<"coinCreator">>)
        /\ idl[5] = IDL!AtaOf("coinCreatorVaultAta", IDL!W, "coinCreatorVaultAuthority",
                              "quoteTokenProgram", "quoteMint")
        /\ idl[6] = IDL!Given("coinCreatorTokenAccount", IDL!W)
        /\ idl[7] = IDL!EventAuthority("eventAuthority", "pumpAmm")
        /\ idl[8] = IDL!Fixed("program", IDL!RO, "pumpAmm")
    BY DEF IDL!collectCoinCreatorFee, IDL!Events
  <1> HIDE DEF idl, acc, ix
  <1>10. /\ ChoiceHolds("quoteMint", b.op, acc, c)
         /\ ChoiceHolds("quoteTokenProgram", b.op, acc, c)
         /\ ChoiceHolds("coinCreator", b.op, acc, c)
         /\ ChoiceHolds("coinCreatorTokenAccount", b.op, acc, c)
    <2>1. /\ NATIVE_MINT # Unresolved /\ TOKEN_PROGRAM_ID # Unresolved /\ owner # Unresolved
          /\ getAssociatedTokenAddressSync(NATIVE_MINT, owner, TOKEN_PROGRAM_ID) # Unresolved
      BY DEF NATIVE_MINT, TOKEN_PROGRAM_ID, getAssociatedTokenAddressSync, Pda, Program, Users, Dev,
             Other, Wallet, Address, Unresolved
    <2> QED BY <1>6, <2>1 DEF ChoiceHolds
  <1>11. RowHolds(idl[1], b.op, acc, c) /\ RowHolds(idl[2], b.op, acc, c)
           /\ RowHolds(idl[3], b.op, acc, c) /\ RowHolds(idl[6], b.op, acc, c)
    BY <1>9, <1>10, GivenRow
  <1>12. RowHolds(idl[4], b.op, acc, c)
    <2>1. acc["coinCreatorVaultAuthority"]
            = Pda("pumpAmm", "creator_vault", <<SeedOnChain("coinCreator", acc, c)>>)
      BY <1>6, <1>7 DEF SeedOnChain, ammCreatorVaultPda
    <2> QED BY <1>9, <2>1, DerivedRow1
  <1>13. RowHolds(idl[5], b.op, acc, c)
    <2>1. acc["coinCreatorVaultAta"]
            = Pda("ata", "none", <<SeedOnChain("coinCreatorVaultAuthority", acc, c),
                                   SeedOnChain("quoteTokenProgram", acc, c),
                                   SeedOnChain("quoteMint", acc, c)>>)
      BY <1>6, <1>7 DEF SeedOnChain, ammVaultAta, getAssociatedTokenAddressSync
    <2> QED BY <1>9, <2>1, AtaRow
  <1>14. \A i \in DOMAIN idl : idl[i].name \in DOMAIN b.given => RowHolds(idl[i], b.op, acc, c)
    <2>1. idl[7].name \notin DOMAIN b.given /\ idl[8].name \notin DOMAIN b.given
      BY <1>1, <1>9, RowNames
    <2> QED BY <1>9, <1>11, <1>12, <1>13, <2>1
  <1>15. Covers(b.rest, RestNeeded(b.op, acc, c))
    BY <1>1, CoversSelf DEF RestNeeded
  <1>16. Ready(ix, acc, c)
    BY <1>1, <1>2 DEF Ready
  <1>17. Run(c, ix, idl) = Effect(ix, acc, c)
    BY <1>3, <1>4, <1>8, <1>14, <1>15, <1>16, FilledRuns DEF acc, ix
  <1>18. Effect(ix, acc, c) = [c EXCEPT !.fees = @ \ {ammVaultAta(owner)}]
    BY <1>1, <1>2, <1>6 DEF Effect
  <1> QED BY <1>2, <1>17, <1>18 DEF ix, b

(* The fees of the AMM join those of the curve, *)
LEMMA TransferRuns ==
    ASSUME NEW c, Good(c), ammVaultAta(Config) \in c.ammVaults
    PROVE  LET b == instruction("transferCreatorFeesToPump",
                      [wsolMint |-> NATIVE_MINT, tokenProgram |-> TOKEN_PROGRAM_ID,
                       coinCreator |-> Config], <<>>, NoArgs)
           IN Run(c, FilledIn(b, IDL!Idl[b.op]), IDL!Idl[b.op])
                = [c EXCEPT !.fees = IF ammVaultAta(Config) \in c.fees
                                     THEN (c.fees \ {ammVaultAta(Config)})
                                            \cup {creatorVaultPda(Config)}
                                     ELSE c.fees]
  <1> DEFINE b == instruction("transferCreatorFeesToPump",
                    [wsolMint |-> NATIVE_MINT, tokenProgram |-> TOKEN_PROGRAM_ID,
                     coinCreator |-> Config], <<>>, NoArgs)
             idl == IDL!transferCreatorFeesToPump
             ix == FilledIn(b, idl)
             acc == Accounts(ix, idl)
  <1>1. /\ b.op = "transferCreatorFeesToPump" /\ b.rest = <<>>
        /\ DOMAIN b.given = {"wsolMint", "tokenProgram", "coinCreator"}
        /\ b.given["wsolMint"] = NATIVE_MINT /\ b.given["tokenProgram"] = TOKEN_PROGRAM_ID
        /\ b.given["coinCreator"] = Config
    BY DEF instruction
  <1>2. IDL!Idl[b.op] = idl /\ ix.op = b.op
    BY <1>1 DEF IDL!Idl, FilledIn, Filled
  <1> HIDE DEF b
  <1>3. b.rest \in Seq({})
    BY <1>1
  <1>4. Fillable(idl, b.given)
    BY <1>1, TransferTable
  <1>5. \A n \in DOMAIN b.given : acc[n] = b.given[n]
    BY <1>3, <1>4, AccountsAre
  <1>6. /\ acc["wsolMint"] = NATIVE_MINT /\ acc["tokenProgram"] = TOKEN_PROGRAM_ID
        /\ acc["coinCreator"] = Config
    BY <1>1, <1>5
  <1>7. DOMAIN acc = {idl[i].name : i \in DOMAIN idl}
    BY DEF Accounts
  <1>8. c # Refused
    BY DEF Good, IsCoin, Refused
  <1>9. /\ DOMAIN idl = 1 .. 10
        /\ idl[1] = IDL!Given("wsolMint", IDL!RO)
        /\ idl[2] = IDL!Given("tokenProgram", IDL!RO)
        /\ idl[5] = IDL!Given("coinCreator", IDL!RO)
    BY DEF IDL!transferCreatorFeesToPump, IDL!TransferAmmVault, IDL!TransferPumpVault, IDL!Events
  <1>10. \A i \in DOMAIN idl : idl[i].name \in DOMAIN b.given => i \in {1, 2, 5}
    <2>1. idl[1].name = "wsolMint" /\ idl[2].name = "tokenProgram" /\ idl[5].name = "coinCreator"
      BY <1>9, GivenName
    <2> HIDE DEF idl
    <2> QED BY <1>1, <1>4, <1>9, <2>1, SMTT(20) DEF Fillable
  <1> HIDE DEF idl, acc, ix
  <1>11. /\ ChoiceHolds("wsolMint", b.op, acc, c) /\ ChoiceHolds("tokenProgram", b.op, acc, c)
         /\ ChoiceHolds("coinCreator", b.op, acc, c)
    <2>1. Config # Unresolved
      BY DEF Config, feeSharingConfigPda, Pda, Wallet, Address, Unresolved
    <2> QED BY <1>1, <1>6, <2>1 DEF ChoiceHolds, TokenOf, Incentives, Wrapped
  <1>12. \A i \in DOMAIN idl : idl[i].name \in DOMAIN b.given => RowHolds(idl[i], b.op, acc, c)
    <2>1. RowHolds(idl[1], b.op, acc, c) /\ RowHolds(idl[2], b.op, acc, c)
            /\ RowHolds(idl[5], b.op, acc, c)
      BY <1>9, <1>11, GivenRow
    <2> QED BY <1>10, <2>1
  <1>13. Covers(b.rest, RestNeeded(b.op, acc, c))
    BY <1>1, CoversSelf DEF RestNeeded
  <1>14. AccountsHold(ix, idl, acc, c)
    BY <1>3, <1>4, <1>12, <1>13, FilledHolds DEF acc, ix
  <1>15. /\ acc.coinCreatorVaultAta = ammVaultAta(Config)
         /\ acc.pumpCreatorVault = creatorVaultPda(Config)
    <2>1. ix.op = "transferCreatorFeesToPump" /\ IDL!Idl[ix.op] = IDL!transferCreatorFeesToPump
      BY <1>1, <1>2 DEF idl
    <2> QED BY <1>2, <1>6, <1>7, <1>14, <2>1, TransferHolds DEF idl
  <1>16. Ready(ix, acc, c)
    BY <1>1, <1>2, <1>15 DEF Ready
  <1>17. Run(c, ix, idl) = Effect(ix, acc, c)
    BY <1>3, <1>4, <1>8, <1>12, <1>13, <1>16, FilledRuns DEF acc, ix
  <1>18. Effect(ix, acc, c) = [c EXCEPT !.fees = IF ammVaultAta(Config) \in c.fees
                                     THEN (c.fees \ {ammVaultAta(Config)})
                                            \cup {creatorVaultPda(Config)}
                                     ELSE c.fees]
    BY <1>1, <1>2, <1>15 DEF Effect, Consolidated
  <1> QED BY <1>2, <1>17, <1>18 DEF ix, b

(* and are shared out from there. *)
LEMMA DistributeRuns ==
    ASSUME NEW c, Good(c), HasShares(c)
    PROVE  LET b == distributeCreatorFees(Addresses(c.shares.holders))
           IN Run(c, FilledIn(b, IDL!Idl[b.op]), IDL!Idl[b.op])
                = [c EXCEPT !.fees = @ \ {creatorVaultPda(Config)}]
  <1> DEFINE b == distributeCreatorFees(Addresses(c.shares.holders))
             idl == IDL!distributeCreatorFees
             ix == FilledIn(b, idl)
             acc == Accounts(ix, idl)
  <1>1. /\ b.op = "distributeCreatorFees" /\ b.rest = Writable(Addresses(c.shares.holders))
        /\ DOMAIN b.given = {"mint", "creatorVault"}
        /\ b.given["mint"] = MINT /\ b.given["creatorVault"] = creatorVaultPda(Config)
    BY DEF distributeCreatorFees, instruction, Config
  <1>2. IDL!Idl[b.op] = idl /\ ix.op = b.op
    BY <1>1 DEF IDL!Idl, FilledIn, Filled
  <1>3. \E M : b.rest \in Seq(M)
    <2>1. PICK S : c.shares.holders \in Seq(S)
      BY DEF Good, IsCoin, List
    <2> DEFINE keys == Addresses(c.shares.holders)
               M == {Meta(keys[i], W) : i \in 1 .. Len(c.shares.holders)}
    <2>2. Len(c.shares.holders) \in Nat /\ DOMAIN keys = 1 .. Len(c.shares.holders)
      BY <2>1 DEF Addresses
    <2> HIDE DEF keys
    <2>3. Writable(keys) \in Seq(M)
      BY <2>2 DEF Writable
    <2> HIDE DEF M
    <2> QED BY <1>1, <2>3 DEF keys
  <1> HIDE DEF b
  <1>4. Fillable(idl, b.given)
    BY <1>1, DistributeTable
  <1>5. PICK M : b.rest \in Seq(M)
    BY <1>3
  <1>6. \A n \in DOMAIN b.given : acc[n] = b.given[n]
    BY <1>4, <1>5, AccountsAre
  <1>7. acc["mint"] = MINT /\ acc["creatorVault"] = creatorVaultPda(Config)
    BY <1>1, <1>6
  <1>8. c # Refused /\ c.creator = Config
    BY DEF Good, IsCoin, OwnersHold, Refused
  <1>9. /\ DOMAIN idl = 1 .. 7
        /\ idl[1] = IDL!Mint(IDL!RO)
        /\ idl[4] = IDL!CreatorVault(IDL!W)
    BY DEF IDL!distributeCreatorFees, IDL!DistributeConfig, IDL!DistributeVault, IDL!Events
  <1>10. \A i \in DOMAIN idl : idl[i].name \in DOMAIN b.given => i \in {1, 4}
    <2>1. idl[1].name = "mint" /\ idl[4].name = "creatorVault"
      BY <1>9, RowNames
    <2>2. \A i \in DOMAIN idl, j \in DOMAIN idl : idl[i].name = idl[j].name => i = j
      BY <1>4 DEF Fillable
    <2> HIDE DEF idl
    <2> QED BY <1>1, <1>9, <2>1, <2>2
  <1> HIDE DEF idl, acc, ix
  <1>11. RowHolds(idl[1], b.op, acc, c)
    <2>1. ChoiceHolds("mint", b.op, acc, c)
      BY <1>1, <1>7 DEF ChoiceHolds, Incentives
    <2> QED BY <1>9, <2>1, GivenRow DEF IDL!Mint
  <1>12. RowHolds(idl[4], b.op, acc, c)
    <2>1. acc["creatorVault"]
            = Pda("pump", "creator-vault", <<SeedOnChain("bondingCurve.creator", acc, c)>>)
      BY <1>7, <1>8 DEF SeedOnChain, creatorVaultPda
    <2> QED BY <1>9, <2>1, DerivedRow1 DEF IDL!CreatorVault
  <1>13. \A i \in DOMAIN idl : idl[i].name \in DOMAIN b.given => RowHolds(idl[i], b.op, acc, c)
    BY <1>10, <1>11, <1>12
  <1>14. Covers(b.rest, RestNeeded(b.op, acc, c))
    BY <1>1, CoversSelf DEF RestNeeded
  <1>15. Ready(ix, acc, c)
    BY <1>1, <1>2 DEF Ready
  <1>16. Run(c, ix, idl) = Effect(ix, acc, c)
    BY <1>4, <1>5, <1>8, <1>13, <1>14, <1>15, FilledRuns DEF acc, ix
  <1>17. Effect(ix, acc, c) = [c EXCEPT !.fees = @ \ {creatorVaultPda(Config)}]
    BY <1>1, <1>2, <1>7 DEF Effect
  <1> QED BY <1>2, <1>16, <1>17 DEF ix, b

(* Fees that move between the vaults leave the accounts good, *)
LEMMA FeesMove ==
    ASSUME NEW c, Good(c), NEW held, held \subseteq UNION {Vaults(o) : o \in Owners},
           NEW d, d = [c EXCEPT !.fees = held]
    PROVE  Good(d) /\ d.fees = held /\ d.shares = c.shares
  <1>1. d = [phase |-> c.phase, token |-> c.token, creator |-> c.creator, mayhem |-> c.mayhem,
             cashback |-> c.cashback, size |-> c.size, ata |-> c.ata, uva |-> c.uva,
             shares |-> c.shares, social |-> c.social, fees |-> held, ammVaults |-> c.ammVaults,
             pool |-> c.pool]
    BY DEF Good, IsCoin
  <1>2. IsCoin(d)
    BY <1>1 DEF Good, IsCoin
  <1>3. OwnersHold(d)
    BY <1>1 DEF Good, OwnersHold, HasShares, Graduated
  <1>4. VaultsHold(d)
    BY <1>1 DEF Good, VaultsHold, Graduated
  <1> QED BY <1>1, <1>2, <1>3, <1>4 DEF Good

(* and so do fees that are paid. *)
LEMMA FeesTaken ==
    ASSUME NEW c, Good(c), NEW vault, NEW d, d = [c EXCEPT !.fees = c.fees \ {vault}]
    PROVE  Good(d) /\ d.fees = c.fees \ {vault} /\ d.shares = c.shares
  <1>1. c.fees \ {vault} \subseteq UNION {Vaults(o) : o \in Owners}
    BY DEF Good, VaultsHold
  <1> QED BY <1>1, FeesMove

(* Two lists of one instruction each, one after the other. *)
LEMMA JoinTwo == ASSUME NEW x, NEW y PROVE <<x>> \o <<y>> = <<x, y>>
  <1> DEFINE S == {x, y}
             a == <<x>>
             b == <<y>>
             d == <<x, y>>
  <1>1. /\ a \in Seq(S) /\ Len(a) = 1 /\ a[1] = x
        /\ b \in Seq(S) /\ Len(b) = 1 /\ b[1] = y
        /\ d \in Seq(S) /\ Len(d) = 2 /\ d[1] = x /\ d[2] = y
    OBVIOUS
  <1> HIDE DEF S, a, b, d
  <1>2. a \o b \in Seq(S) /\ Len(a \o b) = 2
    BY <1>1, SMTT(20)
  <1>3. (a \o b)[1] = x /\ (a \o b)[2] = y
    <2>1. 1 \in 1 .. Len(a) /\ (a \o b)[1] = a[1]
      BY <1>1
    <2>2. \A i \in 1 .. Len(b) : (a \o b)[Len(a) + i] = b[i]
      <3>1. a \in Seq(S) /\ b \in Seq(S)
        BY <1>1
      <3> QED BY <3>1
    <2>3. 1 \in 1 .. Len(b) /\ Len(a) + 1 = 2
      BY <1>1
    <2>4. (a \o b)[Len(a) + 1] = b[1]
      BY <2>2, <2>3
    <2> QED BY <1>1, <2>1, <2>3, <2>4
  <1>4. \A i \in 1 .. 2 : (a \o b)[i] = d[i]
    <2>1. \A i \in 1 .. 2 : i = 1 \/ i = 2
      OBVIOUS
    <2> QED BY <1>1, <1>3, <2>1
  <1>5. a \o b = d
    BY <1>1, <1>2, <1>4
  <1> QED BY <1>5 DEF a, b, d

(* A creator that is a user empties both its vaults, *)
LEMMA UserCollects ==
    ASSUME NEW c, Good(c), NEW owner \in Users
    PROVE  LET after == Landed(c, Instructions(collectCoinCreatorFeeInstructions(owner)))
           IN after # Refused /\ Vaults(owner) \cap after.fees = {}
  <1> DEFINE bs == collectCoinCreatorFeeInstructions(owner)
             first == FilledIn(bs[1], IDL!Idl[bs[1].op])
             second == FilledIn(bs[2], IDL!Idl[bs[2].op])
             d == [c EXCEPT !.fees = @ \ {creatorVaultPda(owner)}]
             e == [d EXCEPT !.fees = @ \ {ammVaultAta(owner)}]
  <1>1. bs = <<bs[1], bs[2]>>
    BY DEF collectCoinCreatorFeeInstructions
  <1>2. bs[1] = instruction("collectCreatorFee", [creator |-> owner], <<>>, NoArgs)
    BY DEF collectCoinCreatorFeeInstructions
  <1>3. Run(c, first, IDL!Idl[bs[1].op]) = d
    BY <1>2, CollectRuns
  <1>4. d = [c EXCEPT !.fees = c.fees \ {creatorVaultPda(owner)}]
    OBVIOUS
  <1> HIDE DEF d
  <1>5. Good(d) /\ d.fees = c.fees \ {creatorVaultPda(owner)}
    BY <1>4, FeesTaken
  <1>6. Run(d, second, IDL!Idl[bs[2].op]) = e
    BY <1>5, AmmCollectRuns
  <1>7. e = [d EXCEPT !.fees = d.fees \ {ammVaultAta(owner)}]
    OBVIOUS
  <1> HIDE DEF e
  <1>8. e.fees = d.fees \ {ammVaultAta(owner)} /\ Good(e)
    BY <1>5, <1>7, FeesTaken
  <1> HIDE DEF bs
  <1>9. Instructions(bs) = <<first, second>>
    <2>1. Instructions(<<bs[1], bs[2]>>) = <<first, second>>
      BY DEF Instructions
    <2> QED BY <1>1, <2>1
  <1>10. first.op = bs[1].op /\ second.op = bs[2].op
    BY DEF FilledIn, Filled
  <1> HIDE DEF first, second
  <1>11. Landed(c, Instructions(bs)) = e
    BY <1>3, <1>6, <1>9, <1>10, LandedTwo
  <1>12. Vaults(owner) \cap e.fees = {}
    BY <1>5, <1>8 DEF Vaults
  <1>13. e # Refused
    BY <1>8 DEF Good, IsCoin, Refused
  <1> QED BY <1>11, <1>12, <1>13 DEF bs

(* a distribution empties the vault it is paid from, *)
LEMMA SharesPaid ==
    ASSUME NEW c, Good(c), HasShares(c)
    PROVE  LET b == distributeCreatorFees(Addresses(c.shares.holders))
               d == Run(c, FilledIn(b, IDL!Idl[b.op]), IDL!Idl[b.op])
           IN d # Refused /\ d.fees = c.fees \ {creatorVaultPda(Config)}
  <1> DEFINE b == distributeCreatorFees(Addresses(c.shares.holders))
             d == Run(c, FilledIn(b, IDL!Idl[b.op]), IDL!Idl[b.op])
  <1>1. d = [c EXCEPT !.fees = c.fees \ {creatorVaultPda(Config)}]
    BY DistributeRuns
  <1> HIDE DEF d
  <1>2. Good(d) /\ d.fees = c.fees \ {creatorVaultPda(Config)}
    BY <1>1, FeesTaken
  <1>3. d # Refused
    BY <1>2 DEF Good, IsCoin, Refused
  <1> QED BY <1>2, <1>3 DEF d

(* and the shareholders empty both vaults of the sharing configuration. *)
LEMMA HoldersAreShared ==
    ASSUME NEW c, Good(c), Collectable(c), Vaults(Config) \cap c.fees # {}
    PROVE  LET after == Landed(c, Instructions(
                                    buildDistributeCreatorFeesInstructions(FetchedConfig(c))))
           IN after # Refused /\ Vaults(Config) \cap after.fees = {}
  <1> DEFINE seen == FetchedConfig(c)
             pay == distributeCreatorFees(Addresses(c.shares.holders))
             payIx == FilledIn(pay, IDL!Idl[pay.op])
             move == instruction("transferCreatorFeesToPump",
                       [wsolMint |-> NATIVE_MINT, tokenProgram |-> TOKEN_PROGRAM_ID,
                        coinCreator |-> Config], <<>>, NoArgs)
             moveIx == FilledIn(move, IDL!Idl[move.op])
             ixs == Instructions(buildDistributeCreatorFeesInstructions(seen))
             cv == creatorVaultPda(Config)
             av == ammVaultAta(Config)
  <1>1. HasShares(c)
    BY DEF Collectable
  <1>2. cv # av /\ Vaults(Config) = {cv, av} /\ Config \in Owners
    BY OwnVaults DEF Vaults, Owners
  <1>3. payIx.op = pay.op /\ moveIx.op = move.op
    BY DEF FilledIn, Filled
  <1>4. seen.holders = Addresses(c.shares.holders) /\ seen.graduated = Graduated(c)
          /\ seen.ammVault = (av \in c.ammVaults)
    BY DEF FetchedConfig
  <1>5. CASE Graduated(c) /\ av \in c.ammVaults
    <2> DEFINE held == IF av \in c.fees THEN (c.fees \ {av}) \cup {cv} ELSE c.fees
               d == [c EXCEPT !.fees = held]
    <2>1. buildDistributeCreatorFeesInstructions(seen) = <<move>> \o <<pay>>
      BY <1>4, <1>5 DEF buildDistributeCreatorFeesInstructions, Consolidation, Config
    <2>2. ixs = <<moveIx, payIx>>
      <3> HIDE DEF move, pay
      <3>1. <<move>> \o <<pay>> = <<move, pay>>
        BY JoinTwo
      <3>2. Instructions(<<move, pay>>) = <<moveIx, payIx>>
        BY DEF Instructions
      <3> QED BY <2>1, <3>1, <3>2
    <2>3. Run(c, moveIx, IDL!Idl[move.op]) = d
      BY <1>5, TransferRuns
    <2>4. held \subseteq UNION {Vaults(o) : o \in Owners} /\ av \notin held
      BY <1>2 DEF Good, VaultsHold
    <2>5. Good(d) /\ d.fees = held /\ d.shares = c.shares
      <3> HIDE DEF d, held
      <3> QED BY <2>4, FeesMove DEF d
    <2> HIDE DEF d, held
    <2>6. HasShares(d)
      BY <1>1, <2>5 DEF HasShares
    <2>7. /\ Run(d, payIx, IDL!Idl[pay.op]) # Refused
          /\ Run(d, payIx, IDL!Idl[pay.op]).fees = held \ {cv}
      BY <2>5, <2>6, SharesPaid
    <2> HIDE DEF payIx, moveIx, ixs
    <2>8. Landed(c, ixs) = Run(d, payIx, IDL!Idl[pay.op])
      BY <1>3, <2>2, <2>3, LandedTwo
    <2> QED BY <1>2, <2>4, <2>7, <2>8 DEF ixs
  <1>6. CASE ~(Graduated(c) /\ av \in c.ammVaults)
    <2>1. buildDistributeCreatorFeesInstructions(seen) = <<>> \o <<pay>>
      BY <1>4, <1>6 DEF buildDistributeCreatorFeesInstructions, Consolidation
    <2>2. ixs = <<payIx>>
      <3> HIDE DEF pay
      <3>1. <<>> \o <<pay>> = <<pay>>
        OBVIOUS
      <3>2. Instructions(<<pay>>) = <<payIx>>
        BY DEF Instructions
      <3> QED BY <2>1, <3>1, <3>2
    <2>3. av \notin c.fees
      BY <1>2, <1>6 DEF Collectable, Good, VaultsHold
    <2>4. /\ Run(c, payIx, IDL!Idl[pay.op]) # Refused
          /\ Run(c, payIx, IDL!Idl[pay.op]).fees = c.fees \ {cv}
      BY <1>1, SharesPaid
    <2> HIDE DEF payIx, ixs
    <2>5. Landed(c, ixs) = Run(c, payIx, IDL!Idl[pay.op])
      BY <1>3, <2>2, LandedOne
    <2> QED BY <1>2, <2>3, <2>4, <2>5 DEF ixs
  <1> QED BY <1>5, <1>6

(* Creator fees are never stranded: whatever creators, configurations and *)
(* phases the coin went through, each vault with fees in it is emptied by *)
(* the method its owner would call now (NoFeeStranded).                   *)
THEOREM FeesReachTheirOwner == Spec => []NoFeeStranded
  <1>1. ASSUME IInv PROVE NoFeeStranded
    <2> SUFFICES ASSUME NEW owner \in Owners, Vaults(owner) \cap chain.fees # {}
                 PROVE  LET after == Landed(chain, PayOut(owner))
                        IN after # Refused /\ Vaults(owner) \cap after.fees = {}
      BY DEF NoFeeStranded
    <2>1. Good(chain) /\ Collectable(chain)
      BY <1>1 DEF IInv
    <2>2. CASE owner = Config
      BY <2>1, <2>2, HoldersAreShared DEF PayOut
    <2>3. CASE owner # Config
      <3>1. owner \in Users
        BY <2>3 DEF Owners
      <3>2. PayOut(owner) = Instructions(collectCoinCreatorFeeInstructions(owner))
        BY <2>3 DEF PayOut
      <3> QED BY <2>1, <3>1, <3>2, UserCollects
    <2> QED BY <2>2, <2>3
  <1> QED BY <1>1, InvariantHolds, PTL

------------------------------------------------------------------------------
(***************************************************************************)
(* The account lists of the other instructions. Each can be filled in from *)
(* what the SDK gives, and what the SDK gives in the place of a row with a *)
(* rule of its own is listed: that row is left to prove, every other       *)
(* account given is of the caller's choice.                                *)
(***************************************************************************)

(* Of the accounts the caller gives, those in the given rows have a rule; *)
(* the others are the caller's to choose.                                 *)
Chosen(idl, given, rows) ==
  \A i \in DOMAIN idl : idl[i].name \in DOMAIN given =>
    \/ idl[i] \in rows
    \/ idl[i].rule = "given" /\ \A row \in rows : row.name # idl[i].name

(* When the rows that many lists share are known. *)
LEMMA RowsKnown ==
    ASSUME NEW K
    PROVE  /\ Known(IDL!Global, K) /\ Known(IDL!SystemProgram, K)
           /\ Known(IDL!AssociatedTokenProgram, K)
           /\ \A n, prog : Known(IDL!EventAuthority(n, prog), K)
           /\ \A flags : Known(IDL!GlobalVolumeAccumulator(flags), K)
           /\ "mint" \in K => \A flags : /\ Known(IDL!BondingCurve(flags), K)
                                        /\ Known(IDL!SharingConfig(flags), K)
                                        /\ Known(IDL!Metadata(flags), K)
           /\ "user" \in K => Known(IDL!UserVolumeAccumulator, K)
           /\ \A token \in K \cup Constants :
                {"bondingCurve", "mint"} \subseteq K => Known(IDL!AssociatedBondingCurve(token), K)
           /\ {"globalVolumeAccumulator", "tokenProgram", "mint"} \subseteq K =>
                Known(IDL!GlobalIncentiveTokenAccount, K)
  <1>1. \A n, flags, prog, tag : Known(IDL!Derived(n, flags, prog, tag, <<>>), K)
    BY KnownAlone
  <1>2. \A n, flags, prog, tag, s :
          s \in K => Known(IDL!Derived(n, flags, prog, tag, <<s>>), K)
    BY KnownFrom
  <1>3. \A n, flags, prog : Known(IDL!Fixed(n, flags, prog), K)
    BY KnownFixed
  <1>4. \A n, flags, owner, token, mint :
          {owner, token, mint} \subseteq K \cup Constants =>
            Known(IDL!AtaOf(n, flags, owner, token, mint), K)
    BY KnownAta
  <1>5. "mint" \in K => \A flags : Known(IDL!Metadata(flags), K)
    BY KnownDerived DEF IDL!Metadata, Constants
  <1> QED
    BY <1>3, <1>4, <1>1, <1>2, <1>5
       DEF IDL!Global, IDL!SystemProgram, IDL!AssociatedTokenProgram, IDL!EventAuthority,
           IDL!GlobalVolumeAccumulator, IDL!BondingCurve, IDL!SharingConfig,
           IDL!UserVolumeAccumulator, IDL!AssociatedBondingCurve,
           IDL!GlobalIncentiveTokenAccount

(* The rows of the caller's choice. *)
LEMMA GivenRule ==
  /\ \A n, flags : IDL!Given(n, flags).rule = "given"
  /\ \A flags : IDL!Mint(flags).rule = "given"
  BY DEF IDL!Given, IDL!Mint

(* A coin is created, *)
LEMMA CreateTable ==
    ASSUME NEW given, DOMAIN given = {"mint", "user", "tokenProgram"}
    PROVE  /\ Fillable(IDL!create, given)
           /\ Chosen(IDL!create, given, {IDL!Fixed("tokenProgram", IDL!RO, "Tokenkeg")})
  <1> DEFINE idl == IDL!create
  <1>1. /\ DOMAIN idl = 1 .. 14 /\ Len(idl) = 14
        /\ idl[1] = IDL!Mint(IDL!WS)
        /\ idl[2] = IDL!Derived("mintAuthority", IDL!RO, "pump", "mint-authority", <<>>)
        /\ idl[3] = IDL!BondingCurve(IDL!W)
        /\ idl[4] = IDL!AssociatedBondingCurve("Tokenkeg")
        /\ idl[5] = IDL!Global
        /\ idl[6] = IDL!Fixed("mplTokenMetadata", IDL!RO, "metaplex")
        /\ idl[7] = IDL!Metadata(IDL!W)
        /\ idl[8] = IDL!Given("user", IDL!WS)
        /\ idl[9] = IDL!SystemProgram
        /\ idl[10] = IDL!Fixed("tokenProgram", IDL!RO, "Tokenkeg")
        /\ idl[11] = IDL!AssociatedTokenProgram
        /\ idl[12] = IDL!Fixed("rent", IDL!RO, "rent")
        /\ idl[13] = IDL!EventAuthority("eventAuthority", "pump")
        /\ idl[14] = IDL!Fixed("program", IDL!RO, "pump")
    BY DEF IDL!create, IDL!CreateCoin, IDL!CreateCaller, IDL!Events
  <1> HIDE DEF idl
  <1>2. /\ idl[1].name = "mint" /\ idl[2].name = "mintAuthority" /\ idl[3].name = "bondingCurve"
        /\ idl[4].name = "associatedBondingCurve" /\ idl[5].name = "global"
        /\ idl[6].name = "mplTokenMetadata" /\ idl[7].name = "metadata" /\ idl[8].name = "user"
        /\ idl[9].name = "systemProgram" /\ idl[10].name = "tokenProgram"
        /\ idl[11].name = "associatedTokenProgram" /\ idl[12].name = "rent"
        /\ idl[13].name = "eventAuthority" /\ idl[14].name = "program"
    BY <1>1, RowNames
  <1>3. ASSUME NEW K, {"mint"} \subseteq K
        PROVE  /\ Known(idl[2], K) /\ Known(idl[3], K) /\ Known(idl[5], K) /\ Known(idl[6], K)
               /\ Known(idl[7], K) /\ Known(idl[9], K) /\ Known(idl[11], K) /\ Known(idl[12], K)
               /\ Known(idl[13], K) /\ Known(idl[14], K)
    BY <1>1, <1>3, RowsKnown, KnownFixed, KnownAlone
  <1>4. Known(idl[4], Sources(idl, given, 4))
    <2>1. {"bondingCurve", "mint"} \subseteq Sources(idl, given, 4)
      BY <1>1, <1>2 DEF Sources, Before
    <2>2. idl[4] = IDL!AssociatedBondingCurve("Tokenkeg")
      BY <1>1
    <2> QED BY <2>1, <2>2, KnownAta DEF IDL!AssociatedBondingCurve, Constants
  <1>5. \A i \in DOMAIN idl : idl[i].name \notin DOMAIN given =>
                                Known(idl[i], Sources(idl, given, i))
    <2>1. \A i : {"mint"} \subseteq Sources(idl, given, i)
      BY DEF Sources
    <2>2. \A i \in {2, 3, 4, 5, 6, 7, 9, 11, 12, 13, 14} : Known(idl[i], Sources(idl, given, i))
      BY <1>3, <1>4, <2>1
    <2>3. \A i \in {1, 8, 10} : idl[i].name \in DOMAIN given
      BY <1>2
    <2>4. DOMAIN idl = {1, 8, 10} \cup {2, 3, 4, 5, 6, 7, 9, 11, 12, 13, 14}
      BY <1>1
    <2> QED BY <2>2, <2>3, <2>4
  <1>6. \A i \in DOMAIN idl, j \in DOMAIN idl : idl[i].name = idl[j].name => i = j
    BY <1>1, <1>2
  <1>7. Names(idl) \cap (Constants \cup OffChain) = {} /\ DOMAIN given \subseteq Names(idl)
    BY <1>1, <1>2 DEF Names, Constants, OffChain
  <1>8. Chosen(idl, given, {IDL!Fixed("tokenProgram", IDL!RO, "Tokenkeg")})
    <2>1. \A i \in {1, 8} : idl[i].rule = "given"
      BY <1>1, GivenRule
    <2>2. \A i \in DOMAIN idl : idl[i].name \in DOMAIN given => i \in {1, 8, 10}
      BY <1>1, <1>2
    <2>3. {IDL!Fixed("tokenProgram", IDL!RO, "Tokenkeg")} = {idl[10]}
      BY <1>1
    <2>4. \A i \in {1, 8} : idl[10].name # idl[i].name
      BY <1>2
    <2> QED BY <2>1, <2>2, <2>3, <2>4 DEF Chosen
  <1> QED BY <1>1, <1>5, <1>6, <1>7, <1>8 DEF Fillable, idl

(* the account list of create_v2, *)
CreateV2Rows(idl) ==
  /\ DOMAIN idl = 1 .. 16 /\ Len(idl) = 16
  /\ idl[1] = IDL!Mint(IDL!WS)
  /\ idl[2] = IDL!Derived("mintAuthority", IDL!RO, "pump", "mint-authority", <<>>)
  /\ idl[3] = IDL!BondingCurve(IDL!W)
  /\ idl[4] = IDL!AssociatedBondingCurve("tokenProgram")
  /\ idl[5] = IDL!Global
  /\ idl[6] = IDL!Given("user", IDL!WS)
  /\ idl[7] = IDL!SystemProgram
  /\ idl[8] = IDL!Fixed("tokenProgram", IDL!RO, "Token2022")
  /\ idl[9] = IDL!AssociatedTokenProgram
  /\ idl[10] = IDL!Fixed("mayhemProgramId", IDL!W, "mayhem")
  /\ idl[11] = IDL!Derived("globalParams", IDL!RO, "mayhem", "global-params", <<>>)
  /\ idl[12] = IDL!Derived("solVault", IDL!W, "mayhem", "sol-vault", <<>>)
  /\ idl[13] = IDL!Derived("mayhemState", IDL!W, "mayhem", "mayhem-state", <<"mint">>)
  /\ idl[14] = IDL!Given("mayhemTokenVault", IDL!W)
  /\ idl[15] = IDL!EventAuthority("eventAuthority", "pump")
  /\ idl[16] = IDL!Fixed("program", IDL!RO, "pump")
  /\ idl[1].name = "mint" /\ idl[2].name = "mintAuthority" /\ idl[3].name = "bondingCurve"
  /\ idl[4].name = "associatedBondingCurve" /\ idl[5].name = "global"
  /\ idl[6].name = "user" /\ idl[7].name = "systemProgram" /\ idl[8].name = "tokenProgram"
  /\ idl[9].name = "associatedTokenProgram" /\ idl[10].name = "mayhemProgramId"
  /\ idl[11].name = "globalParams" /\ idl[12].name = "solVault"
  /\ idl[13].name = "mayhemState" /\ idl[14].name = "mayhemTokenVault"
  /\ idl[15].name = "eventAuthority" /\ idl[16].name = "program"

(* as the interface of the program has it, *)
LEMMA CreateV2RowsAre == CreateV2Rows(IDL!createV2)
  BY RowNames DEF CreateV2Rows, IDL!createV2, IDL!CreateV2Coin, IDL!CreateV2Programs,
    IDL!CreateV2Mayhem, IDL!Events

(* and a coin is created with it. *)
LEMMA CreateV2Table ==
    ASSUME NEW given,
           DOMAIN given = {"mint", "user", "tokenProgram", "mayhemProgramId", "globalParams",
                           "solVault", "mayhemState", "mayhemTokenVault"}
    PROVE  /\ Fillable(IDL!createV2, given)
           /\ Chosen(IDL!createV2, given,
             {IDL!Fixed("tokenProgram", IDL!RO, "Token2022"),
              IDL!Fixed("mayhemProgramId", IDL!W, "mayhem"),
              IDL!Derived("globalParams", IDL!RO, "mayhem", "global-params", <<>>),
              IDL!Derived("solVault", IDL!W, "mayhem", "sol-vault", <<>>),
              IDL!Derived("mayhemState", IDL!W, "mayhem", "mayhem-state", <<"mint">>)})
  <1> DEFINE idl == IDL!createV2
  <1>1. CreateV2Rows(idl)
    BY CreateV2RowsAre
  <1> HIDE DEF idl
  <1> USE DEF CreateV2Rows
  <1>2. ASSUME NEW K, {"mint"} \subseteq K
        PROVE  /\ Known(idl[2], K) /\ Known(idl[3], K) /\ Known(idl[5], K) /\ Known(idl[7], K)
               /\ Known(idl[9], K) /\ Known(idl[15], K) /\ Known(idl[16], K)
    BY <1>1, <1>2, RowsKnown, KnownFixed, KnownAlone
  <1>3. Known(idl[4], Sources(idl, given, 4))
    <2>1. {"bondingCurve", "tokenProgram", "mint"} \subseteq Sources(idl, given, 4)
      BY <1>1 DEF Sources, Before
    <2>2. idl[4] = IDL!AssociatedBondingCurve("tokenProgram")
      BY <1>1
    <2> QED BY <2>1, <2>2, KnownAta DEF IDL!AssociatedBondingCurve
  <1>4. \A i \in DOMAIN idl : idl[i].name \notin DOMAIN given =>
                                Known(idl[i], Sources(idl, given, i))
    <2>1. \A i : {"mint"} \subseteq Sources(idl, given, i)
      BY DEF Sources
    <2>2. \A i \in {2, 3, 4, 5, 7, 9, 15, 16} : Known(idl[i], Sources(idl, given, i))
      BY <1>2, <1>3, <2>1
    <2>3. \A i \in {1, 6, 8, 10, 11, 12, 13, 14} : idl[i].name \in DOMAIN given
      BY <1>1
    <2>4. DOMAIN idl = {1, 6, 8, 10, 11, 12, 13, 14} \cup {2, 3, 4, 5, 7, 9, 15, 16}
      BY <1>1
    <2> QED BY <2>2, <2>3, <2>4
  <1>5. \A i \in DOMAIN idl, j \in DOMAIN idl : idl[i].name = idl[j].name => i = j
    BY <1>1
  <1>6. Names(idl) \cap (Constants \cup OffChain) = {} /\ DOMAIN given \subseteq Names(idl)
    BY <1>1 DEF Names, Constants, OffChain
  <1>7. Chosen(idl, given,
               {IDL!Fixed("tokenProgram", IDL!RO, "Token2022"),
                IDL!Fixed("mayhemProgramId", IDL!W, "mayhem"),
                IDL!Derived("globalParams", IDL!RO, "mayhem", "global-params", <<>>),
                IDL!Derived("solVault", IDL!W, "mayhem", "sol-vault", <<>>),
                IDL!Derived("mayhemState", IDL!W, "mayhem", "mayhem-state", <<"mint">>)})
    <2>1. \A i \in {1, 6, 14} : idl[i].rule = "given"
      BY <1>1, GivenRule
    <2>2. \A i \in DOMAIN idl : idl[i].name \in DOMAIN given => i \in {1, 6, 8, 10, 11, 12, 13, 14}
      BY <1>1
    <2>3. {IDL!Fixed("tokenProgram", IDL!RO, "Token2022"),
           IDL!Fixed("mayhemProgramId", IDL!W, "mayhem"),
           IDL!Derived("globalParams", IDL!RO, "mayhem", "global-params", <<>>),
           IDL!Derived("solVault", IDL!W, "mayhem", "sol-vault", <<>>),
           IDL!Derived("mayhemState", IDL!W, "mayhem", "mayhem-state", <<"mint">>)}
            = {idl[8], idl[10], idl[11], idl[12], idl[13]}
      BY <1>1
    <2>4. \A i \in {1, 6, 14}, j \in {8, 10, 11, 12, 13} : idl[j].name # idl[i].name
      BY <1>1
    <2> QED BY <2>1, <2>2, <2>3, <2>4 DEF Chosen
  <1> QED BY <1>1, <1>4, <1>5, <1>6, <1>7 DEF Fillable, idl

(* The account list of a buy, *)
BuyRows(idl) ==
  /\ DOMAIN idl = 1 .. 16 /\ Len(idl) = 16
  /\ idl[1] = IDL!Global
  /\ idl[2] = IDL!Given("feeRecipient", IDL!W)
  /\ idl[3] = IDL!Mint(IDL!RO)
  /\ idl[4] = IDL!BondingCurve(IDL!W)
  /\ idl[5] = IDL!AssociatedBondingCurve("tokenProgram")
  /\ idl[6] = IDL!Given("associatedUser", IDL!W)
  /\ idl[7] = IDL!Given("user", IDL!WS)
  /\ idl[8] = IDL!SystemProgram
  /\ idl[9] = IDL!Given("tokenProgram", IDL!RO)
  /\ idl[10] = IDL!CreatorVault(IDL!W)
  /\ idl[11] = IDL!EventAuthority("eventAuthority", "pump")
  /\ idl[12] = IDL!Fixed("program", IDL!RO, "pump")
  /\ idl[13] = IDL!GlobalVolumeAccumulator(IDL!RO)
  /\ idl[14] = IDL!UserVolumeAccumulator
  /\ idl[15] = IDL!Derived("feeConfig", IDL!RO, "pumpFees", "fee_config", <<"pump">>)
  /\ idl[16] = IDL!Fixed("feeProgram", IDL!RO, "pumpFees")
  /\ idl[1].name = "global" /\ idl[2].name = "feeRecipient" /\ idl[3].name = "mint"
  /\ idl[4].name = "bondingCurve" /\ idl[5].name = "associatedBondingCurve"
  /\ idl[6].name = "associatedUser" /\ idl[7].name = "user" /\ idl[8].name = "systemProgram"
  /\ idl[9].name = "tokenProgram" /\ idl[10].name = "creatorVault"
  /\ idl[11].name = "eventAuthority" /\ idl[12].name = "program"
  /\ idl[13].name = "globalVolumeAccumulator" /\ idl[14].name = "userVolumeAccumulator"
  /\ idl[15].name = "feeConfig" /\ idl[16].name = "feeProgram"

(* as the interface of the program has it, *)
LEMMA BuyRowsAre == BuyRows(IDL!buy)
  BY RowNames DEF BuyRows, IDL!buy, IDL!TradeCurve, IDL!BuyCaller, IDL!BuyFees, IDL!FeeConfig,
    IDL!Events

(* which a buy fills in. *)
LEMMA BuyTable ==
    ASSUME NEW given,
           DOMAIN given = {"feeRecipient", "mint", "user", "associatedUser", "creatorVault",
                           "tokenProgram"}
    PROVE  Fillable(IDL!buy, given) /\ Chosen(IDL!buy, given, {IDL!CreatorVault(IDL!W)})
  <1> DEFINE idl == IDL!buy
  <1>1. BuyRows(idl)
    BY BuyRowsAre
  <1> HIDE DEF idl
  <1> USE DEF BuyRows
  <1>2. ASSUME NEW K, {"mint", "user"} \subseteq K
        PROVE  /\ Known(idl[1], K) /\ Known(idl[4], K) /\ Known(idl[8], K) /\ Known(idl[11], K)
               /\ Known(idl[12], K) /\ Known(idl[13], K) /\ Known(idl[14], K) /\ Known(idl[15], K)
               /\ Known(idl[16], K)
    BY <1>1, <1>2, RowsKnown, KnownFixed, KnownFrom DEF Constants
  <1>3. Known(idl[5], Sources(idl, given, 5))
    <2>1. {"bondingCurve", "tokenProgram", "mint"} \subseteq Sources(idl, given, 5)
      BY <1>1 DEF Sources, Before
    <2>2. idl[5] = IDL!AssociatedBondingCurve("tokenProgram")
      BY <1>1
    <2> QED BY <2>1, <2>2, KnownAta DEF IDL!AssociatedBondingCurve
  <1>4. \A i \in DOMAIN idl : idl[i].name \notin DOMAIN given =>
                                Known(idl[i], Sources(idl, given, i))
    <2>1. \A i : {"mint", "user"} \subseteq Sources(idl, given, i)
      BY DEF Sources
    <2>2. \A i \in {1, 4, 5, 8, 11, 12, 13, 14, 15, 16} : Known(idl[i], Sources(idl, given, i))
      BY <1>2, <1>3, <2>1
    <2>3. \A i \in {2, 3, 6, 7, 9, 10} : idl[i].name \in DOMAIN given
      BY <1>1
    <2>4. DOMAIN idl = {2, 3, 6, 7, 9, 10} \cup {1, 4, 5, 8, 11, 12, 13, 14, 15, 16}
      BY <1>1
    <2> QED BY <2>2, <2>3, <2>4
  <1>5. \A i \in DOMAIN idl, j \in DOMAIN idl : idl[i].name = idl[j].name => i = j
    BY <1>1
  <1>6. Names(idl) \cap (Constants \cup OffChain) = {} /\ DOMAIN given \subseteq Names(idl)
    BY <1>1 DEF Names, Constants, OffChain
  <1>7. Chosen(idl, given, {IDL!CreatorVault(IDL!W)})
    <2>1. \A i \in {2, 3, 6, 7, 9} : idl[i].rule = "given"
      BY <1>1, GivenRule
    <2>2. \A i \in DOMAIN idl : idl[i].name \in DOMAIN given => i \in {2, 3, 6, 7, 9, 10}
      BY <1>1
    <2>3. {IDL!CreatorVault(IDL!W)} = {idl[10]}
      BY <1>1
    <2>4. \A i \in {2, 3, 6, 7, 9} : idl[10].name # idl[i].name
      BY <1>1
    <2> QED BY <2>1, <2>2, <2>3, <2>4 DEF Chosen
  <1> QED BY <1>1, <1>4, <1>5, <1>6, <1>7 DEF Fillable, idl

(* The account list of a sale, *)
SellRows(idl) ==
  /\ DOMAIN idl = 1 .. 14 /\ Len(idl) = 14
  /\ idl[1] = IDL!Global
  /\ idl[2] = IDL!Given("feeRecipient", IDL!W)
  /\ idl[3] = IDL!Mint(IDL!RO)
  /\ idl[4] = IDL!BondingCurve(IDL!W)
  /\ idl[5] = IDL!AssociatedBondingCurve("tokenProgram")
  /\ idl[6] = IDL!Given("associatedUser", IDL!W)
  /\ idl[7] = IDL!Given("user", IDL!WS)
  /\ idl[8] = IDL!SystemProgram
  /\ idl[9] = IDL!CreatorVault(IDL!W)
  /\ idl[10] = IDL!Given("tokenProgram", IDL!RO)
  /\ idl[11] = IDL!EventAuthority("eventAuthority", "pump")
  /\ idl[12] = IDL!Fixed("program", IDL!RO, "pump")
  /\ idl[13] = IDL!Derived("feeConfig", IDL!RO, "pumpFees", "fee_config", <<"pump">>)
  /\ idl[14] = IDL!Fixed("feeProgram", IDL!RO, "pumpFees")
  /\ idl[1].name = "global" /\ idl[2].name = "feeRecipient" /\ idl[3].name = "mint"
  /\ idl[4].name = "bondingCurve" /\ idl[5].name = "associatedBondingCurve"
  /\ idl[6].name = "associatedUser" /\ idl[7].name = "user" /\ idl[8].name = "systemProgram"
  /\ idl[9].name = "creatorVault" /\ idl[10].name = "tokenProgram"
  /\ idl[11].name = "eventAuthority" /\ idl[12].name = "program"
  /\ idl[13].name = "feeConfig" /\ idl[14].name = "feeProgram"

(* as the interface of the program has it, *)
LEMMA SellRowsAre == SellRows(IDL!sell)
  BY RowNames DEF SellRows, IDL!sell, IDL!SellCurve, IDL!TradeCurve, IDL!SellCaller,
    IDL!FeeConfig, IDL!Events

(* which a sale fills in. *)
LEMMA SellTable ==
    ASSUME NEW given,
           DOMAIN given = {"feeRecipient", "mint", "user", "associatedUser", "creatorVault",
                           "tokenProgram"}
    PROVE  Fillable(IDL!sell, given) /\ Chosen(IDL!sell, given, {IDL!CreatorVault(IDL!W)})
  <1> DEFINE idl == IDL!sell
  <1>1. SellRows(idl)
    BY SellRowsAre
  <1> HIDE DEF idl
  <1> USE DEF SellRows
  <1>2. ASSUME NEW K, {"mint"} \subseteq K
        PROVE  /\ Known(idl[1], K) /\ Known(idl[4], K) /\ Known(idl[8], K) /\ Known(idl[11], K)
               /\ Known(idl[12], K) /\ Known(idl[13], K) /\ Known(idl[14], K)
    BY <1>1, <1>2, RowsKnown, KnownFixed, KnownFrom DEF Constants
  <1>3. Known(idl[5], Sources(idl, given, 5))
    <2>1. {"bondingCurve", "tokenProgram", "mint"} \subseteq Sources(idl, given, 5)
      BY <1>1 DEF Sources, Before
    <2>2. idl[5] = IDL!AssociatedBondingCurve("tokenProgram")
      BY <1>1
    <2> QED BY <2>1, <2>2, KnownAta DEF IDL!AssociatedBondingCurve
  <1>4. \A i \in DOMAIN idl : idl[i].name \notin DOMAIN given =>
                                Known(idl[i], Sources(idl, given, i))
    <2>1. \A i : {"mint"} \subseteq Sources(idl, given, i)
      BY DEF Sources
    <2>2. \A i \in {1, 4, 5, 8, 11, 12, 13, 14} : Known(idl[i], Sources(idl, given, i))
      BY <1>2, <1>3, <2>1
    <2>3. \A i \in {2, 3, 6, 7, 9, 10} : idl[i].name \in DOMAIN given
      BY <1>1
    <2>4. DOMAIN idl = {2, 3, 6, 7, 9, 10} \cup {1, 4, 5, 8, 11, 12, 13, 14}
      BY <1>1
    <2> QED BY <2>2, <2>3, <2>4
  <1>5. \A i \in DOMAIN idl, j \in DOMAIN idl : idl[i].name = idl[j].name => i = j
    BY <1>1
  <1>6. Names(idl) \cap (Constants \cup OffChain) = {} /\ DOMAIN given \subseteq Names(idl)
    BY <1>1 DEF Names, Constants, OffChain
  <1>7. Chosen(idl, given, {IDL!CreatorVault(IDL!W)})
    <2>1. \A i \in {2, 3, 6, 7, 10} : idl[i].rule = "given"
      BY <1>1, GivenRule
    <2>2. \A i \in DOMAIN idl : idl[i].name \in DOMAIN given => i \in {2, 3, 6, 7, 9, 10}
      BY <1>1
    <2>3. {IDL!CreatorVault(IDL!W)} = {idl[9]}
      BY <1>1
    <2>4. \A i \in {2, 3, 6, 7, 10} : idl[9].name # idl[i].name
      BY <1>1
    <2> QED BY <2>1, <2>2, <2>3, <2>4 DEF Chosen
  <1> QED BY <1>1, <1>4, <1>5, <1>6, <1>7 DEF Fillable, idl

(* A curve is extended. *)
LEMMA ExtendTable ==
    ASSUME NEW given, DOMAIN given = {"account", "user"}
    PROVE  Fillable(IDL!extendAccount, given) /\ Chosen(IDL!extendAccount, given, {})
  <1> DEFINE idl == IDL!extendAccount
  <1>1. /\ DOMAIN idl = 1 .. 5 /\ Len(idl) = 5
        /\ idl[1] = IDL!Given("account", IDL!W)
        /\ idl[2] = IDL!Given("user", IDL!S)
        /\ idl[3] = IDL!SystemProgram
        /\ idl[4] = IDL!EventAuthority("eventAuthority", "pump")
        /\ idl[5] = IDL!Fixed("program", IDL!RO, "pump")
    BY DEF IDL!extendAccount, IDL!Events
  <1> HIDE DEF idl
  <1>2. /\ idl[1].name = "account" /\ idl[2].name = "user" /\ idl[3].name = "systemProgram"
        /\ idl[4].name = "eventAuthority" /\ idl[5].name = "program"
    BY <1>1, RowNames
  <1>3. ASSUME NEW K
        PROVE  Known(idl[3], K) /\ Known(idl[4], K) /\ Known(idl[5], K)
    BY <1>1, <1>3, RowsKnown, KnownFixed
  <1>4. \A i \in DOMAIN idl : idl[i].name \notin DOMAIN given =>
                                Known(idl[i], Sources(idl, given, i))
    <2>1. \A i : DOMAIN given \subseteq Sources(idl, given, i)
      BY DEF Sources
    <2>2. \A i \in {3, 4, 5} : Known(idl[i], Sources(idl, given, i))
      BY <1>3, <2>1
    <2>3. \A i \in {1, 2} : idl[i].name \in DOMAIN given
      BY <1>2
    <2>4. DOMAIN idl = {1, 2} \cup {3, 4, 5}
      BY <1>1
    <2> QED BY <2>2, <2>3, <2>4
  <1>5. \A i \in DOMAIN idl, j \in DOMAIN idl : idl[i].name = idl[j].name => i = j
    BY <1>1, <1>2
  <1>6. Names(idl) \cap (Constants \cup OffChain) = {} /\ DOMAIN given \subseteq Names(idl)
    BY <1>1, <1>2 DEF Names, Constants, OffChain
  <1>7. Chosen(idl, given, {})
    <2>1. \A i \in {1, 2} : idl[i].rule = "given"
      BY <1>1, GivenRule
    <2>2. \A i \in DOMAIN idl : idl[i].name \in DOMAIN given => i \in {1, 2}
      BY <1>1, <1>2
    <2> QED BY <2>1, <2>2 DEF Chosen
  <1> QED BY <1>1, <1>4, <1>5, <1>6, <1>7 DEF Fillable, idl

(* The account list of the token account program, *)
AccountRows(idl) ==
  /\ DOMAIN idl = 1 .. 6 /\ Len(idl) = 6
  /\ idl[1] = IDL!Given("funder", IDL!WS)
  /\ idl[2] = IDL!AtaOf("ata", IDL!W, "wallet", "tokenProgram", "mint")
  /\ idl[3] = IDL!Given("wallet", IDL!RO)
  /\ idl[4] = IDL!Given("mint", IDL!RO)
  /\ idl[5] = IDL!SystemProgram
  /\ idl[6] = IDL!Given("tokenProgram", IDL!RO)
  /\ idl[1].name = "funder" /\ idl[2].name = "ata" /\ idl[3].name = "wallet"
  /\ idl[4].name = "mint" /\ idl[5].name = "systemProgram" /\ idl[6].name = "tokenProgram"

(* as the program has it, *)
LEMMA AccountRowsAre == AccountRows(IDL!createIdempotent)
  BY RowNames DEF AccountRows, IDL!createIdempotent

(* which the opening of an account fills in. *)
LEMMA AtaTable ==
    ASSUME NEW given, DOMAIN given = {"funder", "ata", "wallet", "mint", "tokenProgram"}
    PROVE  /\ Fillable(IDL!createIdempotent, given)
           /\ Chosen(IDL!createIdempotent, given,
             {IDL!AtaOf("ata", IDL!W, "wallet", "tokenProgram", "mint")})
  <1> DEFINE idl == IDL!createIdempotent
  <1>1. AccountRows(idl)
    BY AccountRowsAre
  <1> HIDE DEF idl
  <1> USE DEF AccountRows
  <1>2. ASSUME NEW K
        PROVE  Known(idl[5], K)
    BY <1>1, <1>2, RowsKnown
  <1>3. \A i \in DOMAIN idl : idl[i].name \notin DOMAIN given =>
                                Known(idl[i], Sources(idl, given, i))
    <2>1. \A i : DOMAIN given \subseteq Sources(idl, given, i)
      BY DEF Sources
    <2>2. \A i \in {5} : Known(idl[i], Sources(idl, given, i))
      BY <1>2, <2>1
    <2>3. \A i \in {1, 2, 3, 4, 6} : idl[i].name \in DOMAIN given
      BY <1>1
    <2>4. DOMAIN idl = {1, 2, 3, 4, 6} \cup {5}
      BY <1>1
    <2> QED BY <2>2, <2>3, <2>4
  <1>4. \A i \in DOMAIN idl, j \in DOMAIN idl : idl[i].name = idl[j].name => i = j
    BY <1>1
  <1>5. Names(idl) \cap (Constants \cup OffChain) = {} /\ DOMAIN given \subseteq Names(idl)
    BY <1>1 DEF Names, Constants, OffChain
  <1>6. Chosen(idl, given, {IDL!AtaOf("ata", IDL!W, "wallet", "tokenProgram", "mint")})
    <2>1. \A i \in {1, 3, 4, 6} : idl[i].rule = "given"
      BY <1>1, GivenRule
    <2>2. \A i \in DOMAIN idl : idl[i].name \in DOMAIN given => i \in {1, 2, 3, 4, 6}
      BY <1>1
    <2>3. {IDL!AtaOf("ata", IDL!W, "wallet", "tokenProgram", "mint")} = {idl[2]}
      BY <1>1
    <2>4. \A i \in {1, 3, 4, 6} : idl[2].name # idl[i].name
      BY <1>1
    <2> QED BY <2>1, <2>2, <2>3, <2>4 DEF Chosen
  <1> QED BY <1>1, <1>3, <1>4, <1>5, <1>6 DEF Fillable, idl

(* A coin migrates: the pool's accounts are derived in the second sweep. *)
LEMMA MigrateTable ==
    ASSUME NEW given,
           DOMAIN given = {"mint", "user", "withdrawAuthority", "associatedBondingCurve",
                           "poolAuthorityMintAccount", "poolBaseTokenAccount"}
    PROVE  /\ Fillable(IDL!migrate, given)
           /\ Chosen(IDL!migrate, given,
             {IDL!AssociatedBondingCurve("mint.owner"),
              IDL!AtaOf("poolAuthorityMintAccount", IDL!W, "poolAuthority", "mint.owner", "mint"),
              IDL!AtaOf("poolBaseTokenAccount", IDL!W, "pool", "mint.owner", "mint")})
  <1> DEFINE idl == IDL!migrate
  <1>1. /\ DOMAIN idl = 1 .. 24 /\ Len(idl) = 24
        /\ idl[1] = IDL!Global
        /\ idl[2] = IDL!Given("withdrawAuthority", IDL!W)
        /\ idl[3] = IDL!Mint(IDL!RO)
        /\ idl[4] = IDL!BondingCurve(IDL!W)
        /\ idl[5] = IDL!AssociatedBondingCurve("mint.owner")
        /\ idl[6] = IDL!Given("user", IDL!S)
        /\ idl[7] = IDL!SystemProgram
        /\ idl[8] = IDL!Fixed("tokenProgram", IDL!RO, "Tokenkeg")
        /\ idl[9] = IDL!Fixed("pumpAmm", IDL!RO, "pumpAmm")
        /\ idl[10] = IDL!Derived("pool", IDL!W, "pumpAmm", "pool",
                                 <<"poolAuthority", "mint", "wsolMint">>)
        /\ idl[11] = IDL!Derived("poolAuthority", IDL!W, "pump", "pool-authority", <<"mint">>)
        /\ idl[12] = IDL!AtaOf("poolAuthorityMintAccount", IDL!W, "poolAuthority", "mint.owner",
                               "mint")
        /\ idl[13] = IDL!AtaOf("poolAuthorityWsolAccount", IDL!W, "poolAuthority",
                               "tokenProgram", "wsolMint")
        /\ idl[14] = IDL!Derived("ammGlobalConfig", IDL!RO, "pumpAmm", "global_config", <<>>)
        /\ idl[15] = IDL!Fixed("wsolMint", IDL!RO, "wsol")
        /\ idl[16] = IDL!Derived("lpMint", IDL!W, "pumpAmm", "pool_lp_mint", <<"pool">>)
        /\ idl[17] = IDL!AtaOf("userPoolTokenAccount", IDL!W, "poolAuthority",
                               "token2022Program", "lpMint")
        /\ idl[18] = IDL!AtaOf("poolBaseTokenAccount", IDL!W, "pool", "mint.owner", "mint")
        /\ idl[19] = IDL!AtaOf("poolQuoteTokenAccount", IDL!W, "pool", "tokenProgram", "wsolMint")
        /\ idl[20] = IDL!Fixed("token2022Program", IDL!RO, "Token2022")
        /\ idl[21] = IDL!AssociatedTokenProgram
        /\ idl[22] = IDL!EventAuthority("pumpAmmEventAuthority", "pumpAmm")
        /\ idl[23] = IDL!EventAuthority("eventAuthority", "pump")
        /\ idl[24] = IDL!Fixed("program", IDL!RO, "pump")
    BY DEF IDL!migrate, IDL!MigrateCurve, IDL!MigratePool, IDL!MigrateReserves, IDL!MigrateEvents,
           IDL!Events
  <1> HIDE DEF idl
  <1>2. /\ idl[1].name = "global" /\ idl[2].name = "withdrawAuthority" /\ idl[3].name = "mint"
        /\ idl[4].name = "bondingCurve" /\ idl[5].name = "associatedBondingCurve"
        /\ idl[6].name = "user" /\ idl[7].name = "systemProgram" /\ idl[8].name = "tokenProgram"
        /\ idl[9].name = "pumpAmm" /\ idl[10].name = "pool" /\ idl[11].name = "poolAuthority"
        /\ idl[12].name = "poolAuthorityMintAccount" /\ idl[13].name = "poolAuthorityWsolAccount"
        /\ idl[14].name = "ammGlobalConfig" /\ idl[15].name = "wsolMint"
        /\ idl[16].name = "lpMint" /\ idl[17].name = "userPoolTokenAccount"
        /\ idl[18].name = "poolBaseTokenAccount" /\ idl[19].name = "poolQuoteTokenAccount"
        /\ idl[20].name = "token2022Program" /\ idl[21].name = "associatedTokenProgram"
        /\ idl[22].name = "pumpAmmEventAuthority" /\ idl[23].name = "eventAuthority"
        /\ idl[24].name = "program"
    BY <1>1, RowNames
  <1>3. ASSUME NEW K, {"mint"} \subseteq K
        PROVE  /\ Known(idl[1], K) /\ Known(idl[4], K) /\ Known(idl[7], K) /\ Known(idl[8], K)
               /\ Known(idl[9], K) /\ Known(idl[11], K) /\ Known(idl[14], K) /\ Known(idl[15], K)
               /\ Known(idl[20], K) /\ Known(idl[21], K) /\ Known(idl[22], K) /\ Known(idl[23], K)
               /\ Known(idl[24], K)
    BY <1>1, <1>3, RowsKnown, KnownFixed, KnownAlone, KnownFrom
  <1>4. Known(idl[10], Sources(idl, given, 10))
    <2>1. {"poolAuthority", "mint", "wsolMint"} \subseteq Sources(idl, given, 10)
      <3>1. {11, 15} \subseteq Early(idl, given)
        BY <1>1, <1>3 DEF Early
      <3> QED BY <1>1, <1>2, <3>1 DEF Sources, Before
    <2>2. idl[10] = IDL!Derived("pool", IDL!W, "pumpAmm", "pool", <<"poolAuthority", "mint",
                                "wsolMint">>)
      BY <1>1
    <2> QED BY <2>1, <2>2, KnownDerived
  <1>5. Known(idl[13], Sources(idl, given, 13))
    <2>1. {"poolAuthority", "tokenProgram", "wsolMint"} \subseteq Sources(idl, given, 13)
      <3>1. {15} \subseteq Early(idl, given)
        BY <1>1, <1>3 DEF Early
      <3> QED BY <1>1, <1>2, <3>1 DEF Sources, Before
    <2>2. idl[13] = IDL!AtaOf("poolAuthorityWsolAccount", IDL!W, "poolAuthority",
                              "tokenProgram", "wsolMint")
      BY <1>1
    <2> QED BY <2>1, <2>2, KnownAta
  <1>6. Known(idl[16], Sources(idl, given, 16))
    <2>1. {"pool"} \subseteq Sources(idl, given, 16)
      BY <1>1, <1>2 DEF Sources, Before
    <2>2. idl[16] = IDL!Derived("lpMint", IDL!W, "pumpAmm", "pool_lp_mint", <<"pool">>)
      BY <1>1
    <2> QED BY <2>1, <2>2, KnownFrom
  <1>7. Known(idl[17], Sources(idl, given, 17))
    <2>1. {"poolAuthority", "token2022Program", "lpMint"} \subseteq Sources(idl, given, 17)
      <3>1. {20} \subseteq Early(idl, given)
        BY <1>1, <1>3 DEF Early
      <3> QED BY <1>1, <1>2, <3>1 DEF Sources, Before
    <2>2. idl[17] = IDL!AtaOf("userPoolTokenAccount", IDL!W, "poolAuthority",
                              "token2022Program", "lpMint")
      BY <1>1
    <2> QED BY <2>1, <2>2, KnownAta
  <1>8. Known(idl[19], Sources(idl, given, 19))
    <2>1. {"pool", "tokenProgram", "wsolMint"} \subseteq Sources(idl, given, 19)
      BY <1>1, <1>2 DEF Sources, Before
    <2>2. idl[19] = IDL!AtaOf("poolQuoteTokenAccount", IDL!W, "pool", "tokenProgram", "wsolMint")
      BY <1>1
    <2> QED BY <2>1, <2>2, KnownAta
  <1>9. \A i \in DOMAIN idl : idl[i].name \notin DOMAIN given =>
                                Known(idl[i], Sources(idl, given, i))
    <2>1. \A i : {"mint"} \subseteq Sources(idl, given, i)
      BY DEF Sources
    <2>2. \A i \in {1, 4, 7, 8, 9, 10, 11, 13, 14, 15, 16, 17, 19, 20, 21, 22, 23, 24} :
            Known(idl[i], Sources(idl, given, i))
      BY <1>3, <1>4, <1>5, <1>6, <1>7, <1>8, <2>1
    <2>3. \A i \in {2, 3, 5, 6, 12, 18} : idl[i].name \in DOMAIN given
      BY <1>2
    <2>4. DOMAIN idl = {2, 3, 5, 6, 12, 18}
                     \cup {1, 4, 7, 8, 9, 10, 11, 13, 14, 15, 16, 17, 19, 20, 21, 22, 23, 24}
      BY <1>1
    <2> QED BY <2>2, <2>3, <2>4
  <1>10. \A i \in DOMAIN idl, j \in DOMAIN idl : idl[i].name = idl[j].name => i = j
    <2> DEFINE place == [ global |-> 1, withdrawAuthority |-> 2, mint |-> 3, bondingCurve |-> 4,
                         associatedBondingCurve |-> 5, user |-> 6, systemProgram |-> 7,
                         tokenProgram |-> 8, pumpAmm |-> 9, pool |-> 10, poolAuthority |-> 11,
                         poolAuthorityMintAccount |-> 12, poolAuthorityWsolAccount |-> 13,
                         ammGlobalConfig |-> 14, wsolMint |-> 15, lpMint |-> 16,
                         userPoolTokenAccount |-> 17, poolBaseTokenAccount |-> 18,
                         poolQuoteTokenAccount |-> 19, token2022Program |-> 20,
                         associatedTokenProgram |-> 21, pumpAmmEventAuthority |-> 22,
                         eventAuthority |-> 23, program |-> 24]
    <2>1. \A i \in DOMAIN idl : place[idl[i].name] = i
      BY <1>1, <1>2
    <2> HIDE DEF place
    <2> QED BY <2>1
  <1>11. Names(idl) \cap (Constants \cup OffChain) = {} /\ DOMAIN given \subseteq Names(idl)
    BY <1>1, <1>2, SMTT(20) DEF Names, Constants, OffChain
  <1>12. Chosen(idl, given,
               {IDL!AssociatedBondingCurve("mint.owner"),
                IDL!AtaOf("poolAuthorityMintAccount", IDL!W, "poolAuthority", "mint.owner", "mint"),
                IDL!AtaOf("poolBaseTokenAccount", IDL!W, "pool", "mint.owner", "mint")})
    <2>1. \A i \in {2, 3, 6} : idl[i].rule = "given"
      BY <1>1, GivenRule, SMTT(20)
    <2>2. \A i \in DOMAIN idl : idl[i].name \in DOMAIN given => i \in {2, 3, 5, 6, 12, 18}
      BY <1>1, <1>2
    <2>3. {IDL!AssociatedBondingCurve("mint.owner"),
           IDL!AtaOf("poolAuthorityMintAccount", IDL!W, "poolAuthority", "mint.owner", "mint"),
           IDL!AtaOf("poolBaseTokenAccount", IDL!W, "pool", "mint.owner", "mint")}
            = {idl[5], idl[12], idl[18]}
      BY <1>1
    <2>4. \A i \in {2, 3, 6}, j \in {5, 12, 18} : idl[j].name # idl[i].name
      BY <1>2
    <2> QED BY <2>1, <2>2, <2>3, <2>4 DEF Chosen
  <1>13. Len(idl) \in Nat /\ DOMAIN idl = 1 .. Len(idl)
    BY <1>1
  <1>14. Fillable(idl, given)
    BY <1>9, <1>10, <1>11, <1>13 DEF Fillable
  <1> QED BY <1>12, <1>14 DEF idl

(* Another creator is named for a curve, *)
LEMMA SetCreatorTable ==
    ASSUME NEW given, DOMAIN given = {"mint", "setCreatorAuthority"}
    PROVE  Fillable(IDL!setCreator, given) /\ Chosen(IDL!setCreator, given, {})
  <1> DEFINE idl == IDL!setCreator
  <1>1. /\ DOMAIN idl = 1 .. 7 /\ Len(idl) = 7
        /\ idl[1] = IDL!Given("setCreatorAuthority", IDL!S)
        /\ idl[2] = IDL!Global
        /\ idl[3] = IDL!Mint(IDL!RO)
        /\ idl[4] = IDL!Metadata(IDL!RO)
        /\ idl[5] = IDL!BondingCurve(IDL!W)
        /\ idl[6] = IDL!EventAuthority("eventAuthority", "pump")
        /\ idl[7] = IDL!Fixed("program", IDL!RO, "pump")
    BY DEF IDL!setCreator, IDL!SetCreatorMint, IDL!SetCreatorCurve, IDL!Events
  <1> HIDE DEF idl
  <1>2. /\ idl[1].name = "setCreatorAuthority" /\ idl[2].name = "global" /\ idl[3].name = "mint"
        /\ idl[4].name = "metadata" /\ idl[5].name = "bondingCurve"
        /\ idl[6].name = "eventAuthority" /\ idl[7].name = "program"
    BY <1>1, RowNames
  <1>3. ASSUME NEW K, {"mint"} \subseteq K
        PROVE  /\ Known(idl[2], K) /\ Known(idl[4], K) /\ Known(idl[5], K) /\ Known(idl[6], K)
               /\ Known(idl[7], K)
    BY <1>1, <1>3, RowsKnown, KnownFixed
  <1>4. \A i \in DOMAIN idl : idl[i].name \notin DOMAIN given =>
                                Known(idl[i], Sources(idl, given, i))
    <2>1. \A i : {"mint"} \subseteq Sources(idl, given, i)
      BY DEF Sources
    <2>2. \A i \in {2, 4, 5, 6, 7} : Known(idl[i], Sources(idl, given, i))
      BY <1>3, <2>1
    <2>3. \A i \in {1, 3} : idl[i].name \in DOMAIN given
      BY <1>2
    <2>4. DOMAIN idl = {1, 3} \cup {2, 4, 5, 6, 7}
      BY <1>1
    <2> QED BY <2>2, <2>3, <2>4
  <1>5. \A i \in DOMAIN idl, j \in DOMAIN idl : idl[i].name = idl[j].name => i = j
    BY <1>1, <1>2
  <1>6. Names(idl) \cap (Constants \cup OffChain) = {} /\ DOMAIN given \subseteq Names(idl)
    BY <1>1, <1>2 DEF Names, Constants, OffChain
  <1>7. Chosen(idl, given, {})
    <2>1. \A i \in {1, 3} : idl[i].rule = "given"
      BY <1>1, GivenRule
    <2>2. \A i \in DOMAIN idl : idl[i].name \in DOMAIN given => i \in {1, 3}
      BY <1>1, <1>2
    <2> QED BY <2>1, <2>2 DEF Chosen
  <1> QED BY <1>1, <1>4, <1>5, <1>6, <1>7 DEF Fillable, idl

(* by the admin as well, *)
LEMMA AdminSetCreatorTable ==
    ASSUME NEW given, DOMAIN given = {"mint", "adminSetCreatorAuthority"}
    PROVE  Fillable(IDL!adminSetCreator, given) /\ Chosen(IDL!adminSetCreator, given, {})
  <1> DEFINE idl == IDL!adminSetCreator
  <1>1. /\ DOMAIN idl = 1 .. 6 /\ Len(idl) = 6
        /\ idl[1] = IDL!Given("adminSetCreatorAuthority", IDL!S)
        /\ idl[2] = IDL!Global
        /\ idl[3] = IDL!Mint(IDL!RO)
        /\ idl[4] = IDL!BondingCurve(IDL!W)
        /\ idl[5] = IDL!EventAuthority("eventAuthority", "pump")
        /\ idl[6] = IDL!Fixed("program", IDL!RO, "pump")
    BY DEF IDL!adminSetCreator, IDL!Events
  <1> HIDE DEF idl
  <1>2. /\ idl[1].name = "adminSetCreatorAuthority" /\ idl[2].name = "global"
        /\ idl[3].name = "mint" /\ idl[4].name = "bondingCurve" /\ idl[5].name = "eventAuthority"
        /\ idl[6].name = "program"
    BY <1>1, RowNames
  <1>3. ASSUME NEW K, {"mint"} \subseteq K
        PROVE  Known(idl[2], K) /\ Known(idl[4], K) /\ Known(idl[5], K) /\ Known(idl[6], K)
    BY <1>1, <1>3, RowsKnown, KnownFixed
  <1>4. \A i \in DOMAIN idl : idl[i].name \notin DOMAIN given =>
                                Known(idl[i], Sources(idl, given, i))
    <2>1. \A i : {"mint"} \subseteq Sources(idl, given, i)
      BY DEF Sources
    <2>2. \A i \in {2, 4, 5, 6} : Known(idl[i], Sources(idl, given, i))
      BY <1>3, <2>1
    <2>3. \A i \in {1, 3} : idl[i].name \in DOMAIN given
      BY <1>2
    <2>4. DOMAIN idl = {1, 3} \cup {2, 4, 5, 6}
      BY <1>1
    <2> QED BY <2>2, <2>3, <2>4
  <1>5. \A i \in DOMAIN idl, j \in DOMAIN idl : idl[i].name = idl[j].name => i = j
    BY <1>1, <1>2
  <1>6. Names(idl) \cap (Constants \cup OffChain) = {} /\ DOMAIN given \subseteq Names(idl)
    BY <1>1, <1>2 DEF Names, Constants, OffChain
  <1>7. Chosen(idl, given, {})
    <2>1. \A i \in {1, 3} : idl[i].rule = "given"
      BY <1>1, GivenRule
    <2>2. \A i \in DOMAIN idl : idl[i].name \in DOMAIN given => i \in {1, 3}
      BY <1>1, <1>2
    <2> QED BY <2>1, <2>2 DEF Chosen
  <1> QED BY <1>1, <1>4, <1>5, <1>6, <1>7 DEF Fillable, idl

(* who names one for the pool too. *)
LEMMA AdminSetCoinCreatorTable ==
    ASSUME NEW given, DOMAIN given = {"adminSetCoinCreatorAuthority", "globalConfig", "pool"}
    PROVE  Fillable(IDL!adminSetCoinCreator, given) /\ Chosen(IDL!adminSetCoinCreator, given, {})
  <1> DEFINE idl == IDL!adminSetCoinCreator
  <1>1. /\ DOMAIN idl = 1 .. 5 /\ Len(idl) = 5
        /\ idl[1] = IDL!Given("adminSetCoinCreatorAuthority", IDL!S)
        /\ idl[2] = IDL!Given("globalConfig", IDL!RO)
        /\ idl[3] = IDL!Given("pool", IDL!W)
        /\ idl[4] = IDL!EventAuthority("eventAuthority", "pumpAmm")
        /\ idl[5] = IDL!Fixed("program", IDL!RO, "pumpAmm")
    BY DEF IDL!adminSetCoinCreator, IDL!Events
  <1> HIDE DEF idl
  <1>2. /\ idl[1].name = "adminSetCoinCreatorAuthority" /\ idl[2].name = "globalConfig"
        /\ idl[3].name = "pool" /\ idl[4].name = "eventAuthority" /\ idl[5].name = "program"
    BY <1>1, RowNames
  <1>3. \A i \in DOMAIN idl : idl[i].name \notin DOMAIN given =>
                                Known(idl[i], Sources(idl, given, i))
    <2>1. ASSUME NEW K PROVE Known(idl[4], K) /\ Known(idl[5], K)
      BY <1>1, RowsKnown, KnownFixed
    <2>2. \A i \in {4, 5} : Known(idl[i], Sources(idl, given, i))
      BY <2>1
    <2>3. \A i \in {1, 2, 3} : idl[i].name \in DOMAIN given
      BY <1>2
    <2>4. DOMAIN idl = {1, 2, 3} \cup {4, 5}
      BY <1>1
    <2> QED BY <2>2, <2>3, <2>4
  <1>4. \A i \in DOMAIN idl, j \in DOMAIN idl : idl[i].name = idl[j].name => i = j
    BY <1>1, <1>2
  <1>5. Names(idl) \cap (Constants \cup OffChain) = {} /\ DOMAIN given \subseteq Names(idl)
    BY <1>1, <1>2 DEF Names, Constants, OffChain
  <1>6. Chosen(idl, given, {})
    <2>1. \A i \in {1, 2, 3} : idl[i].rule = "given"
      BY <1>1, GivenRule
    <2>2. \A i \in DOMAIN idl : idl[i].name \in DOMAIN given => i \in {1, 2, 3}
      BY <1>1, <1>2
    <2> QED BY <2>1, <2>2 DEF Chosen
  <1> QED BY <1>1, <1>3, <1>4, <1>5, <1>6 DEF Fillable, idl

(* Shareholders ask what may be paid out. *)
LEMMA MinimumTable ==
    ASSUME NEW given, DOMAIN given = {"mint", "creatorVault"}
    PROVE  /\ Fillable(IDL!getMinimumDistributableFee, given)
           /\ Chosen(IDL!getMinimumDistributableFee, given, {IDL!CreatorVault(IDL!RO)})
  <1> DEFINE idl == IDL!getMinimumDistributableFee
  <1>1. /\ DOMAIN idl = 1 .. 4 /\ Len(idl) = 4
        /\ idl[1] = IDL!Mint(IDL!RO)
        /\ idl[2] = IDL!BondingCurve(IDL!RO)
        /\ idl[3] = IDL!SharingConfig(IDL!RO)
        /\ idl[4] = IDL!CreatorVault(IDL!RO)
    BY DEF IDL!getMinimumDistributableFee
  <1> HIDE DEF idl
  <1>2. /\ idl[1].name = "mint" /\ idl[2].name = "bondingCurve" /\ idl[3].name = "sharingConfig"
        /\ idl[4].name = "creatorVault"
    BY <1>1, RowNames
  <1>3. ASSUME NEW K, {"mint"} \subseteq K
        PROVE  Known(idl[2], K) /\ Known(idl[3], K)
    BY <1>1, <1>3, RowsKnown
  <1>4. \A i \in DOMAIN idl : idl[i].name \notin DOMAIN given =>
                                Known(idl[i], Sources(idl, given, i))
    <2>1. \A i : {"mint"} \subseteq Sources(idl, given, i)
      BY DEF Sources
    <2>2. \A i \in {2, 3} : Known(idl[i], Sources(idl, given, i))
      BY <1>3, <2>1
    <2>3. \A i \in {1, 4} : idl[i].name \in DOMAIN given
      BY <1>2
    <2>4. DOMAIN idl = {1, 4} \cup {2, 3}
      BY <1>1
    <2> QED BY <2>2, <2>3, <2>4
  <1>5. \A i \in DOMAIN idl, j \in DOMAIN idl : idl[i].name = idl[j].name => i = j
    BY <1>1, <1>2
  <1>6. Names(idl) \cap (Constants \cup OffChain) = {} /\ DOMAIN given \subseteq Names(idl)
    BY <1>1, <1>2 DEF Names, Constants, OffChain
  <1>7. Chosen(idl, given, {IDL!CreatorVault(IDL!RO)})
    <2>1. \A i \in {1} : idl[i].rule = "given"
      BY <1>1, GivenRule
    <2>2. \A i \in DOMAIN idl : idl[i].name \in DOMAIN given => i \in {1, 4}
      BY <1>1, <1>2
    <2>3. {IDL!CreatorVault(IDL!RO)} = {idl[4]}
      BY <1>1
    <2>4. \A i \in {1} : idl[4].name # idl[i].name
      BY <1>2
    <2> QED BY <2>1, <2>2, <2>3, <2>4 DEF Chosen
  <1> QED BY <1>1, <1>4, <1>5, <1>6, <1>7 DEF Fillable, idl

(* A volume accumulator is opened, *)
LEMMA InitAccumulatorTable ==
    ASSUME NEW given, DOMAIN given = {"payer", "user"}
    PROVE  /\ Fillable(IDL!initUserVolumeAccumulator, given)
           /\ Chosen(IDL!initUserVolumeAccumulator, given, {})
  <1> DEFINE idl == IDL!initUserVolumeAccumulator
  <1>1. /\ DOMAIN idl = 1 .. 6 /\ Len(idl) = 6
        /\ idl[1] = IDL!Given("payer", IDL!WS)
        /\ idl[2] = IDL!Given("user", IDL!RO)
        /\ idl[3] = IDL!UserVolumeAccumulator
        /\ idl[4] = IDL!SystemProgram
        /\ idl[5] = IDL!EventAuthority("eventAuthority", "pump")
        /\ idl[6] = IDL!Fixed("program", IDL!RO, "pump")
    BY DEF IDL!initUserVolumeAccumulator, IDL!Events
  <1> HIDE DEF idl
  <1>2. /\ idl[1].name = "payer" /\ idl[2].name = "user" /\ idl[3].name = "userVolumeAccumulator"
        /\ idl[4].name = "systemProgram" /\ idl[5].name = "eventAuthority"
        /\ idl[6].name = "program"
    BY <1>1, RowNames
  <1>3. ASSUME NEW K, {"user"} \subseteq K
        PROVE  Known(idl[3], K) /\ Known(idl[4], K) /\ Known(idl[5], K) /\ Known(idl[6], K)
    BY <1>1, <1>3, RowsKnown, KnownFixed
  <1>4. \A i \in DOMAIN idl : idl[i].name \notin DOMAIN given =>
                                Known(idl[i], Sources(idl, given, i))
    <2>1. \A i : {"user"} \subseteq Sources(idl, given, i)
      BY DEF Sources
    <2>2. \A i \in {3, 4, 5, 6} : Known(idl[i], Sources(idl, given, i))
      BY <1>3, <2>1
    <2>3. \A i \in {1, 2} : idl[i].name \in DOMAIN given
      BY <1>2
    <2>4. DOMAIN idl = {1, 2} \cup {3, 4, 5, 6}
      BY <1>1
    <2> QED BY <2>2, <2>3, <2>4
  <1>5. \A i \in DOMAIN idl, j \in DOMAIN idl : idl[i].name = idl[j].name => i = j
    BY <1>1, <1>2
  <1>6. Names(idl) \cap (Constants \cup OffChain) = {} /\ DOMAIN given \subseteq Names(idl)
    BY <1>1, <1>2 DEF Names, Constants, OffChain
  <1>7. Chosen(idl, given, {})
    <2>1. \A i \in {1, 2} : idl[i].rule = "given"
      BY <1>1, GivenRule
    <2>2. \A i \in DOMAIN idl : idl[i].name \in DOMAIN given => i \in {1, 2}
      BY <1>1, <1>2
    <2> QED BY <2>1, <2>2 DEF Chosen
  <1> QED BY <1>1, <1>4, <1>5, <1>6, <1>7 DEF Fillable, idl

(* synchronised *)
LEMMA SyncAccumulatorTable ==
    ASSUME NEW given, DOMAIN given = {"user"}
    PROVE  /\ Fillable(IDL!syncUserVolumeAccumulator, given)
           /\ Chosen(IDL!syncUserVolumeAccumulator, given, {})
  <1> DEFINE idl == IDL!syncUserVolumeAccumulator
  <1>1. /\ DOMAIN idl = 1 .. 5 /\ Len(idl) = 5
        /\ idl[1] = IDL!Given("user", IDL!RO)
        /\ idl[2] = IDL!GlobalVolumeAccumulator(IDL!RO)
        /\ idl[3] = IDL!UserVolumeAccumulator
        /\ idl[4] = IDL!EventAuthority("eventAuthority", "pump")
        /\ idl[5] = IDL!Fixed("program", IDL!RO, "pump")
    BY DEF IDL!syncUserVolumeAccumulator, IDL!Events
  <1> HIDE DEF idl
  <1>2. /\ idl[1].name = "user" /\ idl[2].name = "globalVolumeAccumulator"
        /\ idl[3].name = "userVolumeAccumulator" /\ idl[4].name = "eventAuthority"
        /\ idl[5].name = "program"
    BY <1>1, RowNames
  <1>3. ASSUME NEW K, {"user"} \subseteq K
        PROVE  Known(idl[2], K) /\ Known(idl[3], K) /\ Known(idl[4], K) /\ Known(idl[5], K)
    BY <1>1, <1>3, RowsKnown, KnownFixed
  <1>4. \A i \in DOMAIN idl : idl[i].name \notin DOMAIN given =>
                                Known(idl[i], Sources(idl, given, i))
    <2>1. \A i : {"user"} \subseteq Sources(idl, given, i)
      BY DEF Sources
    <2>2. \A i \in {2, 3, 4, 5} : Known(idl[i], Sources(idl, given, i))
      BY <1>3, <2>1
    <2>3. \A i \in {1} : idl[i].name \in DOMAIN given
      BY <1>2
    <2>4. DOMAIN idl = {1} \cup {2, 3, 4, 5}
      BY <1>1
    <2> QED BY <2>2, <2>3, <2>4
  <1>5. \A i \in DOMAIN idl, j \in DOMAIN idl : idl[i].name = idl[j].name => i = j
    BY <1>1, <1>2
  <1>6. Names(idl) \cap (Constants \cup OffChain) = {} /\ DOMAIN given \subseteq Names(idl)
    BY <1>1, <1>2 DEF Names, Constants, OffChain
  <1>7. Chosen(idl, given, {})
    <2>1. \A i \in {1} : idl[i].rule = "given"
      BY <1>1, GivenRule
    <2>2. \A i \in DOMAIN idl : idl[i].name \in DOMAIN given => i \in {1}
      BY <1>1, <1>2
    <2> QED BY <2>1, <2>2 DEF Chosen
  <1> QED BY <1>1, <1>4, <1>5, <1>6, <1>7 DEF Fillable, idl

(* and closed. *)
LEMMA CloseAccumulatorTable ==
    ASSUME NEW given, DOMAIN given = {"user"}
    PROVE  /\ Fillable(IDL!closeUserVolumeAccumulator, given)
           /\ Chosen(IDL!closeUserVolumeAccumulator, given, {})
  <1> DEFINE idl == IDL!closeUserVolumeAccumulator
  <1>1. /\ DOMAIN idl = 1 .. 4 /\ Len(idl) = 4
        /\ idl[1] = IDL!Given("user", IDL!WS)
        /\ idl[2] = IDL!UserVolumeAccumulator
        /\ idl[3] = IDL!EventAuthority("eventAuthority", "pump")
        /\ idl[4] = IDL!Fixed("program", IDL!RO, "pump")
    BY DEF IDL!closeUserVolumeAccumulator, IDL!Events
  <1> HIDE DEF idl
  <1>2. /\ idl[1].name = "user" /\ idl[2].name = "userVolumeAccumulator"
        /\ idl[3].name = "eventAuthority" /\ idl[4].name = "program"
    BY <1>1, RowNames
  <1>3. ASSUME NEW K, {"user"} \subseteq K
        PROVE  Known(idl[2], K) /\ Known(idl[3], K) /\ Known(idl[4], K)
    BY <1>1, <1>3, RowsKnown, KnownFixed
  <1>4. \A i \in DOMAIN idl : idl[i].name \notin DOMAIN given =>
                                Known(idl[i], Sources(idl, given, i))
    <2>1. \A i : {"user"} \subseteq Sources(idl, given, i)
      BY DEF Sources
    <2>2. \A i \in {2, 3, 4} : Known(idl[i], Sources(idl, given, i))
      BY <1>3, <2>1
    <2>3. \A i \in {1} : idl[i].name \in DOMAIN given
      BY <1>2
    <2>4. DOMAIN idl = {1} \cup {2, 3, 4}
      BY <1>1
    <2> QED BY <2>2, <2>3, <2>4
  <1>5. \A i \in DOMAIN idl, j \in DOMAIN idl : idl[i].name = idl[j].name => i = j
    BY <1>1, <1>2
  <1>6. Names(idl) \cap (Constants \cup OffChain) = {} /\ DOMAIN given \subseteq Names(idl)
    BY <1>1, <1>2 DEF Names, Constants, OffChain
  <1>7. Chosen(idl, given, {})
    <2>1. \A i \in {1} : idl[i].rule = "given"
      BY <1>1, GivenRule
    <2>2. \A i \in DOMAIN idl : idl[i].name \in DOMAIN given => i \in {1}
      BY <1>1, <1>2
    <2> QED BY <2>1, <2>2 DEF Chosen
  <1> QED BY <1>1, <1>4, <1>5, <1>6, <1>7 DEF Fillable, idl

(* Cashback is claimed, *)
LEMMA CashbackTable ==
    ASSUME NEW given, DOMAIN given = {"user"}
    PROVE  Fillable(IDL!claimCashback, given) /\ Chosen(IDL!claimCashback, given, {})
  <1> DEFINE idl == IDL!claimCashback
  <1>1. /\ DOMAIN idl = 1 .. 5 /\ Len(idl) = 5
        /\ idl[1] = IDL!Given("user", IDL!W)
        /\ idl[2] = IDL!UserVolumeAccumulator
        /\ idl[3] = IDL!SystemProgram
        /\ idl[4] = IDL!EventAuthority("eventAuthority", "pump")
        /\ idl[5] = IDL!Fixed("program", IDL!RO, "pump")
    BY DEF IDL!claimCashback, IDL!Events
  <1> HIDE DEF idl
  <1>2. /\ idl[1].name = "user" /\ idl[2].name = "userVolumeAccumulator"
        /\ idl[3].name = "systemProgram" /\ idl[4].name = "eventAuthority"
        /\ idl[5].name = "program"
    BY <1>1, RowNames
  <1>3. ASSUME NEW K, {"user"} \subseteq K
        PROVE  Known(idl[2], K) /\ Known(idl[3], K) /\ Known(idl[4], K) /\ Known(idl[5], K)
    BY <1>1, <1>3, RowsKnown, KnownFixed
  <1>4. \A i \in DOMAIN idl : idl[i].name \notin DOMAIN given =>
                                Known(idl[i], Sources(idl, given, i))
    <2>1. \A i : {"user"} \subseteq Sources(idl, given, i)
      BY DEF Sources
    <2>2. \A i \in {2, 3, 4, 5} : Known(idl[i], Sources(idl, given, i))
      BY <1>3, <2>1
    <2>3. \A i \in {1} : idl[i].name \in DOMAIN given
      BY <1>2
    <2>4. DOMAIN idl = {1} \cup {2, 3, 4, 5}
      BY <1>1
    <2> QED BY <2>2, <2>3, <2>4
  <1>5. \A i \in DOMAIN idl, j \in DOMAIN idl : idl[i].name = idl[j].name => i = j
    BY <1>1, <1>2
  <1>6. Names(idl) \cap (Constants \cup OffChain) = {} /\ DOMAIN given \subseteq Names(idl)
    BY <1>1, <1>2 DEF Names, Constants, OffChain
  <1>7. Chosen(idl, given, {})
    <2>1. \A i \in {1} : idl[i].rule = "given"
      BY <1>1, GivenRule
    <2>2. \A i \in DOMAIN idl : idl[i].name \in DOMAIN given => i \in {1}
      BY <1>1, <1>2
    <2> QED BY <2>1, <2>2 DEF Chosen
  <1> QED BY <1>1, <1>4, <1>5, <1>6, <1>7 DEF Fillable, idl

(* and so are incentives, *)
LEMMA ClaimTable ==
    ASSUME NEW given, DOMAIN given = {"user", "payer", "mint", "tokenProgram"}
    PROVE  /\ Fillable(IDL!claimTokenIncentives, given)
           /\ Chosen(IDL!claimTokenIncentives, given, {})
  <1> DEFINE idl == IDL!claimTokenIncentives
  <1>1. /\ DOMAIN idl = 1 .. 12 /\ Len(idl) = 12
        /\ idl[1] = IDL!Given("user", IDL!RO)
        /\ idl[2] = IDL!AtaOf("userAta", IDL!W, "user", "tokenProgram", "mint")
        /\ idl[3] = IDL!GlobalVolumeAccumulator(IDL!RO)
        /\ idl[4] = IDL!GlobalIncentiveTokenAccount
        /\ idl[5] = IDL!UserVolumeAccumulator
        /\ idl[6] = IDL!Mint(IDL!RO)
        /\ idl[7] = IDL!Given("tokenProgram", IDL!RO)
        /\ idl[8] = IDL!SystemProgram
        /\ idl[9] = IDL!AssociatedTokenProgram
        /\ idl[10] = IDL!EventAuthority("eventAuthority", "pump")
        /\ idl[11] = IDL!Fixed("program", IDL!RO, "pump")
        /\ idl[12] = IDL!Given("payer", IDL!WS)
    BY DEF IDL!claimTokenIncentives, IDL!ClaimUser, IDL!ClaimIncentives, IDL!Events
  <1> HIDE DEF idl
  <1>2. /\ idl[1].name = "user" /\ idl[2].name = "userAta"
        /\ idl[3].name = "globalVolumeAccumulator" /\ idl[4].name = "globalIncentiveTokenAccount"
        /\ idl[5].name = "userVolumeAccumulator" /\ idl[6].name = "mint"
        /\ idl[7].name = "tokenProgram" /\ idl[8].name = "systemProgram"
        /\ idl[9].name = "associatedTokenProgram" /\ idl[10].name = "eventAuthority"
        /\ idl[11].name = "program" /\ idl[12].name = "payer"
    BY <1>1, RowNames
  <1>3. ASSUME NEW K, {"user", "mint", "tokenProgram"} \subseteq K
        PROVE  /\ Known(idl[2], K) /\ Known(idl[3], K) /\ Known(idl[5], K) /\ Known(idl[8], K)
               /\ Known(idl[9], K) /\ Known(idl[10], K) /\ Known(idl[11], K)
    BY <1>1, <1>3, RowsKnown, KnownFixed, KnownAta
  <1>4. Known(idl[4], Sources(idl, given, 4))
    <2>1. {"globalVolumeAccumulator", "tokenProgram", "mint"} \subseteq Sources(idl, given, 4)
      BY <1>1, <1>2 DEF Sources, Before
    <2>2. idl[4] = IDL!GlobalIncentiveTokenAccount
      BY <1>1
    <2> QED BY <2>1, <2>2, KnownAta DEF IDL!GlobalIncentiveTokenAccount
  <1>5. \A i \in DOMAIN idl : idl[i].name \notin DOMAIN given =>
                                Known(idl[i], Sources(idl, given, i))
    <2>1. \A i : {"user", "mint", "tokenProgram"} \subseteq Sources(idl, given, i)
      BY DEF Sources
    <2>2. \A i \in {2, 3, 4, 5, 8, 9, 10, 11} : Known(idl[i], Sources(idl, given, i))
      BY <1>3, <1>4, <2>1
    <2>3. \A i \in {1, 6, 7, 12} : idl[i].name \in DOMAIN given
      BY <1>2
    <2>4. DOMAIN idl = {1, 6, 7, 12} \cup {2, 3, 4, 5, 8, 9, 10, 11}
      BY <1>1
    <2> QED BY <2>2, <2>3, <2>4
  <1>6. \A i \in DOMAIN idl, j \in DOMAIN idl : idl[i].name = idl[j].name => i = j
    BY <1>1, <1>2
  <1>7. Names(idl) \cap (Constants \cup OffChain) = {} /\ DOMAIN given \subseteq Names(idl)
    BY <1>1, <1>2 DEF Names, Constants, OffChain
  <1>8. Chosen(idl, given, {})
    <2>1. \A i \in {1, 6, 7, 12} : idl[i].rule = "given"
      BY <1>1, GivenRule
    <2>2. \A i \in DOMAIN idl : idl[i].name \in DOMAIN given => i \in {1, 6, 7, 12}
      BY <1>1, <1>2
    <2> QED BY <2>1, <2>2 DEF Chosen
  <1> QED BY <1>1, <1>5, <1>6, <1>7, <1>8 DEF Fillable, idl

(* which the authority sets. *)
LEMMA IncentivesTable ==
    ASSUME NEW given, DOMAIN given = {"authority", "mint", "tokenProgram"}
    PROVE  /\ Fillable(IDL!adminUpdateTokenIncentives, given)
           /\ Chosen(IDL!adminUpdateTokenIncentives, given, {})
  <1> DEFINE idl == IDL!adminUpdateTokenIncentives
  <1>1. /\ DOMAIN idl = 1 .. 10 /\ Len(idl) = 10
        /\ idl[1] = IDL!Given("authority", IDL!WS)
        /\ idl[2] = IDL!Global
        /\ idl[3] = IDL!GlobalVolumeAccumulator(IDL!W)
        /\ idl[4] = IDL!Mint(IDL!RO)
        /\ idl[5] = IDL!GlobalIncentiveTokenAccount
        /\ idl[6] = IDL!AssociatedTokenProgram
        /\ idl[7] = IDL!SystemProgram
        /\ idl[8] = IDL!Given("tokenProgram", IDL!RO)
        /\ idl[9] = IDL!EventAuthority("eventAuthority", "pump")
        /\ idl[10] = IDL!Fixed("program", IDL!RO, "pump")
    BY DEF IDL!adminUpdateTokenIncentives, IDL!IncentiveFunds, IDL!IncentivePrograms, IDL!Events
  <1> HIDE DEF idl
  <1>2. /\ idl[1].name = "authority" /\ idl[2].name = "global"
        /\ idl[3].name = "globalVolumeAccumulator" /\ idl[4].name = "mint"
        /\ idl[5].name = "globalIncentiveTokenAccount" /\ idl[6].name = "associatedTokenProgram"
        /\ idl[7].name = "systemProgram" /\ idl[8].name = "tokenProgram"
        /\ idl[9].name = "eventAuthority" /\ idl[10].name = "program"
    BY <1>1, RowNames
  <1>3. ASSUME NEW K
        PROVE  /\ Known(idl[2], K) /\ Known(idl[3], K) /\ Known(idl[6], K) /\ Known(idl[7], K)
               /\ Known(idl[9], K) /\ Known(idl[10], K)
    BY <1>1, <1>3, RowsKnown, KnownFixed
  <1>4. Known(idl[5], Sources(idl, given, 5))
    <2>1. {"globalVolumeAccumulator", "tokenProgram", "mint"} \subseteq Sources(idl, given, 5)
      BY <1>1, <1>2 DEF Sources, Before
    <2>2. idl[5] = IDL!GlobalIncentiveTokenAccount
      BY <1>1
    <2> QED BY <2>1, <2>2, KnownAta DEF IDL!GlobalIncentiveTokenAccount
  <1>5. \A i \in DOMAIN idl : idl[i].name \notin DOMAIN given =>
                                Known(idl[i], Sources(idl, given, i))
    <2>1. \A i : DOMAIN given \subseteq Sources(idl, given, i)
      BY DEF Sources
    <2>2. \A i \in {2, 3, 5, 6, 7, 9, 10} : Known(idl[i], Sources(idl, given, i))
      BY <1>3, <1>4, <2>1
    <2>3. \A i \in {1, 4, 8} : idl[i].name \in DOMAIN given
      BY <1>2
    <2>4. DOMAIN idl = {1, 4, 8} \cup {2, 3, 5, 6, 7, 9, 10}
      BY <1>1
    <2> QED BY <2>2, <2>3, <2>4
  <1>6. \A i \in DOMAIN idl, j \in DOMAIN idl : idl[i].name = idl[j].name => i = j
    BY <1>1, <1>2
  <1>7. Names(idl) \cap (Constants \cup OffChain) = {} /\ DOMAIN given \subseteq Names(idl)
    BY <1>1, <1>2 DEF Names, Constants, OffChain
  <1>8. Chosen(idl, given, {})
    <2>1. \A i \in {1, 4, 8} : idl[i].rule = "given"
      BY <1>1, GivenRule
    <2>2. \A i \in DOMAIN idl : idl[i].name \in DOMAIN given => i \in {1, 4, 8}
      BY <1>1, <1>2
    <2> QED BY <2>1, <2>2 DEF Chosen
  <1> QED BY <1>1, <1>5, <1>6, <1>7, <1>8 DEF Fillable, idl

(* A sharing configuration is created, *)
LEMMA ShareTable ==
    ASSUME NEW given, DOMAIN given = {"payer", "mint", "pool"}
    PROVE  /\ Fillable(IDL!createFeeSharingConfig, given)
           /\ Chosen(IDL!createFeeSharingConfig, given, {})
  <1> DEFINE idl == IDL!createFeeSharingConfig
  <1>1. /\ DOMAIN idl = 1 .. 13 /\ Len(idl) = 13
        /\ idl[1] = IDL!EventAuthority("eventAuthority", "pumpFees")
        /\ idl[2] = IDL!Fixed("program", IDL!RO, "pumpFees")
        /\ idl[3] = IDL!Given("payer", IDL!WS)
        /\ idl[4] = IDL!Global
        /\ idl[5] = IDL!Mint(IDL!RO)
        /\ idl[6] = IDL!SharingConfig(IDL!W)
        /\ idl[7] = IDL!SystemProgram
        /\ idl[8] = IDL!BondingCurve(IDL!W)
        /\ idl[9] = IDL!Fixed("pumpProgram", IDL!RO, "pump")
        /\ idl[10] = IDL!EventAuthority("pumpEventAuthority", "pump")
        /\ idl[11] = IDL!Given("pool", IDL!W)
        /\ idl[12] = IDL!Fixed("pumpAmmProgram", IDL!RO, "pumpAmm")
        /\ idl[13] = IDL!EventAuthority("pumpAmmEventAuthority", "pumpAmm")
    BY DEF IDL!createFeeSharingConfig, IDL!ShareConfigCaller, IDL!ShareConfigCurve,
           IDL!ShareConfigPool, IDL!Events
  <1> HIDE DEF idl
  <1>2. /\ idl[1].name = "eventAuthority" /\ idl[2].name = "program" /\ idl[3].name = "payer"
        /\ idl[4].name = "global" /\ idl[5].name = "mint" /\ idl[6].name = "sharingConfig"
        /\ idl[7].name = "systemProgram" /\ idl[8].name = "bondingCurve"
        /\ idl[9].name = "pumpProgram" /\ idl[10].name = "pumpEventAuthority"
        /\ idl[11].name = "pool" /\ idl[12].name = "pumpAmmProgram"
        /\ idl[13].name = "pumpAmmEventAuthority"
    BY <1>1, RowNames
  <1>3. ASSUME NEW K, {"mint"} \subseteq K
        PROVE  /\ Known(idl[1], K) /\ Known(idl[2], K) /\ Known(idl[4], K) /\ Known(idl[6], K)
               /\ Known(idl[7], K) /\ Known(idl[8], K) /\ Known(idl[9], K) /\ Known(idl[10], K)
               /\ Known(idl[12], K) /\ Known(idl[13], K)
    BY <1>1, <1>3, RowsKnown, KnownFixed
  <1>4. \A i \in DOMAIN idl : idl[i].name \notin DOMAIN given =>
                                Known(idl[i], Sources(idl, given, i))
    <2>1. \A i : {"mint"} \subseteq Sources(idl, given, i)
      BY DEF Sources
    <2>2. \A i \in {1, 2, 4, 6, 7, 8, 9, 10, 12, 13} : Known(idl[i], Sources(idl, given, i))
      BY <1>3, <2>1
    <2>3. \A i \in {3, 5, 11} : idl[i].name \in DOMAIN given
      BY <1>2
    <2>4. DOMAIN idl = {3, 5, 11} \cup {1, 2, 4, 6, 7, 8, 9, 10, 12, 13}
      BY <1>1
    <2> QED BY <2>2, <2>3, <2>4
  <1>5. \A i \in DOMAIN idl, j \in DOMAIN idl : idl[i].name = idl[j].name => i = j
    BY <1>1, <1>2
  <1>6. Names(idl) \cap (Constants \cup OffChain) = {} /\ DOMAIN given \subseteq Names(idl)
    BY <1>1, <1>2 DEF Names, Constants, OffChain
  <1>7. Chosen(idl, given, {})
    <2>1. \A i \in {3, 5, 11} : idl[i].rule = "given"
      BY <1>1, GivenRule
    <2>2. \A i \in DOMAIN idl : idl[i].name \in DOMAIN given => i \in {3, 5, 11}
      BY <1>1, <1>2
    <2> QED BY <2>1, <2>2 DEF Chosen
  <1> QED BY <1>1, <1>4, <1>5, <1>6, <1>7 DEF Fillable, idl

(* the account of a social recipient opened, *)
LEMMA SocialPdaTable ==
    ASSUME NEW given, DOMAIN given = {"payer", "socialFeePda"}
    PROVE  Fillable(IDL!createSocialFeePda, given) /\ Chosen(IDL!createSocialFeePda, given, {})
  <1> DEFINE idl == IDL!createSocialFeePda
  <1>1. /\ DOMAIN idl = 1 .. 6 /\ Len(idl) = 6
        /\ idl[1] = IDL!Given("payer", IDL!WS)
        /\ idl[2] = IDL!Given("socialFeePda", IDL!W)
        /\ idl[3] = IDL!SystemProgram
        /\ idl[4] = IDL!Derived("feeProgramGlobal", IDL!RO, "pumpFees", "fee-program-global",
                                <<>>)
        /\ idl[5] = IDL!EventAuthority("eventAuthority", "pumpFees")
        /\ idl[6] = IDL!Fixed("program", IDL!RO, "pumpFees")
    BY DEF IDL!createSocialFeePda, IDL!Events
  <1> HIDE DEF idl
  <1>2. /\ idl[1].name = "payer" /\ idl[2].name = "socialFeePda" /\ idl[3].name = "systemProgram"
        /\ idl[4].name = "feeProgramGlobal" /\ idl[5].name = "eventAuthority"
        /\ idl[6].name = "program"
    BY <1>1, RowNames
  <1>3. ASSUME NEW K
        PROVE  Known(idl[3], K) /\ Known(idl[4], K) /\ Known(idl[5], K) /\ Known(idl[6], K)
    BY <1>1, <1>3, RowsKnown, KnownFixed, KnownAlone
  <1>4. \A i \in DOMAIN idl : idl[i].name \notin DOMAIN given =>
                                Known(idl[i], Sources(idl, given, i))
    <2>1. \A i : DOMAIN given \subseteq Sources(idl, given, i)
      BY DEF Sources
    <2>2. \A i \in {3, 4, 5, 6} : Known(idl[i], Sources(idl, given, i))
      BY <1>3, <2>1
    <2>3. \A i \in {1, 2} : idl[i].name \in DOMAIN given
      BY <1>2
    <2>4. DOMAIN idl = {1, 2} \cup {3, 4, 5, 6}
      BY <1>1
    <2> QED BY <2>2, <2>3, <2>4
  <1>5. \A i \in DOMAIN idl, j \in DOMAIN idl : idl[i].name = idl[j].name => i = j
    BY <1>1, <1>2
  <1>6. Names(idl) \cap (Constants \cup OffChain) = {} /\ DOMAIN given \subseteq Names(idl)
    BY <1>1, <1>2 DEF Names, Constants, OffChain
  <1>7. Chosen(idl, given, {})
    <2>1. \A i \in {1, 2} : idl[i].rule = "given"
      BY <1>1, GivenRule
    <2>2. \A i \in DOMAIN idl : idl[i].name \in DOMAIN given => i \in {1, 2}
      BY <1>1, <1>2
    <2> QED BY <2>1, <2>2 DEF Chosen
  <1> QED BY <1>1, <1>4, <1>5, <1>6, <1>7 DEF Fillable, idl

(* and the shares are set. *)
LEMMA UpdateTable ==
    ASSUME NEW given, DOMAIN given = {"authority", "mint", "coinCreatorVaultAta"}
    PROVE  Fillable(IDL!updateFeeShares, given) /\ Chosen(IDL!updateFeeShares, given, {})
  <1> DEFINE idl == IDL!updateFeeShares
  <1>1. /\ DOMAIN idl = 1 .. 18 /\ Len(idl) = 18
        /\ idl[1] = IDL!EventAuthority("eventAuthority", "pumpFees")
        /\ idl[2] = IDL!Fixed("program", IDL!RO, "pumpFees")
        /\ idl[3] = IDL!Given("authority", IDL!S)
        /\ idl[4] = IDL!Global
        /\ idl[5] = IDL!Mint(IDL!RO)
        /\ idl[6] = IDL!SharingConfig(IDL!W)
        /\ idl[7] = IDL!BondingCurve(IDL!RO)
        /\ idl[8] = IDL!Derived("pumpCreatorVault", IDL!W, "pump", "creator-vault",
                                <<"sharingConfig">>)
        /\ idl[9] = IDL!SystemProgram
        /\ idl[10] = IDL!Fixed("pumpProgram", IDL!RO, "pump")
        /\ idl[11] = IDL!EventAuthority("pumpEventAuthority", "pump")
        /\ idl[12] = IDL!Fixed("pumpAmmProgram", IDL!RO, "pumpAmm")
        /\ idl[13] = IDL!EventAuthority("ammEventAuthority", "pumpAmm")
        /\ idl[14] = IDL!Fixed("wsolMint", IDL!RO, "wsol")
        /\ idl[15] = IDL!Fixed("tokenProgram", IDL!RO, "Tokenkeg")
        /\ idl[16] = IDL!AssociatedTokenProgram
        /\ idl[17] = IDL!Derived("coinCreatorVaultAuthority", IDL!W, "pumpAmm", "creator_vault",
                                 <<"sharingConfig">>)
        /\ idl[18] = IDL!Given("coinCreatorVaultAta", IDL!W)
    BY DEF IDL!updateFeeShares, IDL!UpdateConfig, IDL!UpdatePumpVault, IDL!UpdatePrograms,
           IDL!UpdateAmmVault, IDL!Events
  <1> HIDE DEF idl
  <1>2. /\ idl[1].name = "eventAuthority" /\ idl[2].name = "program" /\ idl[3].name = "authority"
        /\ idl[4].name = "global" /\ idl[5].name = "mint" /\ idl[6].name = "sharingConfig"
        /\ idl[7].name = "bondingCurve" /\ idl[8].name = "pumpCreatorVault"
        /\ idl[9].name = "systemProgram" /\ idl[10].name = "pumpProgram"
        /\ idl[11].name = "pumpEventAuthority" /\ idl[12].name = "pumpAmmProgram"
        /\ idl[13].name = "ammEventAuthority" /\ idl[14].name = "wsolMint"
        /\ idl[15].name = "tokenProgram" /\ idl[16].name = "associatedTokenProgram"
        /\ idl[17].name = "coinCreatorVaultAuthority" /\ idl[18].name = "coinCreatorVaultAta"
    BY <1>1, RowNames
  <1>3. ASSUME NEW K, {"mint"} \subseteq K
        PROVE  /\ Known(idl[1], K) /\ Known(idl[2], K) /\ Known(idl[4], K) /\ Known(idl[6], K)
               /\ Known(idl[7], K) /\ Known(idl[9], K) /\ Known(idl[10], K) /\ Known(idl[11], K)
               /\ Known(idl[12], K) /\ Known(idl[13], K) /\ Known(idl[14], K) /\ Known(idl[15], K)
               /\ Known(idl[16], K)
    BY <1>1, <1>3, RowsKnown, KnownFixed
  <1>4. Known(idl[8], Sources(idl, given, 8))
    <2>1. {"sharingConfig"} \subseteq Sources(idl, given, 8)
      BY <1>1, <1>2 DEF Sources, Before
    <2>2. idl[8] = IDL!Derived("pumpCreatorVault", IDL!W, "pump", "creator-vault",
                               <<"sharingConfig">>)
      BY <1>1
    <2> QED BY <2>1, <2>2, KnownFrom
  <1>5. Known(idl[17], Sources(idl, given, 17))
    <2>1. {"sharingConfig"} \subseteq Sources(idl, given, 17)
      BY <1>1, <1>2 DEF Sources, Before
    <2>2. idl[17] = IDL!Derived("coinCreatorVaultAuthority", IDL!W, "pumpAmm", "creator_vault",
                                <<"sharingConfig">>)
      BY <1>1
    <2> QED BY <2>1, <2>2, KnownFrom
  <1>6. \A i \in DOMAIN idl : idl[i].name \notin DOMAIN given =>
                                Known(idl[i], Sources(idl, given, i))
    <2>1. \A i : {"mint"} \subseteq Sources(idl, given, i)
      BY DEF Sources
    <2>2. \A i \in {1, 2, 4, 6, 7, 8, 9, 10, 11, 12, 13, 14, 15, 16, 17} :
            Known(idl[i], Sources(idl, given, i))
      BY <1>3, <1>4, <1>5, <2>1
    <2>3. \A i \in {3, 5, 18} : idl[i].name \in DOMAIN given
      BY <1>2
    <2>4. DOMAIN idl = {3, 5, 18} \cup {1, 2, 4, 6, 7, 8, 9, 10, 11, 12, 13, 14, 15, 16, 17}
      BY <1>1
    <2> QED BY <2>2, <2>3, <2>4
  <1>7. \A i \in DOMAIN idl, j \in DOMAIN idl : idl[i].name = idl[j].name => i = j
    <2> DEFINE place == [ eventAuthority |-> 1, program |-> 2, authority |-> 3, global |-> 4,
                         mint |-> 5, sharingConfig |-> 6, bondingCurve |-> 7,
                         pumpCreatorVault |-> 8, systemProgram |-> 9, pumpProgram |-> 10,
                         pumpEventAuthority |-> 11, pumpAmmProgram |-> 12,
                         ammEventAuthority |-> 13, wsolMint |-> 14, tokenProgram |-> 15,
                         associatedTokenProgram |-> 16, coinCreatorVaultAuthority |-> 17,
                         coinCreatorVaultAta |-> 18]
    <2>1. \A i \in DOMAIN idl : place[idl[i].name] = i
      BY <1>1, <1>2
    <2> HIDE DEF place
    <2> QED BY <2>1
  <1>8. Names(idl) \cap (Constants \cup OffChain) = {} /\ DOMAIN given \subseteq Names(idl)
    BY <1>1, <1>2 DEF Names, Constants, OffChain
  <1>9. Chosen(idl, given, {})
    <2>1. \A i \in {3, 5, 18} : idl[i].rule = "given"
      BY <1>1, GivenRule
    <2>2. \A i \in DOMAIN idl : idl[i].name \in DOMAIN given => i \in {3, 5, 18}
      BY <1>1, <1>2
    <2> QED BY <2>1, <2>2 DEF Chosen
  <1> QED BY <1>1, <1>6, <1>7, <1>8, <1>9 DEF Fillable, idl

------------------------------------------------------------------------------
(***************************************************************************)
(* What one instruction of the SDK does to a coin. The caller has to get   *)
(* right only what is left to it.                                          *)
(***************************************************************************)

(* An instruction b, run on c, leaves d. *)
Leaves(b, c, d) == Run(c, FilledIn(b, IDL!Idl[b.op]), IDL!Idl[b.op]) = d

(* Accounts in which those the caller gave are as given, and the others as *)
(* their rows derive them.                                                 *)
Resolved(b, acc, c) ==
  LET idl == IDL!Idl[b.op]
  IN /\ DOMAIN acc = Names(idl)
     /\ \A n \in DOMAIN b.given : n \in DOMAIN acc /\ acc[n] = b.given[n]
     /\ \A i \in DOMAIN idl : idl[i].name \notin DOMAIN b.given => RowHolds(idl[i], b.op, acc, c)

(* What is left to the caller: the accounts of its choice, those it gives *)
(* in the place of a row with a rule, the accounts that follow the list,  *)
(* and that the coin is ready.                                            *)
Chose(b, rows, acc, c) ==
  /\ \A n \in DOMAIN b.given : (\A row \in rows : row.name # n) => ChoiceHolds(n, b.op, acc, c)
  /\ \A row \in rows : RowHolds(row, b.op, acc, c)
  /\ Covers(b.rest, RestNeeded(b.op, acc, c))
  /\ Ready(b, acc, c)

(* When the list can be filled in and the caller is right, the program runs *)
(* the instruction.                                                         *)
LEMMA Accepted ==
    ASSUME NEW b, NEW rows, NEW c, c # Refused,
           Fillable(IDL!Idl[b.op], b.given), Chosen(IDL!Idl[b.op], b.given, rows),
           List(b.rest), \A acc : Resolved(b, acc, c) => Chose(b, rows, acc, c)
    PROVE  \E acc : Resolved(b, acc, c) /\ Leaves(b, c, Effect(b, acc, c))
  <1> DEFINE idl == IDL!Idl[b.op]
             ix == FilledIn(b, idl)
             acc == Accounts(ix, idl)
  <1>1. PICK M : b.rest \in Seq(M)
    BY DEF List
  <1>2. /\ DOMAIN acc = Names(idl)
        /\ \A n \in Names(idl) : acc[n] = Completed(idl, b.given)[n]
        /\ \A n \in DOMAIN b.given : n \in Names(idl) /\ acc[n] = b.given[n]
    BY <1>1, AccountsAre
  <1>3. ix.op = b.op /\ ix.args = b.args
    BY DEF FilledIn, Filled
  <1> HIDE DEF idl
  <1>4. acc = Accounts(FilledIn(b, idl), idl) /\ ix = FilledIn(b, idl)
    OBVIOUS
  <1> HIDE DEF acc, ix
  <1>5. \A i \in DOMAIN idl : idl[i].name \notin DOMAIN b.given => RowHolds(idl[i], b.op, acc, c)
    BY <1>2, DerivedRowHolds DEF idl
  <1>6. Resolved(b, acc, c)
    BY <1>2, <1>5 DEF Resolved, idl
  <1>7. Chose(b, rows, acc, c)
    BY <1>6
  <1>8. \A i \in DOMAIN idl : idl[i].name \in DOMAIN b.given => RowHolds(idl[i], b.op, acc, c)
    <2> TAKE i \in DOMAIN idl
    <2> HAVE idl[i].name \in DOMAIN b.given
    <2>1. CASE idl[i] \in rows
      BY <1>7, <2>1 DEF Chose
    <2>2. CASE idl[i] \notin rows
      <3>1. idl[i].rule = "given" /\ \A row \in rows : row.name # idl[i].name
        BY <2>2 DEF Chosen, idl
      <3>2. ChoiceHolds(idl[i].name, b.op, acc, c)
        BY <1>7, <3>1 DEF Chose
      <3> QED BY <3>1, <3>2 DEF RowHolds
    <2> QED BY <2>1, <2>2
  <1>9. Ready(ix, acc, c) /\ Effect(ix, acc, c) = Effect(b, acc, c)
    BY <1>3, <1>7 DEF Chose, Ready, Effect
  <1>10. Run(c, ix, idl) = Effect(ix, acc, c)
    BY <1>1, <1>4, <1>7, <1>8, <1>9, FilledRuns DEF Chose, idl
  <1> QED BY <1>4, <1>6, <1>9, <1>10 DEF Leaves, idl

(* Users are addresses. *)
LEMMA UsersNamed == \A u \in Users \cup {Authority} : u # Unresolved
  BY DEF Users, Dev, Other, Authority, Wallet, Address, Unresolved

(* So are the accounts of social recipients. *)
LEMMA SocialNamed == \A userId, platform : socialFeePda(userId, platform) # Unresolved
  BY DEF socialFeePda, Pda, Wallet, Address, Unresolved

(* A fixed row holds at its program, *)
LEMMA FixedRow ==
    ASSUME NEW n, NEW flags, NEW prog, NEW op, NEW acc, NEW c, acc[n] = Program(prog)
    PROVE  RowHolds(IDL!Fixed(n, flags, prog), op, acc, c)
  BY DEF RowHolds, IDL!Fixed

(* and a derived one without seeds at its address. *)
LEMMA DerivedRow0 ==
    ASSUME NEW n, NEW flags, NEW prog, NEW tag, NEW op, NEW acc, NEW c,
           acc[n] = Pda(prog, tag, <<>>)
    PROVE  RowHolds(IDL!Derived(n, flags, prog, tag, <<>>), op, acc, c)
  <1>1. [i \in DOMAIN <<>> |-> SeedOnChain(<<>>[i], acc, c)] = <<>>
    OBVIOUS
  <1> QED BY <1>1 DEF RowHolds, IDL!Derived

(* The accounts that follow the list of a trade, *)
LEMMA TradeRestList == List(TradeRest)
  <1> DEFINE S == {TradeRest[1], TradeRest[2]}
  <1>1. TradeRest \in Seq(S)
    BY DEF TradeRest
  <1> HIDE DEF S
  <1> QED BY <1>1 DEF List

(* with the user's accumulator in front when there is cashback, *)
LEMMA CashbackRestList == ASSUME NEW m PROVE List(<<m>> \o TradeRest)
  <1> DEFINE S == {TradeRest[1], TradeRest[2], m}
  <1>1. TradeRest \in Seq(S) /\ <<m>> \in Seq(S)
    BY DEF TradeRest
  <1>2. <<m>> \o TradeRest \in Seq(S)
    BY <1>1
  <1> HIDE DEF S
  <1> QED BY <1>2 DEF List

(* and those of shareholders, are sequences. *)
LEMMA WritableList ==
    ASSUME NEW holders, List(holders)
    PROVE  List(Writable(Addresses(holders)))
  <1>1. PICK S : holders \in Seq(S)
    BY DEF List
  <1> DEFINE keys == Addresses(holders)
             M == {Meta(keys[i], W) : i \in 1 .. Len(holders)}
  <1>2. Len(holders) \in Nat /\ DOMAIN keys = 1 .. Len(holders)
    BY <1>1 DEF Addresses
  <1> HIDE DEF keys
  <1>3. Writable(keys) \in Seq(M)
    BY <1>2 DEF Writable
  <1> HIDE DEF M
  <1> QED BY <1>3 DEF List, keys

(* A coin that was not refused. *)
Alive(c) == "phase" \in DOMAIN c /\ c.phase # "refused"

(* The program accepts the creation of a coin that is not there, *)
LEMMA CreateRuns ==
    ASSUME NEW user \in Users, NEW c, c.phase = "none"
    PROVE  Leaves(createInstruction(user, user), c,
                  [c EXCEPT !.phase = "curve", !.token = TOKEN_PROGRAM_ID, !.creator = user,
                             !.mayhem = FALSE, !.cashback = FALSE, !.size = "old"])
  <1> DEFINE b == createInstruction(user, user)
             rows == {IDL!Fixed("tokenProgram", IDL!RO, "Tokenkeg")}
  <1>1. /\ b.op = "create" /\ b.rest = <<>> /\ DOMAIN b.given = {"mint", "user", "tokenProgram"}
        /\ b.given["mint"] = MINT /\ b.given["user"] = user
        /\ b.given["tokenProgram"] = TOKEN_PROGRAM_ID
        /\ b.args = [creator |-> user, mayhem |-> FALSE, cashback |-> FALSE]
    BY DEF createInstruction, instruction
  <1> HIDE DEF b
  <1>2. IDL!Idl[b.op] = IDL!create
    BY <1>1 DEF IDL!Idl
  <1>3. Fillable(IDL!Idl[b.op], b.given) /\ Chosen(IDL!Idl[b.op], b.given, rows)
    BY <1>1, <1>2, CreateTable
  <1>4. ASSUME NEW acc, Resolved(b, acc, c) PROVE Chose(b, rows, acc, c)
    <2>1. /\ acc["mint"] = MINT /\ acc["user"] = user /\ acc["tokenProgram"] = TOKEN_PROGRAM_ID
      BY <1>1, <1>4 DEF Resolved
    <2>2. \A n \in DOMAIN b.given :
            (\A row \in rows : row.name # n) => ChoiceHolds(n, b.op, acc, c)
      <3>1. \A n \in {"mint", "user"} : ChoiceHolds(n, b.op, acc, c)
        BY <1>1, <2>1, UsersNamed DEF ChoiceHolds, Incentives
      <3>2. \E row \in rows : row.name = "tokenProgram"
        BY RowNames
      <3> QED BY <1>1, <3>1, <3>2
    <2>3. \A row \in rows : RowHolds(row, b.op, acc, c)
      BY <2>1, FixedRow DEF TOKEN_PROGRAM_ID
    <2>4. Covers(b.rest, RestNeeded(b.op, acc, c))
      BY <1>1, CoversSelf DEF RestNeeded
    <2>5. Ready(b, acc, c)
      BY <1>1, <2>1 DEF Ready
    <2> QED BY <2>2, <2>3, <2>4, <2>5 DEF Chose
  <1>5. List(b.rest) /\ c # Refused
    BY <1>1, NoList DEF Refused
  <1>6. PICK acc : Resolved(b, acc, c) /\ Leaves(b, c, Effect(b, acc, c))
    BY <1>3, <1>4, <1>5, Accepted
  <1>7. Effect(b, acc, c)
           = [c EXCEPT !.phase = "curve", !.token = TOKEN_PROGRAM_ID, !.creator = user,
                       !.mayhem = FALSE, !.cashback = FALSE, !.size = "old"]
    <2>1. acc["tokenProgram"] = TOKEN_PROGRAM_ID
      BY <1>1, <1>6 DEF Resolved
    <2>2. b.op = "create" /\ b.args.creator = user /\ ~b.args.mayhem /\ ~b.args.cashback
          /\ b.args.mayhem = FALSE /\ b.args.cashback = FALSE
      BY <1>1
    <2> QED BY <2>1, <2>2 DEF Effect
  <1> QED BY <1>6, <1>7 DEF b

(* by create_v2 as well, *)
LEMMA CreateV2Runs ==
    ASSUME NEW user \in Users, NEW mayhem, NEW cashback, NEW c, c.phase = "none"
    PROVE  Leaves(createV2Instruction(user, user, mayhem, cashback), c,
                  [c EXCEPT !.phase = "curve", !.token = TOKEN_2022_PROGRAM_ID, !.creator = user,
                             !.mayhem = mayhem, !.cashback = cashback, !.size = "new"])
  <1> DEFINE b == createV2Instruction(user, user, mayhem, cashback)
             rows == {IDL!Fixed("tokenProgram", IDL!RO, "Token2022"),
                      IDL!Fixed("mayhemProgramId", IDL!W, "mayhem"),
                      IDL!Derived("globalParams", IDL!RO, "mayhem", "global-params", <<>>),
                      IDL!Derived("solVault", IDL!W, "mayhem", "sol-vault", <<>>),
                      IDL!Derived("mayhemState", IDL!W, "mayhem", "mayhem-state", <<"mint">>)}
  <1>1. /\ b.op = "createV2" /\ b.rest = <<>>
        /\ DOMAIN b.given = {"mint", "user", "tokenProgram", "mayhemProgramId", "globalParams",
                             "solVault", "mayhemState", "mayhemTokenVault"}
        /\ b.given["mint"] = MINT /\ b.given["user"] = user
        /\ b.given["tokenProgram"] = TOKEN_2022_PROGRAM_ID
        /\ b.given["mayhemProgramId"] = Program("mayhem")
        /\ b.given["globalParams"] = getGlobalParamsPda /\ b.given["solVault"] = getSolVaultPda
        /\ b.given["mayhemState"] = getMayhemStatePda(MINT)
        /\ b.given["mayhemTokenVault"] = getTokenVaultPda(MINT)
        /\ b.args = [creator |-> user, mayhem |-> mayhem, cashback |-> cashback]
    BY DEF createV2Instruction, instruction
  <1> HIDE DEF b
  <1>2. IDL!Idl[b.op] = IDL!createV2
    BY <1>1 DEF IDL!Idl
  <1>3. Fillable(IDL!Idl[b.op], b.given) /\ Chosen(IDL!Idl[b.op], b.given, rows)
    BY <1>1, <1>2, CreateV2Table
  <1>4. ASSUME NEW acc, Resolved(b, acc, c) PROVE Chose(b, rows, acc, c)
    <2>1. /\ acc["mint"] = MINT /\ acc["user"] = user
          /\ acc["tokenProgram"] = TOKEN_2022_PROGRAM_ID
          /\ acc["mayhemProgramId"] = Program("mayhem")
          /\ acc["globalParams"] = getGlobalParamsPda /\ acc["solVault"] = getSolVaultPda
          /\ acc["mayhemState"] = getMayhemStatePda(MINT)
          /\ acc["mayhemTokenVault"] = getTokenVaultPda(MINT)
      BY <1>1, <1>4 DEF Resolved
    <2>2. \A n \in DOMAIN b.given :
            (\A row \in rows : row.name # n) => ChoiceHolds(n, b.op, acc, c)
      <3>1. \A n \in {"mint", "user", "mayhemTokenVault"} : ChoiceHolds(n, b.op, acc, c)
        BY <1>1, <2>1, UsersNamed DEF ChoiceHolds, Incentives
      <3>2. \A n \in {"tokenProgram", "mayhemProgramId", "globalParams", "solVault",
                        "mayhemState"} :
              \E row \in rows : row.name = n
        BY RowNames
      <3> QED BY <1>1, <3>1, <3>2
    <2>3. \A row \in rows : RowHolds(row, b.op, acc, c)
      <3>1. /\ RowHolds(IDL!Fixed("tokenProgram", IDL!RO, "Token2022"), b.op, acc, c)
            /\ RowHolds(IDL!Fixed("mayhemProgramId", IDL!W, "mayhem"), b.op, acc, c)
        BY <2>1, FixedRow DEF TOKEN_2022_PROGRAM_ID
      <3>2. RowHolds(IDL!Derived("globalParams", IDL!RO, "mayhem", "global-params", <<>>),
                     b.op, acc, c)
        BY <2>1, DerivedRow0 DEF getGlobalParamsPda
      <3>3. RowHolds(IDL!Derived("solVault", IDL!W, "mayhem", "sol-vault", <<>>), b.op, acc, c)
        BY <2>1, DerivedRow0 DEF getSolVaultPda
      <3>4. RowHolds(IDL!Derived("mayhemState", IDL!W, "mayhem", "mayhem-state", <<"mint">>),
                     b.op, acc, c)
        <4>1. "mint" \in DOMAIN acc
          BY <1>1, <1>4 DEF Resolved
        <4> QED BY <2>1, <4>1, DerivedRow1 DEF getMayhemStatePda, SeedOnChain
      <3> QED BY <3>1, <3>2, <3>3, <3>4
    <2>4. Covers(b.rest, RestNeeded(b.op, acc, c))
      BY <1>1, CoversSelf DEF RestNeeded
    <2>5. Ready(b, acc, c)
      BY <1>1, <2>1 DEF Ready
    <2> QED BY <2>2, <2>3, <2>4, <2>5 DEF Chose
  <1>5. List(b.rest) /\ c # Refused
    BY <1>1, NoList DEF Refused
  <1>6. PICK acc : Resolved(b, acc, c) /\ Leaves(b, c, Effect(b, acc, c))
    BY <1>3, <1>4, <1>5, Accepted
  <1>7. Effect(b, acc, c)
           = [c EXCEPT !.phase = "curve", !.token = TOKEN_2022_PROGRAM_ID, !.creator = user,
                       !.mayhem = mayhem, !.cashback = cashback, !.size = "new"]
    <2>1. acc["tokenProgram"] = TOKEN_2022_PROGRAM_ID
      BY <1>1, <1>6 DEF Resolved
    <2>2. /\ b.op = "createV2" /\ b.args.creator = user
          /\ b.args.mayhem = mayhem /\ b.args.cashback = cashback
      BY <1>1
    <2> QED BY <2>1, <2>2 DEF Effect
  <1> QED BY <1>6, <1>7 DEF b

(* the extension of its curve, *)
LEMMA ExtendRuns ==
    ASSUME NEW user \in Users, NEW c, c.phase # "none", c # Refused
    PROVE  Leaves(extendAccountInstruction(user), c, [c EXCEPT !.size = "new"])
  <1> DEFINE b == extendAccountInstruction(user)
  <1>1. /\ b.op = "extendAccount" /\ b.rest = <<>> /\ DOMAIN b.given = {"account", "user"}
        /\ b.given["account"] = bondingCurvePda(MINT) /\ b.given["user"] = user
    BY DEF extendAccountInstruction, instruction
  <1> HIDE DEF b
  <1>2. IDL!Idl[b.op] = IDL!extendAccount
    BY <1>1 DEF IDL!Idl
  <1>3. Fillable(IDL!Idl[b.op], b.given) /\ Chosen(IDL!Idl[b.op], b.given, {})
    BY <1>1, <1>2, ExtendTable
  <1>4. ASSUME NEW acc, Resolved(b, acc, c) PROVE Chose(b, {}, acc, c)
    <2>1. /\ acc["account"] = bondingCurvePda(MINT) /\ acc["user"] = user
      BY <1>1, <1>4 DEF Resolved
    <2>2. \A n \in DOMAIN b.given : ChoiceHolds(n, b.op, acc, c)
      BY <1>1, <2>1, UsersNamed DEF ChoiceHolds
    <2>3. Covers(b.rest, RestNeeded(b.op, acc, c))
      BY <1>1, CoversSelf DEF RestNeeded
    <2>4. Ready(b, acc, c)
      BY <1>1, <2>1 DEF Ready
    <2> QED BY <2>2, <2>3, <2>4 DEF Chose
  <1>5. List(b.rest) /\ c # Refused
    BY <1>1, NoList DEF Refused
  <1>6. PICK acc : Resolved(b, acc, c) /\ Leaves(b, c, Effect(b, acc, c))
    BY <1>3, <1>4, <1>5, Accepted
  <1>7. Effect(b, acc, c) = [c EXCEPT !.size = "new"]
    BY <1>1 DEF Effect
  <1> QED BY <1>6, <1>7 DEF b

(* the opening of a user's token account, *)
LEMMA AtaRuns ==
    ASSUME NEW user \in Users, NEW token, NEW c, c.phase # "none", c # Refused, c.token = token
    PROVE  Leaves(createAssociatedTokenAccountIdempotentInstruction(user, user, token), c,
                  [c EXCEPT !.ata = @ \cup {user}])
  <1> DEFINE b == createAssociatedTokenAccountIdempotentInstruction(user, user, token)
             rows == {IDL!AtaOf("ata", IDL!W, "wallet", "tokenProgram", "mint")}
  <1>1. /\ b.op = "createIdempotent" /\ b.rest = <<>>
        /\ DOMAIN b.given = {"funder", "ata", "wallet", "mint", "tokenProgram"}
        /\ b.given["funder"] = user
        /\ b.given["ata"] = getAssociatedTokenAddressSync(MINT, user, token)
        /\ b.given["wallet"] = user /\ b.given["mint"] = MINT /\ b.given["tokenProgram"] = token
    BY DEF createAssociatedTokenAccountIdempotentInstruction, instruction
  <1> HIDE DEF b
  <1>2. IDL!Idl[b.op] = IDL!createIdempotent
    BY <1>1 DEF IDL!Idl
  <1>3. Fillable(IDL!Idl[b.op], b.given) /\ Chosen(IDL!Idl[b.op], b.given, rows)
    BY <1>1, <1>2, AtaTable
  <1>4. ASSUME NEW acc, Resolved(b, acc, c) PROVE Chose(b, rows, acc, c)
    <2>1. /\ acc["funder"] = user /\ acc["ata"] = getAssociatedTokenAddressSync(MINT, user, token)
          /\ acc["wallet"] = user /\ acc["mint"] = MINT /\ acc["tokenProgram"] = token
      BY <1>1, <1>4 DEF Resolved
    <2>2. \A n \in DOMAIN b.given :
            (\A row \in rows : row.name # n) => ChoiceHolds(n, b.op, acc, c)
      <3>1. \A n \in {"funder", "wallet", "mint", "tokenProgram"} : ChoiceHolds(n, b.op, acc, c)
        BY <1>1, <2>1, UsersNamed DEF ChoiceHolds, TokenOf, Incentives, Wrapped
      <3>2. \E row \in rows : row.name = "ata"
        BY RowNames
      <3> QED BY <1>1, <3>1, <3>2
    <2>3. \A row \in rows : RowHolds(row, b.op, acc, c)
      <3>1. {"wallet", "tokenProgram", "mint"} \subseteq DOMAIN acc
        BY <1>1, <1>4 DEF Resolved
      <3> QED BY <2>1, <3>1, AtaRow DEF getAssociatedTokenAddressSync, SeedOnChain
    <2>4. Covers(b.rest, RestNeeded(b.op, acc, c))
      BY <1>1, CoversSelf DEF RestNeeded
    <2>5. Ready(b, acc, c)
      BY <1>1, <2>1 DEF Ready
    <2> QED BY <2>2, <2>3, <2>4, <2>5 DEF Chose
  <1>5. List(b.rest) /\ c # Refused
    BY <1>1, NoList DEF Refused
  <1>6. PICK acc : Resolved(b, acc, c) /\ Leaves(b, c, Effect(b, acc, c))
    BY <1>3, <1>4, <1>5, Accepted
  <1>7. Effect(b, acc, c) = [c EXCEPT !.ata = @ \cup {user}]
    <2>1. acc["wallet"] = user
      BY <1>1, <1>6 DEF Resolved
    <2> QED BY <1>1, <2>1 DEF Effect
  <1> QED BY <1>6, <1>7 DEF b

(* a buy on an extended curve, that names its creator and its fee *)
(* recipient,                                                     *)
LEMMA BuyRuns ==
    ASSUME NEW user \in Users, NEW fee, NEW creator, NEW token, NEW c, c.phase = "curve",
           c.size = "new", user \in c.ata, c.token = token, c.creator = creator,
           fee = getFeeRecipient(c.mayhem)
    PROVE  Leaves(getBuyInstructionInternal(user, creator, fee, token), c,
                  [c EXCEPT !.fees = @ \cup {creatorVaultPda(creator)}, !.uva = @ \cup {user}])
  <1> DEFINE b == getBuyInstructionInternal(user, creator, fee, token)
             rows == {IDL!CreatorVault(IDL!W)}
  <1>1. /\ b.op = "buy" /\ b.rest = TradeRest
        /\ DOMAIN b.given = {"feeRecipient", "mint", "user", "associatedUser", "creatorVault",
                             "tokenProgram"}
        /\ b.given["feeRecipient"] = fee /\ b.given["mint"] = MINT /\ b.given["user"] = user
        /\ b.given["associatedUser"] = getAssociatedTokenAddressSync(MINT, user, token)
        /\ b.given["creatorVault"] = creatorVaultPda(creator) /\ b.given["tokenProgram"] = token
    BY DEF getBuyInstructionInternal, instruction
  <1> HIDE DEF b
  <1>2. IDL!Idl[b.op] = IDL!buy
    BY <1>1 DEF IDL!Idl
  <1>3. Fillable(IDL!Idl[b.op], b.given) /\ Chosen(IDL!Idl[b.op], b.given, rows)
    BY <1>1, <1>2, BuyTable
  <1>4. ASSUME NEW acc, Resolved(b, acc, c) PROVE Chose(b, rows, acc, c)
    <2>1. /\ acc["feeRecipient"] = fee /\ acc["mint"] = MINT /\ acc["user"] = user
          /\ acc["associatedUser"] = getAssociatedTokenAddressSync(MINT, user, token)
          /\ acc["creatorVault"] = creatorVaultPda(creator) /\ acc["tokenProgram"] = token
      BY <1>1, <1>4 DEF Resolved
    <2>2. \A n \in DOMAIN b.given :
            (\A row \in rows : row.name # n) => ChoiceHolds(n, b.op, acc, c)
      <3>1. \A n \in {"feeRecipient", "mint", "user", "associatedUser", "tokenProgram"} :
              ChoiceHolds(n, b.op, acc, c)
        BY <1>1, <2>1, UsersNamed DEF ChoiceHolds, TokenOf, Incentives, Wrapped
      <3>2. \E row \in rows : row.name = "creatorVault"
        BY RowNames
      <3> QED BY <1>1, <3>1, <3>2
    <2>3. \A row \in rows : RowHolds(row, b.op, acc, c)
      BY <2>1, DerivedRow1 DEF IDL!CreatorVault, SeedOnChain, creatorVaultPda
    <2>4. Covers(b.rest, RestNeeded(b.op, acc, c))
      BY <1>1, <2>1, CoversSelf DEF RestNeeded
    <2>5. Ready(b, acc, c)
      BY <1>1, <2>1 DEF Ready
    <2> QED BY <2>2, <2>3, <2>4, <2>5 DEF Chose
  <1>5. List(b.rest) /\ c # Refused
    BY <1>1, TradeRestList DEF Refused
  <1>6. PICK acc : Resolved(b, acc, c) /\ Leaves(b, c, Effect(b, acc, c))
    BY <1>3, <1>4, <1>5, Accepted
  <1>7. Effect(b, acc, c)
           = [c EXCEPT !.fees = @ \cup {creatorVaultPda(creator)}, !.uva = @ \cup {user}]
    <2>1. /\ acc["user"] = user /\ acc["creatorVault"] = creatorVaultPda(creator)
      BY <1>1, <1>6 DEF Resolved
    <2> QED BY <1>1, <2>1 DEF Effect
  <1> QED BY <1>6, <1>7 DEF b

(* a sale on one, by a user with an accumulator when the coin pays *)
(* cashback,                                                       *)
LEMMA SellRuns ==
    ASSUME NEW user \in Users, NEW fee, NEW creator, NEW token, NEW cashback, NEW c,
           c.phase = "curve", c.size = "new", user \in c.ata, c.token = token,
           c.creator = creator, fee = getFeeRecipient(c.mayhem), cashback = c.cashback,
           c.cashback => user \in c.uva
    PROVE  Leaves(getSellInstructionInternal(user, creator, fee, token, cashback), c,
                  [c EXCEPT !.fees = @ \cup {creatorVaultPda(creator)}])
  <1> DEFINE b == getSellInstructionInternal(user, creator, fee, token, cashback)
             rows == {IDL!CreatorVault(IDL!W)}
  <1>1. /\ b.op = "sell"
        /\ b.rest = IF cashback THEN <<Meta(userVolumeAccumulatorPda(user), W)>> \o TradeRest ELSE
                             TradeRest
        /\ DOMAIN b.given = {"feeRecipient", "mint", "user", "associatedUser", "creatorVault",
                             "tokenProgram"}
        /\ b.given["feeRecipient"] = fee /\ b.given["mint"] = MINT /\ b.given["user"] = user
        /\ b.given["associatedUser"] = getAssociatedTokenAddressSync(MINT, user, token)
        /\ b.given["creatorVault"] = creatorVaultPda(creator) /\ b.given["tokenProgram"] = token
    BY DEF getSellInstructionInternal, instruction
  <1> HIDE DEF b
  <1>2. IDL!Idl[b.op] = IDL!sell
    BY <1>1 DEF IDL!Idl
  <1>3. Fillable(IDL!Idl[b.op], b.given) /\ Chosen(IDL!Idl[b.op], b.given, rows)
    BY <1>1, <1>2, SellTable
  <1>4. ASSUME NEW acc, Resolved(b, acc, c) PROVE Chose(b, rows, acc, c)
    <2>1. /\ acc["feeRecipient"] = fee /\ acc["mint"] = MINT /\ acc["user"] = user
          /\ acc["associatedUser"] = getAssociatedTokenAddressSync(MINT, user, token)
          /\ acc["creatorVault"] = creatorVaultPda(creator) /\ acc["tokenProgram"] = token
      BY <1>1, <1>4 DEF Resolved
    <2>2. \A n \in DOMAIN b.given :
            (\A row \in rows : row.name # n) => ChoiceHolds(n, b.op, acc, c)
      <3>1. \A n \in {"feeRecipient", "mint", "user", "associatedUser", "tokenProgram"} :
              ChoiceHolds(n, b.op, acc, c)
        BY <1>1, <2>1, UsersNamed DEF ChoiceHolds, TokenOf, Incentives, Wrapped
      <3>2. \E row \in rows : row.name = "creatorVault"
        BY RowNames
      <3> QED BY <1>1, <3>1, <3>2
    <2>3. \A row \in rows : RowHolds(row, b.op, acc, c)
      BY <2>1, DerivedRow1 DEF IDL!CreatorVault, SeedOnChain, creatorVaultPda
    <2>4. Covers(b.rest, RestNeeded(b.op, acc, c))
      BY <1>1, <2>1, CoversSelf DEF RestNeeded
    <2>5. Ready(b, acc, c)
      BY <1>1, <2>1 DEF Ready
    <2> QED BY <2>2, <2>3, <2>4, <2>5 DEF Chose
  <1>5. List(b.rest) /\ c # Refused
    BY <1>1, TradeRestList, CashbackRestList DEF Refused
  <1>6. PICK acc : Resolved(b, acc, c) /\ Leaves(b, c, Effect(b, acc, c))
    BY <1>3, <1>4, <1>5, Accepted
  <1>7. Effect(b, acc, c) = [c EXCEPT !.fees = @ \cup {creatorVaultPda(creator)}]
    <2>1. acc["creatorVault"] = creatorVaultPda(creator)
      BY <1>1, <1>6 DEF Resolved
    <2> QED BY <1>1, <2>1 DEF Effect
  <1> QED BY <1>6, <1>7 DEF b

(* the opening of an accumulator that is not there, *)
LEMMA InitRuns ==
    ASSUME NEW user \in Users, NEW c, c # Refused, user \notin c.uva
    PROVE  Leaves(initUserVolumeAccumulator(user, user)[1], c, [c EXCEPT !.uva = @ \cup {user}])
  <1> DEFINE b == initUserVolumeAccumulator(user, user)[1]
  <1>1. /\ b.op = "initUserVolumeAccumulator" /\ b.rest = <<>>
        /\ DOMAIN b.given = {"payer", "user"} /\ b.given["payer"] = user /\ b.given["user"] = user
    BY DEF initUserVolumeAccumulator, instruction
  <1> HIDE DEF b
  <1>2. IDL!Idl[b.op] = IDL!initUserVolumeAccumulator
    BY <1>1 DEF IDL!Idl
  <1>3. Fillable(IDL!Idl[b.op], b.given) /\ Chosen(IDL!Idl[b.op], b.given, {})
    BY <1>1, <1>2, InitAccumulatorTable
  <1>4. ASSUME NEW acc, Resolved(b, acc, c) PROVE Chose(b, {}, acc, c)
    <2>1. /\ acc["payer"] = user /\ acc["user"] = user
      BY <1>1, <1>4 DEF Resolved
    <2>2. \A n \in DOMAIN b.given : ChoiceHolds(n, b.op, acc, c)
      BY <1>1, <2>1, UsersNamed DEF ChoiceHolds
    <2>3. Covers(b.rest, RestNeeded(b.op, acc, c))
      BY <1>1, CoversSelf DEF RestNeeded
    <2>4. Ready(b, acc, c)
      BY <1>1, <2>1 DEF Ready
    <2> QED BY <2>2, <2>3, <2>4 DEF Chose
  <1>5. List(b.rest) /\ c # Refused
    BY <1>1, NoList DEF Refused
  <1>6. PICK acc : Resolved(b, acc, c) /\ Leaves(b, c, Effect(b, acc, c))
    BY <1>3, <1>4, <1>5, Accepted
  <1>7. Effect(b, acc, c) = [c EXCEPT !.uva = @ \cup {user}]
    <2>1. acc["user"] = user
      BY <1>1, <1>6 DEF Resolved
    <2> QED BY <1>1, <2>1 DEF Effect
  <1> QED BY <1>6, <1>7 DEF b

(* the synchronising of one that is, *)
LEMMA SyncRuns ==
    ASSUME NEW user \in Users, NEW c, c # Refused, user \in c.uva
    PROVE  Leaves(syncUserVolumeAccumulator(user)[1], c, c)
  <1> DEFINE b == syncUserVolumeAccumulator(user)[1]
  <1>1. /\ b.op = "syncUserVolumeAccumulator" /\ b.rest = <<>> /\ DOMAIN b.given = {"user"}
        /\ b.given["user"] = user
    BY DEF syncUserVolumeAccumulator, instruction
  <1> HIDE DEF b
  <1>2. IDL!Idl[b.op] = IDL!syncUserVolumeAccumulator
    BY <1>1 DEF IDL!Idl
  <1>3. Fillable(IDL!Idl[b.op], b.given) /\ Chosen(IDL!Idl[b.op], b.given, {})
    BY <1>1, <1>2, SyncAccumulatorTable
  <1>4. ASSUME NEW acc, Resolved(b, acc, c) PROVE Chose(b, {}, acc, c)
    <2>1. acc["user"] = user
      BY <1>1, <1>4 DEF Resolved
    <2>2. \A n \in DOMAIN b.given : ChoiceHolds(n, b.op, acc, c)
      BY <1>1, <2>1, UsersNamed DEF ChoiceHolds
    <2>3. Covers(b.rest, RestNeeded(b.op, acc, c))
      BY <1>1, CoversSelf DEF RestNeeded
    <2>4. Ready(b, acc, c)
      BY <1>1, <2>1 DEF Ready
    <2> QED BY <2>2, <2>3, <2>4 DEF Chose
  <1>5. List(b.rest) /\ c # Refused
    BY <1>1, NoList DEF Refused
  <1>6. PICK acc : Resolved(b, acc, c) /\ Leaves(b, c, Effect(b, acc, c))
    BY <1>3, <1>4, <1>5, Accepted
  <1>7. Effect(b, acc, c) = c
    BY <1>1 DEF Effect
  <1> QED BY <1>6, <1>7 DEF b

(* and its closing, *)
LEMMA CloseRuns ==
    ASSUME NEW user \in Users, NEW c, c # Refused, user \in c.uva
    PROVE  Leaves(closeUserVolumeAccumulator(user)[1], c, [c EXCEPT !.uva = @ \ {user}])
  <1> DEFINE b == closeUserVolumeAccumulator(user)[1]
  <1>1. /\ b.op = "closeUserVolumeAccumulator" /\ b.rest = <<>> /\ DOMAIN b.given = {"user"}
        /\ b.given["user"] = user
    BY DEF closeUserVolumeAccumulator, instruction
  <1> HIDE DEF b
  <1>2. IDL!Idl[b.op] = IDL!closeUserVolumeAccumulator
    BY <1>1 DEF IDL!Idl
  <1>3. Fillable(IDL!Idl[b.op], b.given) /\ Chosen(IDL!Idl[b.op], b.given, {})
    BY <1>1, <1>2, CloseAccumulatorTable
  <1>4. ASSUME NEW acc, Resolved(b, acc, c) PROVE Chose(b, {}, acc, c)
    <2>1. acc["user"] = user
      BY <1>1, <1>4 DEF Resolved
    <2>2. \A n \in DOMAIN b.given : ChoiceHolds(n, b.op, acc, c)
      BY <1>1, <2>1, UsersNamed DEF ChoiceHolds
    <2>3. Covers(b.rest, RestNeeded(b.op, acc, c))
      BY <1>1, CoversSelf DEF RestNeeded
    <2>4. Ready(b, acc, c)
      BY <1>1, <2>1 DEF Ready
    <2> QED BY <2>2, <2>3, <2>4 DEF Chose
  <1>5. List(b.rest) /\ c # Refused
    BY <1>1, NoList DEF Refused
  <1>6. PICK acc : Resolved(b, acc, c) /\ Leaves(b, c, Effect(b, acc, c))
    BY <1>3, <1>4, <1>5, Accepted
  <1>7. Effect(b, acc, c) = [c EXCEPT !.uva = @ \ {user}]
    <2>1. acc["user"] = user
      BY <1>1, <1>6 DEF Resolved
    <2> QED BY <1>1, <2>1 DEF Effect
  <1> QED BY <1>6, <1>7 DEF b

(* a claim of cashback, *)
LEMMA CashbackRuns ==
    ASSUME NEW user \in Users, NEW c, c # Refused, user \in c.uva
    PROVE  Leaves(claimCashbackInstruction(user), c, c)
  <1> DEFINE b == claimCashbackInstruction(user)
  <1>1. /\ b.op = "claimCashback" /\ b.rest = <<>> /\ DOMAIN b.given = {"user"}
        /\ b.given["user"] = user
    BY DEF claimCashbackInstruction, instruction
  <1> HIDE DEF b
  <1>2. IDL!Idl[b.op] = IDL!claimCashback
    BY <1>1 DEF IDL!Idl
  <1>3. Fillable(IDL!Idl[b.op], b.given) /\ Chosen(IDL!Idl[b.op], b.given, {})
    BY <1>1, <1>2, CashbackTable
  <1>4. ASSUME NEW acc, Resolved(b, acc, c) PROVE Chose(b, {}, acc, c)
    <2>1. acc["user"] = user
      BY <1>1, <1>4 DEF Resolved
    <2>2. \A n \in DOMAIN b.given : ChoiceHolds(n, b.op, acc, c)
      BY <1>1, <2>1, UsersNamed DEF ChoiceHolds
    <2>3. Covers(b.rest, RestNeeded(b.op, acc, c))
      BY <1>1, CoversSelf DEF RestNeeded
    <2>4. Ready(b, acc, c)
      BY <1>1, <2>1 DEF Ready
    <2> QED BY <2>2, <2>3, <2>4 DEF Chose
  <1>5. List(b.rest) /\ c # Refused
    BY <1>1, NoList DEF Refused
  <1>6. PICK acc : Resolved(b, acc, c) /\ Leaves(b, c, Effect(b, acc, c))
    BY <1>3, <1>4, <1>5, Accepted
  <1>7. Effect(b, acc, c) = c
    BY <1>1 DEF Effect
  <1> QED BY <1>6, <1>7 DEF b

(* and one of incentives, *)
LEMMA ClaimRuns ==
    ASSUME NEW user \in Users, NEW c, c # Refused, user \in c.uva
    PROVE  Leaves(claimTokenIncentives(user, user, TRUE)[1], c, c)
  <1> DEFINE b == claimTokenIncentives(user, user, TRUE)[1]
  <1>1. /\ b.op = "claimTokenIncentives" /\ b.rest = <<>>
        /\ DOMAIN b.given = {"user", "payer", "mint", "tokenProgram"} /\ b.given["user"] = user
        /\ b.given["payer"] = user /\ b.given["mint"] = PUMP_TOKEN_MINT
        /\ b.given["tokenProgram"] = TOKEN_2022_PROGRAM_ID
    BY DEF claimTokenIncentives, instruction
  <1> HIDE DEF b
  <1>2. IDL!Idl[b.op] = IDL!claimTokenIncentives
    BY <1>1 DEF IDL!Idl
  <1>3. Fillable(IDL!Idl[b.op], b.given) /\ Chosen(IDL!Idl[b.op], b.given, {})
    BY <1>1, <1>2, ClaimTable
  <1>4. ASSUME NEW acc, Resolved(b, acc, c) PROVE Chose(b, {}, acc, c)
    <2>1. /\ acc["user"] = user /\ acc["payer"] = user /\ acc["mint"] = PUMP_TOKEN_MINT
          /\ acc["tokenProgram"] = TOKEN_2022_PROGRAM_ID
      BY <1>1, <1>4 DEF Resolved
    <2>2. \A n \in DOMAIN b.given : ChoiceHolds(n, b.op, acc, c)
      BY <1>1, <2>1, UsersNamed DEF ChoiceHolds, Incentives, TokenOf
    <2>3. Covers(b.rest, RestNeeded(b.op, acc, c))
      BY <1>1, CoversSelf DEF RestNeeded
    <2>4. Ready(b, acc, c)
      BY <1>1, <2>1 DEF Ready
    <2> QED BY <2>2, <2>3, <2>4 DEF Chose
  <1>5. List(b.rest) /\ c # Refused
    BY <1>1, NoList DEF Refused
  <1>6. PICK acc : Resolved(b, acc, c) /\ Leaves(b, c, Effect(b, acc, c))
    BY <1>3, <1>4, <1>5, Accepted
  <1>7. Effect(b, acc, c) = c
    BY <1>1 DEF Effect
  <1> QED BY <1>6, <1>7 DEF b

(* and the setting of them, *)
LEMMA IncentivesRun ==
    ASSUME NEW c, c # Refused
    PROVE  Leaves(adminUpdateTokenIncentives(Authority)[1], c, c)
  <1> DEFINE b == adminUpdateTokenIncentives(Authority)[1]
  <1>1. /\ b.op = "adminUpdateTokenIncentives" /\ b.rest = <<>>
        /\ DOMAIN b.given = {"authority", "mint", "tokenProgram"}
        /\ b.given["authority"] = Authority /\ b.given["mint"] = PUMP_TOKEN_MINT
        /\ b.given["tokenProgram"] = TOKEN_2022_PROGRAM_ID
    BY DEF adminUpdateTokenIncentives, instruction
  <1> HIDE DEF b
  <1>2. IDL!Idl[b.op] = IDL!adminUpdateTokenIncentives
    BY <1>1 DEF IDL!Idl
  <1>3. Fillable(IDL!Idl[b.op], b.given) /\ Chosen(IDL!Idl[b.op], b.given, {})
    BY <1>1, <1>2, IncentivesTable
  <1>4. ASSUME NEW acc, Resolved(b, acc, c) PROVE Chose(b, {}, acc, c)
    <2>1. /\ acc["authority"] = Authority /\ acc["mint"] = PUMP_TOKEN_MINT
          /\ acc["tokenProgram"] = TOKEN_2022_PROGRAM_ID
      BY <1>1, <1>4 DEF Resolved
    <2>2. \A n \in DOMAIN b.given : ChoiceHolds(n, b.op, acc, c)
      BY <1>1, <2>1 DEF ChoiceHolds, Incentives, TokenOf
    <2>3. Covers(b.rest, RestNeeded(b.op, acc, c))
      BY <1>1, CoversSelf DEF RestNeeded
    <2>4. Ready(b, acc, c)
      BY <1>1, <2>1 DEF Ready
    <2> QED BY <2>2, <2>3, <2>4 DEF Chose
  <1>5. List(b.rest) /\ c # Refused
    BY <1>1, NoList DEF Refused
  <1>6. PICK acc : Resolved(b, acc, c) /\ Leaves(b, c, Effect(b, acc, c))
    BY <1>3, <1>4, <1>5, Accepted
  <1>7. Effect(b, acc, c) = c
    BY <1>1 DEF Effect
  <1> QED BY <1>6, <1>7 DEF b

(* another creator, *)
LEMMA CreatorRuns ==
    ASSUME NEW c, c # Refused, NEW b, b.op \in SetsCreator, b.rest = <<>>,
           b.args = [creator |-> Other],
           Fillable(IDL!Idl[b.op], b.given), Chosen(IDL!Idl[b.op], b.given, {}),
           \A acc : Resolved(b, acc, c) =>
                     Ready(b, acc, c) /\ \A n \in DOMAIN b.given : ChoiceHolds(n, b.op, acc, c)
    PROVE  /\ b.op = "adminSetCoinCreator" => Leaves(b, c, [c EXCEPT !.pool = Other])
           /\ b.op # "adminSetCoinCreator" => Leaves(b, c, [c EXCEPT !.creator = Other])
  <1>1. ASSUME NEW acc, Resolved(b, acc, c) PROVE Chose(b, {}, acc, c)
    <2>1. Covers(b.rest, RestNeeded(b.op, acc, c))
      BY CoversSelf DEF RestNeeded, SetsCreator
    <2> QED BY <1>1, <2>1 DEF Chose
  <1>2. PICK acc : Leaves(b, c, Effect(b, acc, c))
    BY <1>1, NoList, Accepted
  <1>3. b.args.creator = Other
    OBVIOUS
  <1> QED BY <1>2, <1>3 DEF Effect, SetsCreator

(* of a curve that is not shared, *)
LEMMA SetCreatorRuns ==
    ASSUME NEW c, c # Refused, c.token = TOKEN_PROGRAM_ID, ~isCreatorUsingSharingConfig(c.creator)
    PROVE  Leaves(setCreator(Authority, Other)[1], c, [c EXCEPT !.creator = Other])
  <1> DEFINE b == setCreator(Authority, Other)[1]
  <1>1. /\ b.op = "setCreator" /\ b.rest = <<>> /\ b.args = [creator |-> Other]
        /\ DOMAIN b.given = {"mint", "setCreatorAuthority"} /\ b.given["mint"] = MINT
        /\ b.given["setCreatorAuthority"] = Authority
    BY DEF setCreator, instruction
  <1> HIDE DEF b
  <1>2. IDL!Idl[b.op] = IDL!setCreator
    BY <1>1 DEF IDL!Idl
  <1>3. Fillable(IDL!Idl[b.op], b.given) /\ Chosen(IDL!Idl[b.op], b.given, {})
    BY <1>1, <1>2, SetCreatorTable
  <1>4. ASSUME NEW acc, Resolved(b, acc, c)
        PROVE  Ready(b, acc, c) /\ \A n \in DOMAIN b.given : ChoiceHolds(n, b.op, acc, c)
    <2>1. acc["mint"] = MINT /\ acc["setCreatorAuthority"] = Authority
      BY <1>1, <1>4 DEF Resolved
    <2> QED BY <1>1, <2>1 DEF ChoiceHolds, Incentives, Ready
  <1>5. b.op \in SetsCreator /\ b.op # "adminSetCoinCreator"
    BY <1>1 DEF SetsCreator
  <1>6. Leaves(b, c, [c EXCEPT !.creator = Other])
    BY <1>1, <1>3, <1>4, <1>5, CreatorRuns, Zenon
  <1> QED BY <1>6 DEF b

(* of one by the admin, *)
LEMMA AdminSetCreatorRuns ==
    ASSUME NEW c, c # Refused, c.phase # "none", ~isCreatorUsingSharingConfig(c.creator)
    PROVE  Leaves(adminSetCoinCreatorInstructions(Authority, Other)[1], c,
                  [c EXCEPT !.creator = Other])
  <1> DEFINE b == adminSetCoinCreatorInstructions(Authority, Other)[1]
  <1>1. /\ b.op = "adminSetCreator" /\ b.rest = <<>> /\ b.args = [creator |-> Other]
        /\ DOMAIN b.given = {"mint", "adminSetCreatorAuthority"} /\ b.given["mint"] = MINT
        /\ b.given["adminSetCreatorAuthority"] = Authority
    BY DEF adminSetCoinCreatorInstructions, instruction
  <1> HIDE DEF b
  <1>2. IDL!Idl[b.op] = IDL!adminSetCreator
    BY <1>1 DEF IDL!Idl
  <1>3. Fillable(IDL!Idl[b.op], b.given) /\ Chosen(IDL!Idl[b.op], b.given, {})
    BY <1>1, <1>2, AdminSetCreatorTable
  <1>4. ASSUME NEW acc, Resolved(b, acc, c)
        PROVE  Ready(b, acc, c) /\ \A n \in DOMAIN b.given : ChoiceHolds(n, b.op, acc, c)
    <2>1. acc["mint"] = MINT /\ acc["adminSetCreatorAuthority"] = Authority
      BY <1>1, <1>4 DEF Resolved
    <2> QED BY <1>1, <2>1 DEF ChoiceHolds, Incentives, Ready
  <1>5. b.op \in SetsCreator /\ b.op # "adminSetCoinCreator"
    BY <1>1 DEF SetsCreator
  <1>6. Leaves(b, c, [c EXCEPT !.creator = Other])
    BY <1>1, <1>3, <1>4, <1>5, CreatorRuns, Zenon
  <1> QED BY <1>6 DEF b

(* and of its pool, *)
LEMMA AdminSetCoinCreatorRuns ==
    ASSUME NEW c, c # Refused, Graduated(c), ~isCreatorUsingSharingConfig(c.pool)
    PROVE  Leaves(adminSetCoinCreatorInstructions(Authority, Other)[2], c,
                  [c EXCEPT !.pool = Other])
  <1> DEFINE b == adminSetCoinCreatorInstructions(Authority, Other)[2]
  <1>1. /\ b.op = "adminSetCoinCreator" /\ b.rest = <<>> /\ b.args = [creator |-> Other]
        /\ DOMAIN b.given = {"adminSetCoinCreatorAuthority", "globalConfig", "pool"}
        /\ b.given["adminSetCoinCreatorAuthority"] = Authority
        /\ b.given["globalConfig"] = ammGlobalConfigPda
        /\ b.given["pool"] = canonicalPumpPoolPda(MINT)
    BY DEF adminSetCoinCreatorInstructions, instruction
  <1> HIDE DEF b
  <1>2. IDL!Idl[b.op] = IDL!adminSetCoinCreator
    BY <1>1 DEF IDL!Idl
  <1>3. Fillable(IDL!Idl[b.op], b.given) /\ Chosen(IDL!Idl[b.op], b.given, {})
    BY <1>1, <1>2, AdminSetCoinCreatorTable
  <1>4. ASSUME NEW acc, Resolved(b, acc, c)
        PROVE  Ready(b, acc, c) /\ \A n \in DOMAIN b.given : ChoiceHolds(n, b.op, acc, c)
    <2>1. /\ acc["adminSetCoinCreatorAuthority"] = Authority
          /\ acc["globalConfig"] = ammGlobalConfigPda /\ acc["pool"] = canonicalPumpPoolPda(MINT)
      BY <1>1, <1>4 DEF Resolved
    <2> QED BY <1>1, <2>1 DEF ChoiceHolds, Ready
  <1>5. b.op \in SetsCreator /\ b.op = "adminSetCoinCreator"
    BY <1>1 DEF SetsCreator
  <1>6. Leaves(b, c, [c EXCEPT !.pool = Other])
    BY <1>1, <1>3, <1>4, <1>5, CreatorRuns, Zenon
  <1> QED BY <1>6 DEF b

(* the creator's sharing configuration, that names the pool once there is *)
(* one,                                                                   *)
LEMMA ShareRuns ==
    ASSUME NEW user \in Users, NEW c, c # Refused, ~HasShares(c), c.creator = user, NEW pool,
           Graduated(c) => pool = canonicalPumpPoolPda(MINT)
    PROVE  \E owner, p : Leaves(createFeeSharingConfig(user, pool), c,
                  [c EXCEPT !.creator = owner, !.shares = FirstShares(user), !.pool = p])
  <1> DEFINE b == createFeeSharingConfig(user, pool)
  <1>1. /\ b.op = "createFeeSharingConfig" /\ b.rest = <<>>
        /\ DOMAIN b.given = {"payer", "mint", "pool"} /\ b.given["payer"] = user
        /\ b.given["mint"] = MINT /\ b.given["pool"] = pool
    BY DEF createFeeSharingConfig, instruction
  <1> HIDE DEF b
  <1>2. IDL!Idl[b.op] = IDL!createFeeSharingConfig
    BY <1>1 DEF IDL!Idl
  <1>3. Fillable(IDL!Idl[b.op], b.given) /\ Chosen(IDL!Idl[b.op], b.given, {})
    BY <1>1, <1>2, ShareTable
  <1>4. ASSUME NEW acc, Resolved(b, acc, c) PROVE Chose(b, {}, acc, c)
    <2>1. /\ acc["payer"] = user /\ acc["mint"] = MINT /\ acc["pool"] = pool
      BY <1>1, <1>4 DEF Resolved
    <2>2. \A n \in DOMAIN b.given : ChoiceHolds(n, b.op, acc, c)
      BY <1>1, <2>1, UsersNamed DEF ChoiceHolds, Incentives
    <2>3. Covers(b.rest, RestNeeded(b.op, acc, c))
      BY <1>1, CoversSelf DEF RestNeeded
    <2>4. Ready(b, acc, c)
      BY <1>1, <2>1 DEF Ready
    <2> QED BY <2>2, <2>3, <2>4 DEF Chose
  <1>5. List(b.rest) /\ c # Refused
    BY <1>1, NoList DEF Refused
  <1>6. PICK acc : Resolved(b, acc, c) /\ Leaves(b, c, Effect(b, acc, c))
    BY <1>3, <1>4, <1>5, Accepted
  <1>7. Effect(b, acc, c) = [c EXCEPT !.creator = acc.sharingConfig, !.shares = FirstShares(user),
                                      !.pool = IF Graduated(c) THEN acc.sharingConfig ELSE c.pool]
    <2>1. acc["payer"] = user
      BY <1>1, <1>6 DEF Resolved
    <2> QED BY <1>1, <2>1 DEF Effect
  <1> WITNESS acc.sharingConfig, IF Graduated(c) THEN acc.sharingConfig ELSE c.pool
  <1> QED BY <1>6, <1>7 DEF b

(* the account of a social recipient, *)
LEMMA SocialRuns ==
    ASSUME NEW user \in Users, NEW userId, NEW platform, NEW c, c # Refused
    PROVE  Leaves(createSocialFeePda(user, userId, platform), c,
                  [c EXCEPT !.social = @ \cup {socialFeePda(userId, platform)}])
  <1> DEFINE b == createSocialFeePda(user, userId, platform)
  <1>1. /\ b.op = "createSocialFeePda" /\ b.rest = <<>>
        /\ DOMAIN b.given = {"payer", "socialFeePda"} /\ b.given["payer"] = user
        /\ b.given["socialFeePda"] = socialFeePda(userId, platform)
    BY DEF createSocialFeePda, instruction
  <1> HIDE DEF b
  <1>2. IDL!Idl[b.op] = IDL!createSocialFeePda
    BY <1>1 DEF IDL!Idl
  <1>3. Fillable(IDL!Idl[b.op], b.given) /\ Chosen(IDL!Idl[b.op], b.given, {})
    BY <1>1, <1>2, SocialPdaTable
  <1>4. ASSUME NEW acc, Resolved(b, acc, c) PROVE Chose(b, {}, acc, c)
    <2>1. /\ acc["payer"] = user /\ acc["socialFeePda"] = socialFeePda(userId, platform)
      BY <1>1, <1>4 DEF Resolved
    <2>2. \A n \in DOMAIN b.given : ChoiceHolds(n, b.op, acc, c)
      BY <1>1, <2>1, UsersNamed, SocialNamed DEF ChoiceHolds
    <2>3. Covers(b.rest, RestNeeded(b.op, acc, c))
      BY <1>1, CoversSelf DEF RestNeeded
    <2>4. Ready(b, acc, c)
      BY <1>1, <2>1 DEF Ready
    <2> QED BY <2>2, <2>3, <2>4 DEF Chose
  <1>5. List(b.rest) /\ c # Refused
    BY <1>1, NoList DEF Refused
  <1>6. PICK acc : Resolved(b, acc, c) /\ Leaves(b, c, Effect(b, acc, c))
    BY <1>3, <1>4, <1>5, Accepted
  <1>7. Effect(b, acc, c) = [c EXCEPT !.social = @ \cup {socialFeePda(userId, platform)}]
    <2>1. acc["socialFeePda"] = socialFeePda(userId, platform)
      BY <1>1, <1>6 DEF Resolved
    <2> QED BY <1>1, <2>1 DEF Effect
  <1> QED BY <1>6, <1>7 DEF b

(* the admin's new shares, when they are whole and may still be set, *)
LEMMA UpdateRuns ==
    ASSUME NEW user, NEW shares, ValidShares(shares), NEW c, Alive(c), List(c.shares.holders),
           HasShares(c), c.shares.admin = user, isSharingConfigEditable(c.shares)
    PROVE  \E d : Leaves(updateFeeShares(user, Addresses(c.shares.holders), shares), c, d)
                  /\ d # Refused
  <1> DEFINE b == updateFeeShares(user, Addresses(c.shares.holders), shares)
  <1>1. /\ b.op = "updateFeeShares" /\ b.rest = Writable(Addresses(c.shares.holders))
        /\ DOMAIN b.given = {"authority", "mint", "coinCreatorVaultAta"}
        /\ b.given["authority"] = user /\ b.given["mint"] = MINT
        /\ b.given["coinCreatorVaultAta"] = ammVaultAta(Config) /\ b.args = [shares |-> shares]
    BY DEF updateFeeShares, Config, instruction
  <1> HIDE DEF b
  <1>2. IDL!Idl[b.op] = IDL!updateFeeShares
    BY <1>1 DEF IDL!Idl
  <1>3. Fillable(IDL!Idl[b.op], b.given) /\ Chosen(IDL!Idl[b.op], b.given, {})
    BY <1>1, <1>2, UpdateTable
  <1>4. ASSUME NEW acc, Resolved(b, acc, c) PROVE Chose(b, {}, acc, c)
    <2>1. /\ acc["authority"] = user /\ acc["mint"] = MINT
          /\ acc["coinCreatorVaultAta"] = ammVaultAta(Config)
      BY <1>1, <1>4 DEF Resolved
    <2>2. \A n \in DOMAIN b.given : ChoiceHolds(n, b.op, acc, c)
      BY <1>1, <2>1 DEF ChoiceHolds, Incentives
    <2>3. Covers(b.rest, RestNeeded(b.op, acc, c))
      BY <1>1, CoversSelf DEF RestNeeded
    <2>4. Ready(b, acc, c)
      BY <1>1, <2>1 DEF Ready
    <2> QED BY <2>2, <2>3, <2>4 DEF Chose
  <1>5. List(b.rest) /\ c # Refused
    BY <1>1, WritableList DEF Alive, Refused
  <1>6. PICK acc : Resolved(b, acc, c) /\ Leaves(b, c, Effect(b, acc, c))
    BY <1>3, <1>4, <1>5, Accepted
  <1>7. Effect(b, acc, c) # Refused
    <2>1. \A fees, new : [c EXCEPT !.fees = fees, !.shares = new] # Refused
      BY DEF Alive, Refused
    <2> QED BY <1>1, <2>1 DEF Effect
  <1> QED BY <1>6, <1>7 DEF b

(* and the question what the shareholders may be paid. *)
LEMMA MinimumRuns ==
    ASSUME NEW c, c # Refused, List(c.shares.holders), HasShares(c), c.creator = Config
    PROVE  Leaves(getMinimumDistributableFee(Addresses(c.shares.holders)), c, c)
  <1> DEFINE b == getMinimumDistributableFee(Addresses(c.shares.holders))
             rows == {IDL!CreatorVault(IDL!RO)}
  <1>1. /\ b.op = "getMinimumDistributableFee" /\ b.rest = Writable(Addresses(c.shares.holders))
        /\ DOMAIN b.given = {"mint", "creatorVault"} /\ b.given["mint"] = MINT
        /\ b.given["creatorVault"] = creatorVaultPda(Config)
    BY DEF getMinimumDistributableFee, Config, instruction
  <1> HIDE DEF b
  <1>2. IDL!Idl[b.op] = IDL!getMinimumDistributableFee
    BY <1>1 DEF IDL!Idl
  <1>3. Fillable(IDL!Idl[b.op], b.given) /\ Chosen(IDL!Idl[b.op], b.given, rows)
    BY <1>1, <1>2, MinimumTable
  <1>4. ASSUME NEW acc, Resolved(b, acc, c) PROVE Chose(b, rows, acc, c)
    <2>1. /\ acc["mint"] = MINT /\ acc["creatorVault"] = creatorVaultPda(Config)
      BY <1>1, <1>4 DEF Resolved
    <2>2. \A n \in DOMAIN b.given :
            (\A row \in rows : row.name # n) => ChoiceHolds(n, b.op, acc, c)
      <3>1. ChoiceHolds("mint", b.op, acc, c)
        BY <1>1, <2>1 DEF ChoiceHolds, Incentives
      <3>2. \E row \in rows : row.name = "creatorVault"
        BY RowNames
      <3> QED BY <1>1, <3>1, <3>2
    <2>3. \A row \in rows : RowHolds(row, b.op, acc, c)
      BY <2>1, DerivedRow1 DEF IDL!CreatorVault, SeedOnChain, creatorVaultPda
    <2>4. Covers(b.rest, RestNeeded(b.op, acc, c))
      BY <1>1, CoversSelf DEF RestNeeded
    <2>5. Ready(b, acc, c)
      BY <1>1, <2>1 DEF Ready
    <2> QED BY <2>2, <2>3, <2>4, <2>5 DEF Chose
  <1>5. List(b.rest) /\ c # Refused
    BY <1>1, WritableList DEF Refused
  <1>6. PICK acc : Resolved(b, acc, c) /\ Leaves(b, c, Effect(b, acc, c))
    BY <1>3, <1>4, <1>5, Accepted
  <1>7. Effect(b, acc, c) = c
    BY <1>1 DEF Effect
  <1> QED BY <1>6, <1>7 DEF b

(* A migration finds its pool from these rows of its list, *)
LEMMA MigrateRows ==
  /\ {4, 10, 11, 15} \subseteq DOMAIN IDL!migrate
  /\ IDL!migrate[4] = IDL!BondingCurve(IDL!W)
  /\ IDL!migrate[10] = IDL!Derived("pool", IDL!W, "pumpAmm", "pool",
                                   <<"poolAuthority", "mint", "wsolMint">>)
  /\ IDL!migrate[11] = IDL!Derived("poolAuthority", IDL!W, "pump", "pool-authority", <<"mint">>)
  /\ IDL!migrate[15] = IDL!Fixed("wsolMint", IDL!RO, "wsol")
  BY DEF IDL!migrate, IDL!MigrateCurve, IDL!MigratePool, IDL!MigrateReserves, IDL!MigrateEvents,
         IDL!Events

(* which lead to the pool the SDK derives, *)
LEMMA PoolFound ==
    ASSUME NEW b, NEW acc, NEW c, b.op = "migrate", Resolved(b, acc, c),
           DOMAIN b.given = {"mint", "user", "withdrawAuthority", "associatedBondingCurve",
                             "poolAuthorityMintAccount", "poolBaseTokenAccount"},
           b.given["mint"] = MINT
    PROVE  /\ {"mint", "bondingCurve", "poolAuthority", "pool"} \subseteq DOMAIN acc
           /\ acc["mint"] = MINT /\ acc["bondingCurve"] = bondingCurvePda(MINT)
           /\ acc["poolAuthority"] = pumpPoolAuthorityPda(MINT)
           /\ acc["pool"] = canonicalPumpPoolPda(MINT)
  <1> DEFINE idl == IDL!migrate
             pool == IDL!Derived("pool", IDL!W, "pumpAmm", "pool",
                                 <<"poolAuthority", "mint", "wsolMint">>)
  <1>1. IDL!Idl[b.op] = idl
    BY DEF IDL!Idl
  <1>2. /\ {4, 10, 11, 15} \subseteq DOMAIN idl /\ idl[4] = IDL!BondingCurve(IDL!W)
        /\ idl[10] = pool
        /\ idl[11] = IDL!Derived("poolAuthority", IDL!W, "pump", "pool-authority", <<"mint">>)
        /\ idl[15] = IDL!Fixed("wsolMint", IDL!RO, "wsol")
    BY MigrateRows
  <1> HIDE DEF idl, pool
  <1>3. /\ idl[4].name = "bondingCurve" /\ idl[10].name = "pool"
        /\ idl[11].name = "poolAuthority" /\ idl[15].name = "wsolMint"
    BY <1>2, RowNames, DerivedName, FixedName DEF pool
  <1>4. {"mint", "bondingCurve", "poolAuthority", "pool", "wsolMint"} \subseteq DOMAIN acc
    BY <1>1, <1>2, <1>3 DEF Resolved, Names
  <1>5. \A i \in {4, 10, 11, 15} : RowHolds(idl[i], b.op, acc, c)
    BY <1>1, <1>2, <1>3 DEF Resolved
  <1>6. acc["mint"] = MINT
    BY DEF Resolved
  <1>7. SeedOnChain("mint", acc, c) = MINT
    BY <1>4, <1>6 DEF SeedOnChain
  <1>8. acc["bondingCurve"] = bondingCurvePda(MINT)
    <2>1. RowHolds(IDL!Derived("bondingCurve", IDL!W, "pump", "bonding-curve", <<"mint">>),
                   b.op, acc, c)
      BY <1>2, <1>5 DEF IDL!BondingCurve
    <2> QED BY <1>7, <2>1, DerivedHolds1 DEF bondingCurvePda
  <1>9. acc["poolAuthority"] = pumpPoolAuthorityPda(MINT)
    <2>1. RowHolds(IDL!Derived("poolAuthority", IDL!W, "pump", "pool-authority", <<"mint">>),
                   b.op, acc, c)
      BY <1>2, <1>5
    <2> QED BY <1>7, <2>1, DerivedHolds1 DEF pumpPoolAuthorityPda
  <1>10. acc["wsolMint"] = NATIVE_MINT
    <2>1. RowHolds(IDL!Fixed("wsolMint", IDL!RO, "wsol"), b.op, acc, c)
      BY <1>2, <1>5
    <2> QED BY <2>1, FixedHolds DEF NATIVE_MINT
  <1>11. acc["pool"] = canonicalPumpPoolPda(MINT)
    <2> DEFINE seeds == <<"poolAuthority", "mint", "wsolMint">>
    <2>1. RowHolds(pool, b.op, acc, c)
      BY <1>2, <1>5
    <2>2. acc["pool"] = Pda("pumpAmm", "pool",
                            [i \in DOMAIN seeds |-> SeedOnChain(seeds[i], acc, c)])
      BY <2>1, DerivedHolds DEF pool
    <2>3. [i \in DOMAIN seeds |-> SeedOnChain(seeds[i], acc, c)]
            = <<SeedOnChain("poolAuthority", acc, c), SeedOnChain("mint", acc, c),
                SeedOnChain("wsolMint", acc, c)>>
      OBVIOUS
    <2>4. /\ SeedOnChain("poolAuthority", acc, c) = pumpPoolAuthorityPda(MINT)
          /\ SeedOnChain("wsolMint", acc, c) = NATIVE_MINT
      BY <1>4, <1>9, <1>10 DEF SeedOnChain
    <2> QED BY <1>7, <2>2, <2>3, <2>4 DEF canonicalPumpPoolPda
  <1> QED BY <1>4, <1>6, <1>8, <1>9, <1>11

(* so the program accepts the migration of a complete curve. *)
LEMMA MigrateRuns ==
    ASSUME NEW user \in Users, NEW token, NEW c, c.phase = "complete", c.token = token
    PROVE  Leaves(migrateInstruction(Authority, user, token), c,
                  [c EXCEPT !.phase = "amm", !.pool = c.creator])
  <1> DEFINE b == migrateInstruction(Authority, user, token)
             rows == {IDL!AssociatedBondingCurve("mint.owner"),
                      IDL!AtaOf("poolAuthorityMintAccount", IDL!W, "poolAuthority",
                                "mint.owner", "mint"),
                      IDL!AtaOf("poolBaseTokenAccount", IDL!W, "pool", "mint.owner", "mint")}
  <1>1. /\ b.op = "migrate" /\ b.rest = <<>>
        /\ DOMAIN b.given = {"mint", "user", "withdrawAuthority", "associatedBondingCurve",
                             "poolAuthorityMintAccount", "poolBaseTokenAccount"}
        /\ b.given["mint"] = MINT /\ b.given["user"] = user
        /\ b.given["withdrawAuthority"] = Authority
        /\ b.given["associatedBondingCurve"]
             = getAssociatedTokenAddressSync(MINT, bondingCurvePda(MINT), token)
        /\ b.given["poolAuthorityMintAccount"]
             = getAssociatedTokenAddressSync(MINT, pumpPoolAuthorityPda(MINT), token)
        /\ b.given["poolBaseTokenAccount"]
             = getAssociatedTokenAddressSync(MINT, canonicalPumpPoolPda(MINT), token)
    BY DEF migrateInstruction, instruction
  <1> HIDE DEF b
  <1>2. IDL!Idl[b.op] = IDL!migrate
    BY <1>1 DEF IDL!Idl
  <1>3. Fillable(IDL!Idl[b.op], b.given) /\ Chosen(IDL!Idl[b.op], b.given, rows)
    BY <1>1, <1>2, MigrateTable
  <1>4. ASSUME NEW acc, Resolved(b, acc, c) PROVE Chose(b, rows, acc, c)
    <2>1. /\ acc["mint"] = MINT /\ acc["user"] = user /\ acc["withdrawAuthority"] = Authority
          /\ acc["associatedBondingCurve"]
               = getAssociatedTokenAddressSync(MINT, bondingCurvePda(MINT), token)
          /\ acc["poolAuthorityMintAccount"]
               = getAssociatedTokenAddressSync(MINT, pumpPoolAuthorityPda(MINT), token)
          /\ acc["poolBaseTokenAccount"]
               = getAssociatedTokenAddressSync(MINT, canonicalPumpPoolPda(MINT), token)
      BY <1>1, <1>4 DEF Resolved
    <2>2. \A n \in DOMAIN b.given :
            (\A row \in rows : row.name # n) => ChoiceHolds(n, b.op, acc, c)
      <3>1. \A n \in {"mint", "user", "withdrawAuthority"} : ChoiceHolds(n, b.op, acc, c)
        BY <1>1, <2>1, UsersNamed DEF ChoiceHolds, Incentives
      <3>2. \A n \in {"associatedBondingCurve", "poolAuthorityMintAccount",
                        "poolBaseTokenAccount"} : \E row \in rows : row.name = n
        BY RowNames, DerivedName DEF IDL!AtaOf
      <3> QED BY <1>1, <3>1, <3>2
    <2>3. \A row \in rows : RowHolds(row, b.op, acc, c)
      <3>1. /\ {"mint", "bondingCurve", "poolAuthority", "pool"} \subseteq DOMAIN acc
            /\ acc["bondingCurve"] = bondingCurvePda(MINT)
            /\ acc["poolAuthority"] = pumpPoolAuthorityPda(MINT)
            /\ acc["pool"] = canonicalPumpPoolPda(MINT)
        BY <1>1, <1>4, PoolFound
      <3>2. /\ SeedOnChain("mint", acc, c) = MINT /\ SeedOnChain("mint.owner", acc, c) = token
            /\ SeedOnChain("bondingCurve", acc, c) = bondingCurvePda(MINT)
            /\ SeedOnChain("poolAuthority", acc, c) = pumpPoolAuthorityPda(MINT)
            /\ SeedOnChain("pool", acc, c) = canonicalPumpPoolPda(MINT)
        BY <2>1, <3>1 DEF SeedOnChain
      <3>3. RowHolds(IDL!AssociatedBondingCurve("mint.owner"), b.op, acc, c)
        BY <2>1, <3>2, AtaRow DEF IDL!AssociatedBondingCurve, getAssociatedTokenAddressSync
      <3>4. RowHolds(IDL!AtaOf("poolAuthorityMintAccount", IDL!W, "poolAuthority", "mint.owner",
                               "mint"), b.op, acc, c)
        BY <2>1, <3>2, AtaRow DEF getAssociatedTokenAddressSync
      <3>5. RowHolds(IDL!AtaOf("poolBaseTokenAccount", IDL!W, "pool", "mint.owner", "mint"),
                     b.op, acc, c)
        BY <2>1, <3>2, AtaRow DEF getAssociatedTokenAddressSync
      <3> QED BY <3>3, <3>4, <3>5
    <2>4. Covers(b.rest, RestNeeded(b.op, acc, c))
      BY <1>1, CoversSelf DEF RestNeeded
    <2>5. Ready(b, acc, c)
      BY <1>1, <2>1 DEF Ready
    <2> QED BY <2>2, <2>3, <2>4, <2>5 DEF Chose
  <1>5. List(b.rest) /\ c # Refused
    BY <1>1, NoList DEF Refused
  <1>6. PICK acc : Resolved(b, acc, c) /\ Leaves(b, c, Effect(b, acc, c))
    BY <1>3, <1>4, <1>5, Accepted
  <1>7. Effect(b, acc, c) = [c EXCEPT !.phase = "amm", !.pool = c.creator]
    BY <1>1 DEF Effect
  <1> QED BY <1>6, <1>7 DEF b

------------------------------------------------------------------------------
(***************************************************************************)
(* What several instructions do, one after the other.                      *)
(***************************************************************************)

(* A list of instructions that leads the coin from c to d. *)
Leads(bs, c, d) ==
  /\ List(bs)
  /\ \E g : /\ g[0] = c /\ g[Len(bs)] = d
            /\ \A i \in 1 .. Len(bs) : Leaves(bs[i], g[i - 1], g[i])

(* It is what a transaction that holds the list leaves behind. *)
LEMMA LeadsLanded ==
    ASSUME NEW bs, NEW c, NEW d, Leads(bs, c, d)
    PROVE  Landed(c, Instructions(bs)) = d
  <1>1. PICK g : /\ g[0] = c /\ g[Len(bs)] = d
                 /\ \A i \in 1 .. Len(bs) : Leaves(bs[i], g[i - 1], g[i])
    BY DEF Leads
  <1>2. PICK S : bs \in Seq(S)
    BY DEF Leads, List
  <1> DEFINE ixs == Instructions(bs)
             n == Len(bs)
  <1>3. /\ n \in Nat /\ Len(ixs) = n
        /\ \A i \in 1 .. n : /\ ixs[i] = FilledIn(bs[i], IDL!Idl[bs[i].op])
                             /\ ixs[i].op = bs[i].op
    BY <1>2, InstructionsAre
  <1> HIDE DEF ixs, n
  <1>4. PICK f : /\ f = [i \in 0 .. Len(ixs) |->
                           IF i = 0 THEN c ELSE Run(f[i - 1], ixs[i], IDL!Idl[ixs[i].op])]
                 /\ Landed(c, ixs) = f[Len(ixs)]
    <2>1. Len(ixs) \in Nat
      BY <1>3
    <2> QED BY <2>1, LandedIs, Zenon
  <1>5. /\ f[0] = c
        /\ \A i \in 1 .. n : f[i] = Run(f[i - 1], ixs[i], IDL!Idl[ixs[i].op])
    <2>1. 0 \in 0 .. n /\ \A i \in 1 .. n : i \in 0 .. n /\ i # 0
      BY <1>3
    <2> QED BY <1>3, <1>4, <2>1
  <1>6. \A i \in 1 .. n : Run(g[i - 1], ixs[i], IDL!Idl[ixs[i].op]) = g[i]
    <2> TAKE i \in 1 .. n
    <2>1. Leaves(bs[i], g[i - 1], g[i])
      BY <1>1 DEF n
    <2>2. Run(g[i - 1], FilledIn(bs[i], IDL!Idl[bs[i].op]), IDL!Idl[bs[i].op]) = g[i]
      BY <2>1 DEF Leaves
    <2> QED BY <1>3, <2>2
  <1> DEFINE T == {i \in Nat : i <= n => f[i] = g[i]}
  <1>7. 0 \in T
    BY <1>1, <1>5
  <1>8. ASSUME NEW i \in T PROVE i + 1 \in T
    <2>1. i + 1 \in Nat /\ (i + 1 <= n => i + 1 \in 1 .. n /\ i <= n /\ (i + 1) - 1 = i)
      BY <1>3
    <2>2. ASSUME i + 1 <= n PROVE f[i + 1] = g[i + 1]
      <3>1. f[i] = g[i]
        BY <2>1, <2>2
      <3> QED BY <1>5, <1>6, <2>1, <2>2, <3>1
    <2> QED BY <2>1, <2>2
  <1> HIDE DEF T
  <1>9. T = Nat
    <2>1. T \subseteq Nat
      BY DEF T
    <2> QED BY <1>7, <1>8, <2>1, Inductive
  <1>10. f[n] = g[n]
    BY <1>3, <1>9 DEF T
  <1> QED BY <1>1, <1>3, <1>4, <1>10 DEF ixs, n

(* One instruction leads where it leaves the coin, *)
LEMMA LeadsOne ==
    ASSUME NEW b, NEW c, NEW d, Leaves(b, c, d)
    PROVE  Leads(<<b>>, c, d)
  <1> DEFINE g == [i \in 0 .. 1 |-> IF i = 0 THEN c ELSE d]
             bs == <<b>>
  <1>1. bs \in Seq({b}) /\ Len(bs) = 1 /\ bs[1] = b
    OBVIOUS
  <1>2. g[0] = c /\ g[1] = d
    OBVIOUS
  <1> HIDE DEF g, bs
  <1>3. \A i \in 1 .. Len(bs) : Leaves(bs[i], g[i - 1], g[i])
    <2>1. \A i \in 1 .. Len(bs) : i = 1 /\ i - 1 = 0
      BY <1>1
    <2> QED BY <1>1, <1>2, <2>1
  <1>4. List(bs)
    BY <1>1 DEF List
  <1> QED BY <1>1, <1>2, <1>3, <1>4 DEF Leads, bs

(* none leads nowhere, *)
LEMMA LeadsNone == ASSUME NEW c PROVE Leads(<<>>, c, c)
  <1> DEFINE g == [i \in {0} |-> c]
  <1>1. List(<<>>) /\ Len(<<>>) = 0
    BY NoList
  <1>2. g[0] = c
    OBVIOUS
  <1>3. \A i \in 1 .. Len(<<>>) : FALSE
    BY <1>1
  <1> HIDE DEF g
  <1> QED BY <1>1, <1>2, <1>3 DEF Leads

(* and two lists lead where the second leads from where the first did. *)
LEMMA LeadsJoin ==
    ASSUME NEW s, NEW t, NEW c, NEW d, NEW e, Leads(s, c, d), Leads(t, d, e)
    PROVE  Leads(s \o t, c, e)
  <1>1. PICK g : /\ g[0] = c /\ g[Len(s)] = d
                 /\ \A i \in 1 .. Len(s) : Leaves(s[i], g[i - 1], g[i])
    BY DEF Leads
  <1>2. PICK h : /\ h[0] = d /\ h[Len(t)] = e
                 /\ \A i \in 1 .. Len(t) : Leaves(t[i], h[i - 1], h[i])
    BY DEF Leads
  <1>3. PICK S : s \in Seq(S)
    BY DEF Leads, List
  <1>4. PICK T : t \in Seq(T)
    BY DEF Leads, List
  <1> DEFINE all == s \o t
             m == Len(s)
             n == Len(t)
             k == [i \in 0 .. m + n |-> IF i <= m THEN g[i] ELSE h[i - m]]
  <1>5. /\ m \in Nat /\ n \in Nat /\ all \in Seq(S \cup T) /\ Len(all) = m + n
        /\ \A i \in 1 .. m : all[i] = s[i]
        /\ \A i \in 1 .. n : all[m + i] = t[i]
    <2>1. s \in Seq(S \cup T) /\ t \in Seq(S \cup T)
      BY <1>3, <1>4
    <2> HIDE <1>3, <1>4
    <2> QED BY <2>1
  <1>6. k[0] = c /\ k[m + n] = e
    <2>1. 0 \in 0 .. m + n /\ m + n \in 0 .. m + n /\ 0 <= m /\ (m + n) - m = n
          /\ (m + n <= m => n = 0 /\ m + n = m)
      BY <1>5
    <2> QED BY <1>1, <1>2, <2>1
  <1>7. ASSUME NEW i \in 1 .. m + n PROVE Leaves(all[i], k[i - 1], k[i])
    <2>1. CASE i <= m
      <3>1. i \in 1 .. m /\ i - 1 \in 0 .. m + n /\ i - 1 <= m /\ i \in 0 .. m + n
        BY <1>5, <2>1
      <3> QED BY <1>1, <1>5, <2>1, <3>1
    <2>2. CASE i > m
      <3>1. /\ i - m \in 1 .. n /\ i - 1 \in 0 .. m + n /\ i \in 0 .. m + n /\ ~(i <= m)
            /\ m + (i - m) = i /\ (i - 1) - m = (i - m) - 1
            /\ (i - 1 <= m => i - 1 = m /\ (i - m) - 1 = 0)
        BY <1>5, <2>2
      <3>2. k[i] = h[i - m] /\ k[i - 1] = h[(i - m) - 1]
        BY <1>1, <1>2, <3>1
      <3>3. all[i] = t[i - m]
        BY <1>5, <3>1
      <3> QED BY <1>2, <3>1, <3>2, <3>3
    <2> QED BY <1>5, <2>1, <2>2
  <1> HIDE DEF all, m, n, k
  <1>8. List(all)
    BY <1>5 DEF List
  <1> QED BY <1>5, <1>6, <1>7, <1>8 DEF Leads, all

(* Four instructions lead where each leads from where the one before did. *)
LEMMA LeadsFour ==
    ASSUME NEW w, NEW x, NEW y, NEW z, NEW c, NEW d1, NEW d2, NEW d3, NEW d4,
           Leaves(w, c, d1), Leaves(x, d1, d2), Leaves(y, d2, d3), Leaves(z, d3, d4)
    PROVE  Leads(<<w, x, y, z>>, c, d4)
  <1> DEFINE bs == <<w, x, y, z>>
             g == [i \in 0 .. 4 |-> IF i = 0 THEN c ELSE IF i = 1 THEN d1 ELSE IF i = 2 THEN d2
                                    ELSE IF i = 3 THEN d3 ELSE d4]
  <1>1. bs \in Seq({w, x, y, z}) /\ Len(bs) = 4
        /\ bs[1] = w /\ bs[2] = x /\ bs[3] = y /\ bs[4] = z
    OBVIOUS
  <1>2. g[0] = c /\ g[1] = d1 /\ g[2] = d2 /\ g[3] = d3 /\ g[4] = d4
    OBVIOUS
  <1> HIDE DEF g, bs
  <1>3. \A i \in 1 .. Len(bs) : Leaves(bs[i], g[i - 1], g[i])
    <2>1. /\ \A i \in 1 .. Len(bs) : i = 1 \/ i = 2 \/ i = 3 \/ i = 4
          /\ 1 - 1 = 0 /\ 2 - 1 = 1 /\ 3 - 1 = 2 /\ 4 - 1 = 3
      BY <1>1
    <2> QED BY <1>1, <1>2, <2>1
  <1>4. List(bs)
    BY <1>1 DEF List
  <1> QED BY <1>1, <1>2, <1>3, <1>4 DEF Leads, bs

------------------------------------------------------------------------------
(***************************************************************************)
(* The methods of the SDK, on a coin that is as they read it.              *)
(***************************************************************************)

(* A method whose instructions the programs accept, all of them. *)
Succeeds(bs, c) == \E d : Leads(bs, c, d) /\ d # Refused

(* A method that is one instruction. *)
LEMMA OneSucceeds ==
    ASSUME NEW b, NEW c, NEW d, Leaves(b, c, d), d # Refused
    PROVE  Succeeds(<<b>>, c)
  BY LeadsOne DEF Succeeds

(* A coin whose accounts are typed was not refused, *)
LEMMA GoodAlive == ASSUME NEW c, Good(c) PROVE Alive(c) /\ c # Refused
  BY DEF Good, IsCoin, Alive, Refused

(* nor is one that differs from it in some of its fields. *)
LEMMA AliveStays ==
    ASSUME NEW c, Alive(c)
    PROVE  /\ c # Refused
           /\ \A x : [c EXCEPT !.size = x] # Refused
           /\ \A x : [c EXCEPT !.ata = x] # Refused
           /\ \A x : [c EXCEPT !.uva = x] # Refused
           /\ \A x : [c EXCEPT !.fees = x] # Refused
           /\ \A x, y : [c EXCEPT !.fees = x, !.uva = y] # Refused
           /\ \A x : [c EXCEPT !.creator = x] # Refused
           /\ \A x, y, z : [c EXCEPT !.creator = x, !.shares = y, !.pool = z] # Refused
           /\ \A x : [c EXCEPT !.social = x] # Refused
           /\ \A x : [c EXCEPT !.phase = "amm", !.pool = x] # Refused
  <1>1. \A d : "phase" \in DOMAIN d /\ d.phase # "refused" => d # Refused
    BY DEF Refused
  <1> QED BY <1>1 DEF Alive

(* The launch of a coin, once it is created: the curve is extended, the *)
(* creator's token account opened, and the first buy made.              *)
LEMMA LaunchSucceeds ==
    ASSUME NEW c, NEW d, Good(c), NEW b, Leaves(b, c, d), NEW user \in Users, NEW token,
           NEW mayhem, NEW cashback, NEW size,
           d = [c EXCEPT !.phase = "curve", !.token = token, !.creator = user,
                         !.mayhem = mayhem, !.cashback = cashback, !.size = size]
    PROVE  Succeeds(<<b, extendAccountInstruction(user),
                      createAssociatedTokenAccountIdempotentInstruction(user, user, token),
                      buyInstruction(user, user, token, mayhem)>>, c)
  <1> DEFINE d2 == [d EXCEPT !.size = "new"]
             d3 == [d2 EXCEPT !.ata = @ \cup {user}]
             d4 == [d3 EXCEPT !.fees = @ \cup {creatorVaultPda(user)}, !.uva = @ \cup {user}]
  <1>1. /\ d.phase = "curve" /\ d.token = token
        /\ d2.phase = "curve" /\ d2.token = token
        /\ d3.phase = "curve" /\ d3.token = token /\ d3.creator = user /\ d3.mayhem = mayhem
        /\ d3.size = "new" /\ user \in d3.ata
        /\ d4.phase = "curve"
    BY DEF Good, IsCoin
  <1>2. d # Refused /\ d2 # Refused /\ d4 # Refused
    BY <1>1 DEF Refused
  <1>3. Leaves(extendAccountInstruction(user), d, d2)
    BY <1>1, <1>2, ExtendRuns
  <1>4. Leaves(createAssociatedTokenAccountIdempotentInstruction(user, user, token), d2, d3)
    <2> HIDE DEF d2
    <2> QED BY <1>1, <1>2, AtaRuns
  <1>5. Leaves(buyInstruction(user, user, token, mayhem), d3, d4)
    <2> HIDE DEF d3
    <2> QED BY <1>1, BuyRuns DEF buyInstruction
  <1> HIDE DEF d2, d3, d4
  <1> QED BY <1>2, <1>3, <1>4, <1>5, LeadsFour DEF Succeeds

(* So a coin is created and bought, the one way *)
LEMMA CreateSucceeds ==
    ASSUME NEW c, Good(c), c.phase = "none", NEW user \in Users
    PROVE  Succeeds(createAndBuyInstructions(user, user), c)
  <1> DEFINE d == [c EXCEPT !.phase = "curve", !.token = TOKEN_PROGRAM_ID, !.creator = user,
                            !.mayhem = FALSE, !.cashback = FALSE, !.size = "old"]
  <1>1. Leaves(createInstruction(user, user), c, d)
    BY CreateRuns
  <1> QED BY <1>1, LaunchSucceeds DEF createAndBuyInstructions

(* and the other. *)
LEMMA CreateV2Succeeds ==
    ASSUME NEW c, Good(c), c.phase = "none", NEW user \in Users, NEW mayhem, NEW cashback
    PROVE  Succeeds(createV2AndBuyInstructions(user, user, mayhem, cashback), c)
  <1> DEFINE d == [c EXCEPT !.phase = "curve", !.token = TOKEN_2022_PROGRAM_ID, !.creator = user,
                            !.mayhem = mayhem, !.cashback = cashback, !.size = "new"]
  <1>1. Leaves(createV2Instruction(user, user, mayhem, cashback), c, d)
    BY CreateV2Runs
  <1> QED BY <1>1, LaunchSucceeds DEF createV2AndBuyInstructions

(* The extension of a curve that is still short, where a trade needs it. *)
LEMMA ExtensionLeads ==
    ASSUME NEW c, Good(c), c.phase = "curve", NEW user \in Users, NEW curve, curve.size = c.size
    PROVE  Leads(Extension(user, curve), c, [c EXCEPT !.size = "new"])
  <1>1. CASE c.size = "old"
    <2>1. Leaves(extendAccountInstruction(user), c, [c EXCEPT !.size = "new"])
      BY GoodAlive, ExtendRuns
    <2> QED BY <1>1, <2>1, LeadsOne DEF Extension
  <1>2. CASE c.size # "old"
    <2>1. [c EXCEPT !.size = "new"] = c
      BY <1>2 DEF Good, IsCoin
    <2> QED BY <1>2, <2>1, LeadsNone DEF Extension
  <1> QED BY <1>1, <1>2

(* A trade is accepted when the curve is extended and the token account *)
(* open: a buy                                                          *)
LEMMA RawBuySucceeds ==
    ASSUME NEW c, Alive(c), c.phase = "curve", c.size = "new", NEW user \in Users, user \in c.ata,
           NEW fee, fee = getFeeRecipient(c.mayhem)
    PROVE  Succeeds(<<getBuyInstructionInternal(user, c.creator, fee, c.token)>>, c)
  <1>1. Leaves(getBuyInstructionInternal(user, c.creator, fee, c.token), c,
               [c EXCEPT !.fees = @ \cup {creatorVaultPda(c.creator)}, !.uva = @ \cup {user}])
    BY BuyRuns
  <1> QED BY <1>1, AliveStays, OneSucceeds

(* and a sale. *)
LEMMA RawSellSucceeds ==
    ASSUME NEW c, Alive(c), c.phase = "curve", c.size = "new", NEW user \in Users, user \in c.ata,
           c.cashback => user \in c.uva, NEW fee, fee = getFeeRecipient(c.mayhem)
    PROVE  Succeeds(<<getSellInstructionInternal(user, c.creator, fee, c.token, c.cashback)>>, c)
  <1>1. Leaves(getSellInstructionInternal(user, c.creator, fee, c.token, c.cashback), c,
               [c EXCEPT !.fees = @ \cup {creatorVaultPda(c.creator)}])
    BY SellRuns
  <1> QED BY <1>1, AliveStays, OneSucceeds

(* The SDK extends the curve and opens the account where a buy needs it, *)
LEMMA BuySucceeds ==
    ASSUME NEW c, Good(c), c.phase = "curve", NEW user \in Users, NEW curve,
           curve = [token |-> c.token, creator |-> c.creator, mayhem |-> c.mayhem,
                    size |-> c.size, ata |-> user \in c.ata]
    PROVE  Succeeds(buyInstructions(user, curve), c)
  <1> DEFINE d == [c EXCEPT !.size = "new"]
             e == [d EXCEPT !.ata = @ \cup {user}]
             open == IF curve.ata THEN <<>>
                     ELSE <<createAssociatedTokenAccountIdempotentInstruction(user, user,
                                                                            curve.token)>>
             trade == <<buyInstruction(user, curve.creator, curve.token, curve.mayhem)>>
  <1>1. /\ d.phase = "curve" /\ d.token = c.token /\ d.ata = c.ata /\ Alive(d)
        /\ e.phase = "curve" /\ e.token = c.token /\ e.creator = c.creator /\ e.mayhem = c.mayhem
        /\ e.size = "new" /\ user \in e.ata /\ Alive(e)
        /\ user \in c.ata => e = d
    BY DEF Good, IsCoin, Alive
  <1>2. Leads(Extension(user, curve), c, d)
    BY ExtensionLeads
  <1> HIDE DEF d
  <1>3. Leads(open, d, e)
    <2>1. CASE user \in c.ata
      <3>1. open = <<>> /\ e = d
        BY <1>1, <2>1
      <3> QED BY <3>1, LeadsNone
    <2>2. CASE user \notin c.ata
      <3>1. open = <<createAssociatedTokenAccountIdempotentInstruction(user, user, c.token)>>
        BY <2>2
      <3>2. Leaves(createAssociatedTokenAccountIdempotentInstruction(user, user, c.token), d, e)
        BY <1>1, AliveStays, AtaRuns
      <3> QED BY <3>1, <3>2, LeadsOne
    <2> QED BY <2>1, <2>2
  <1> HIDE DEF e, open
  <1>4. PICK g : Leads(trade, e, g) /\ g # Refused
    BY <1>1, RawBuySucceeds DEF Succeeds, buyInstruction
  <1> HIDE DEF trade
  <1>5. Leads((Extension(user, curve) \o open) \o trade, c, g)
    <2>1. Leads(Extension(user, curve) \o open, c, e)
      BY <1>2, <1>3, LeadsJoin
    <2> QED BY <1>4, <2>1, LeadsJoin
  <1>6. buyInstructions(user, curve) = (Extension(user, curve) \o open) \o trade
    BY DEF buyInstructions, open, trade
  <1> QED BY <1>4, <1>5, <1>6 DEF Succeeds

(* and extends the curve where a sale does. *)
LEMMA SellSucceeds ==
    ASSUME NEW c, Good(c), c.phase = "curve", NEW user \in Users, user \in c.ata,
           c.cashback => user \in c.uva, NEW curve, curve.token = c.token,
           curve.creator = c.creator, curve.size = c.size
    PROVE  Succeeds(sellInstructions(user, curve, c.mayhem, c.cashback), c)
  <1> DEFINE d == [c EXCEPT !.size = "new"]
             fee == getFeeRecipient(c.mayhem)
             trade == <<getSellInstructionInternal(user, c.creator, fee, c.token, c.cashback)>>
  <1>1. /\ d.phase = "curve" /\ d.token = c.token /\ d.ata = c.ata /\ d.uva = c.uva
        /\ d.creator = c.creator /\ d.mayhem = c.mayhem /\ d.cashback = c.cashback
        /\ d.size = "new" /\ Alive(d)
    BY DEF Good, IsCoin, Alive
  <1>2. Leads(Extension(user, curve), c, d)
    BY ExtensionLeads
  <1> HIDE DEF d
  <1>3. PICK g : Leads(trade, d, g) /\ g # Refused
    BY <1>1, RawSellSucceeds DEF Succeeds
  <1>4. sellInstructions(user, curve, c.mayhem, c.cashback) = Extension(user, curve) \o trade
    BY DEF sellInstructions
  <1> HIDE DEF trade
  <1> QED BY <1>2, <1>3, <1>4, LeadsJoin DEF Succeeds

(* The methods of volume accumulators. *)
LEMMA AccumulatorsSucceed ==
    ASSUME NEW c, Good(c), NEW user \in Users
    PROVE  /\ user \notin c.uva => Succeeds(initUserVolumeAccumulator(user, user), c)
           /\ user \in c.uva => /\ Succeeds(syncUserVolumeAccumulator(user), c)
                                /\ Succeeds(closeUserVolumeAccumulator(user), c)
                                /\ Succeeds(<<claimCashbackInstruction(user)>>, c)
  <1>1. Alive(c) /\ c # Refused
    BY GoodAlive
  <1>2. ASSUME user \notin c.uva PROVE Succeeds(initUserVolumeAccumulator(user, user), c)
    <2> DEFINE b == initUserVolumeAccumulator(user, user)[1]
    <2>1. Leaves(b, c, [c EXCEPT !.uva = @ \cup {user}])
      BY <1>1, <1>2, InitRuns
    <2>2. initUserVolumeAccumulator(user, user) = <<b>>
      BY DEF initUserVolumeAccumulator
    <2> HIDE DEF b
    <2> QED BY <1>1, <2>1, <2>2, AliveStays, OneSucceeds
  <1>3. ASSUME user \in c.uva PROVE Succeeds(syncUserVolumeAccumulator(user), c)
    <2> DEFINE b == syncUserVolumeAccumulator(user)[1]
    <2>1. Leaves(b, c, c)
      BY <1>1, <1>3, SyncRuns
    <2>2. syncUserVolumeAccumulator(user) = <<b>>
      BY DEF syncUserVolumeAccumulator
    <2> HIDE DEF b
    <2> QED BY <1>1, <2>1, <2>2, OneSucceeds
  <1>4. ASSUME user \in c.uva PROVE Succeeds(closeUserVolumeAccumulator(user), c)
    <2> DEFINE b == closeUserVolumeAccumulator(user)[1]
    <2>1. Leaves(b, c, [c EXCEPT !.uva = @ \ {user}])
      BY <1>1, <1>4, CloseRuns
    <2>2. closeUserVolumeAccumulator(user) = <<b>>
      BY DEF closeUserVolumeAccumulator
    <2> HIDE DEF b
    <2> QED BY <1>1, <2>1, <2>2, AliveStays, OneSucceeds
  <1>5. ASSUME user \in c.uva PROVE Succeeds(<<claimCashbackInstruction(user)>>, c)
    BY <1>1, <1>5, CashbackRuns, OneSucceeds
  <1> QED BY <1>2, <1>3, <1>4, <1>5

(* Those of incentives. *)
LEMMA IncentivesSucceed ==
    ASSUME NEW c, Good(c), NEW user \in Users, NEW has, has <=> user \in c.uva
    PROVE  /\ Succeeds(claimTokenIncentives(user, user, has), c)
           /\ Succeeds(adminUpdateTokenIncentives(Authority), c)
  <1>1. c # Refused
    BY GoodAlive
  <1>2. ASSUME has PROVE Succeeds(claimTokenIncentives(user, user, has), c)
    <2> DEFINE b == claimTokenIncentives(user, user, TRUE)[1]
    <2>1. Leaves(b, c, c)
      BY <1>1, <1>2, ClaimRuns
    <2>2. claimTokenIncentives(user, user, has) = <<b>>
      BY <1>2 DEF claimTokenIncentives
    <2> HIDE DEF b
    <2> QED BY <1>1, <2>1, <2>2, OneSucceeds
  <1>3. ASSUME ~has PROVE Succeeds(claimTokenIncentives(user, user, has), c)
    <2>1. claimTokenIncentives(user, user, has) = <<>>
      BY <1>3 DEF claimTokenIncentives
    <2>2. Succeeds(<<>>, c)
      BY <1>1, LeadsNone DEF Succeeds
    <2> QED BY <2>1, <2>2
  <1>4. Succeeds(adminUpdateTokenIncentives(Authority), c)
    <2> DEFINE b == adminUpdateTokenIncentives(Authority)[1]
    <2>1. Leaves(b, c, c)
      BY <1>1, IncentivesRun
    <2>2. adminUpdateTokenIncentives(Authority) = <<b>>
      BY DEF adminUpdateTokenIncentives
    <2> HIDE DEF b
    <2> QED BY <1>1, <2>1, <2>2, OneSucceeds
  <1>5. Succeeds(claimTokenIncentives(user, user, has), c)
    BY <1>2, <1>3
  <1> QED BY <1>4, <1>5

(* Those that name another creator. *)
LEMMA CreatorChangesSucceed ==
    ASSUME NEW c, Good(c), ~isCreatorUsingSharingConfig(c.creator)
    PROVE  /\ c.token = TOKEN_PROGRAM_ID => Succeeds(setCreator(Authority, Other), c)
           /\ Graduated(c) => Succeeds(adminSetCoinCreatorInstructions(Authority, Other), c)
  <1>1. Alive(c) /\ c # Refused
    BY GoodAlive
  <1>2. ASSUME c.token = TOKEN_PROGRAM_ID PROVE Succeeds(setCreator(Authority, Other), c)
    <2> DEFINE b == setCreator(Authority, Other)[1]
    <2>1. Leaves(b, c, [c EXCEPT !.creator = Other])
      BY <1>1, <1>2, SetCreatorRuns
    <2>2. setCreator(Authority, Other) = <<b>>
      BY DEF setCreator
    <2> HIDE DEF b
    <2> QED BY <1>1, <2>1, <2>2, AliveStays, OneSucceeds
  <1>3. ASSUME Graduated(c) PROVE Succeeds(adminSetCoinCreatorInstructions(Authority, Other), c)
    <2> DEFINE bs == adminSetCoinCreatorInstructions(Authority, Other)
               d == [c EXCEPT !.creator = Other]
               e == [d EXCEPT !.pool = Other]
    <2>1. c.phase = "amm" /\ d.phase = "amm" /\ e.phase = "amm" /\ d.pool = c.pool
      BY <1>3 DEF Graduated, Good, IsCoin
    <2>2. ~isCreatorUsingSharingConfig(c.pool)
      BY DEF Good, OwnersHold, isCreatorUsingSharingConfig, Config
    <2>3. bs = <<bs[1]>> \o <<bs[2]>>
      BY DEF adminSetCoinCreatorInstructions
    <2>4. Leaves(bs[1], c, d)
      BY <1>1, <2>1, AdminSetCreatorRuns
    <2> HIDE DEF d
    <2>5. d # Refused /\ e # Refused
      BY <2>1 DEF Refused
    <2>6. Leaves(bs[2], d, e)
      BY <2>1, <2>2, <2>5, AdminSetCoinCreatorRuns DEF Graduated
    <2> HIDE DEF bs, e
    <2>7. Leads(<<bs[1]>> \o <<bs[2]>>, c, e)
      BY <2>4, <2>6, LeadsOne, LeadsJoin
    <2>8. Leads(bs, c, e)
      BY <2>3, <2>7
    <2> QED BY <2>5, <2>8 DEF Succeeds, bs
  <1> QED BY <1>2, <1>3

(* The migration. *)
LEMMA MigrateSucceeds ==
    ASSUME NEW c, Good(c), c.phase = "complete", NEW user \in Users
    PROVE  Succeeds(<<migrateInstruction(Authority, user, c.token)>>, c)
  <1>1. Leaves(migrateInstruction(Authority, user, c.token), c,
               [c EXCEPT !.phase = "amm", !.pool = c.creator])
    BY MigrateRuns
  <1> QED BY <1>1, GoodAlive, AliveStays, OneSucceeds

(* The collection of a creator's fees. *)
LEMMA CollectSucceeds ==
    ASSUME NEW c, Good(c), NEW user \in Users
    PROVE  Landed(c, Instructions(collectCoinCreatorFeeInstructions(user))) # Refused
  BY UserCollects

(* The two methods of shareholders: consolidation, where there is something *)
(* to bring over, leaves the shares alone;                                  *)
LEMMA ConsolidationLeads ==
    ASSUME NEW c, Good(c)
    PROVE  \E d : /\ Leads(Consolidation(FetchedConfig(c)), c, d) /\ Good(d)
                  /\ d.shares = c.shares /\ d.creator = c.creator
  <1> DEFINE seen == FetchedConfig(c)
             av == ammVaultAta(Config)
             cv == creatorVaultPda(Config)
             move == instruction("transferCreatorFeesToPump",
                       [wsolMint |-> NATIVE_MINT, tokenProgram |-> TOKEN_PROGRAM_ID,
                        coinCreator |-> Config], <<>>, NoArgs)
             held == IF av \in c.fees THEN (c.fees \ {av}) \cup {cv} ELSE c.fees
             d == [c EXCEPT !.fees = held]
  <1>1. seen.graduated = Graduated(c) /\ seen.ammVault = (av \in c.ammVaults)
    BY DEF FetchedConfig
  <1>2. CASE Graduated(c) /\ av \in c.ammVaults
    <2>1. Consolidation(seen) = <<move>>
      BY <1>1, <1>2 DEF Consolidation, Config
    <2>2. Leaves(move, c, d)
      BY <1>2, TransferRuns DEF Leaves
    <2>3. Good(d) /\ d.shares = c.shares /\ d.creator = c.creator
      <3>1. held \subseteq UNION {Vaults(o) : o \in Owners}
        <4>1. Vaults(Config) = {cv, av} /\ Config \in Owners
          BY DEF Vaults, Owners
        <4> QED BY <4>1 DEF Good, VaultsHold
      <3>2. d.creator = c.creator
        BY DEF Good, IsCoin
      <3> HIDE DEF held, d
      <3> QED BY <3>1, <3>2, FeesMove DEF d
    <2> HIDE DEF move, d, seen
    <2>4. Leads(Consolidation(seen), c, d)
      BY <2>1, <2>2, LeadsOne
    <2> QED BY <2>3, <2>4 DEF seen
  <1>3. CASE ~(Graduated(c) /\ av \in c.ammVaults)
    <2>1. Consolidation(seen) = <<>>
      BY <1>1, <1>3 DEF Consolidation
    <2> HIDE DEF seen
    <2> QED BY <2>1, LeadsNone DEF seen
  <1> QED BY <1>2, <1>3

(* then the fees are paid out, or what may be paid is asked for. *)
LEMMA PayoutsSucceed ==
    ASSUME NEW c, Good(c), HasShares(c)
    PROVE  /\ Succeeds(buildDistributeCreatorFeesInstructions(FetchedConfig(c)), c)
           /\ Succeeds(minimumDistributableFeeInstructions(FetchedConfig(c)), c)
  <1> DEFINE seen == FetchedConfig(c)
             holders == Addresses(c.shares.holders)
  <1>1. PICK d : /\ Leads(Consolidation(seen), c, d) /\ Good(d)
                 /\ d.shares = c.shares /\ d.creator = c.creator
    BY ConsolidationLeads
  <1>2. HasShares(d) /\ d.creator = Config /\ List(d.shares.holders)
          /\ holders = Addresses(d.shares.holders)
    BY <1>1 DEF Good, OwnersHold, HasShares, IsCoin
  <1>3. seen.holders = holders
    BY DEF FetchedConfig
  <1>4. d # Refused /\ Alive(d)
    BY <1>1, GoodAlive
  <1> HIDE DEF seen, holders
  <1>5. Leads(<<distributeCreatorFees(holders)>>, d,
            [d EXCEPT !.fees = @ \ {creatorVaultPda(Config)}])
    BY <1>1, <1>2, DistributeRuns, LeadsOne DEF Leaves
  <1>6. Leads(<<getMinimumDistributableFee(holders)>>, d, d)
    BY <1>2, <1>4, MinimumRuns, LeadsOne
  <1>7. Succeeds(Consolidation(seen) \o <<distributeCreatorFees(holders)>>, c)
    BY <1>1, <1>4, <1>5, AliveStays, LeadsJoin DEF Succeeds
  <1>8. Succeeds(Consolidation(seen) \o <<getMinimumDistributableFee(holders)>>, c)
    BY <1>1, <1>4, <1>6, LeadsJoin DEF Succeeds
  <1> QED
    BY <1>3, <1>7, <1>8 DEF buildDistributeCreatorFeesInstructions,
                            minimumDistributableFeeInstructions, seen

(* The accounts of social recipients open one after the other, whatever is *)
(* there already, and the shares stay as they are.                         *)
LEMMA SocialLeads ==
    ASSUME NEW c, IsCoin(c), NEW user \in Users, NEW T, NEW recipients \in Seq(T)
    PROVE  \E d : /\ Leads([i \in DOMAIN recipients |->
                              createSocialFeePda(user, recipients[i][1], recipients[i][2])], c, d)
                  /\ IsCoin(d) /\ d.shares = c.shares
  <1> DEFINE n == Len(recipients)
             pda(j) == socialFeePda(recipients[j][1], recipients[j][2])
             create(j) == createSocialFeePda(user, recipients[j][1], recipients[j][2])
             creations == [i \in DOMAIN recipients |-> create(i)]
             opened(i) == [c EXCEPT !.social = c.social \cup {pda(j) : j \in 1 .. i}]
             g == [i \in 0 .. n |-> opened(i)]
             S == {create(j) : j \in 1 .. n}
  <1>1. n \in Nat /\ DOMAIN recipients = 1 .. n
    OBVIOUS
  <1>2. opened(0) = c
    <2>1. c.social \cup {pda(j) : j \in 1 .. 0} = c.social
      OBVIOUS
    <2> QED BY <2>1 DEF IsCoin
  <1>3. \A i : opened(i) # Refused /\ IsCoin(opened(i)) /\ opened(i).shares = c.shares
    <2> TAKE i
    <2> DEFINE new == c.social \cup {pda(j) : j \in 1 .. i}
    <2>1. opened(i) = [c EXCEPT !.social = new]
      OBVIOUS
    <2> HIDE DEF new
    <2>2. /\ IsCoin([c EXCEPT !.social = new])
          /\ [c EXCEPT !.social = new].shares = c.shares
      BY DEF IsCoin
    <2>3. [c EXCEPT !.social = new] # Refused
      BY AliveStays DEF IsCoin, Alive
    <2> QED BY <2>1, <2>2, <2>3
  <1>4. ASSUME NEW i \in 1 .. n PROVE Leaves(create(i), opened(i - 1), opened(i))
    <2>1. opened(i) = [opened(i - 1) EXCEPT !.social = @ \cup {pda(i)}]
      <3> DEFINE old == {pda(j) : j \in 1 .. i - 1}
                 all == {pda(j) : j \in 1 .. i}
      <3>1. all = old \cup {pda(i)}
        <4>1. \A j : j \in 1 .. i <=> j \in 1 .. i - 1 \/ j = i
          BY <1>1
        <4> HIDE DEF pda
        <4> QED BY <4>1
      <3> HIDE DEF old, all
      <3>2. [c EXCEPT !.social = c.social \cup all]
              = [[c EXCEPT !.social = c.social \cup old] EXCEPT !.social = @ \cup {pda(i)}]
        BY <3>1 DEF IsCoin
      <3> QED BY <3>2 DEF all, old
    <2>2. opened(i - 1) # Refused
      BY <1>3
    <2> HIDE DEF opened
    <2> QED BY <2>1, <2>2, SocialRuns
  <1> HIDE DEF create, opened
  <1>5. /\ creations = [i \in 1 .. n |-> create(i)] /\ creations \in Seq(S)
        /\ Len(creations) = n /\ \A i \in 1 .. n : creations[i] = create(i)
    <2>1. creations = [i \in 1 .. n |-> create(i)]
      BY <1>1
    <2> HIDE DEF creations, n
    <2> QED BY <1>1, <2>1
  <1>6. g[0] = c /\ g[n] = opened(n)
          /\ \A i \in 1 .. n : g[i - 1] = opened(i - 1) /\ g[i] = opened(i)
    BY <1>1, <1>2
  <1> HIDE DEF g, S, n
  <1>7. \A i \in 1 .. Len(creations) : Leaves(creations[i], g[i - 1], g[i])
    BY <1>4, <1>5, <1>6
  <1>8. Leads(creations, c, opened(n))
    <2> HIDE DEF creations
    <2> QED BY <1>5, <1>6, <1>7 DEF Leads, List
  <1> QED BY <1>3, <1>8 DEF create

(* New shares are set, with the accounts of all their social holders. *)
LEMMA ReshareSucceeds ==
    ASSUME NEW c, IsCoin(c), HasShares(c), NEW user \in Users, c.shares.admin = user,
           isSharingConfigEditable(c.shares), NEW M, NEW shares \in Seq(M), ~ThrowsOn(shares)
    PROVE  Succeeds(updateSharingConfigWithSocialRecipients(user, Addresses(c.shares.holders),
                                                            shares), c)
  <1> DEFINE recipients == SetToSeq(SocialRecipients(shares))
             creations == [i \in DOMAIN recipients |->
                             createSocialFeePda(user, recipients[i][1], recipients[i][2])]
             new == normalizeSocialShareholders(shares)
             update == updateFeeShares(user, Addresses(c.shares.holders), new)
  <1>1. recipients \in Seq(SocialRecipients(shares))
    BY RecipientsFinite, EnumerationIs
  <1>2. updateSharingConfigWithSocialRecipients(user, Addresses(c.shares.holders), shares)
          = creations \o <<update>>
    BY DEF updateSharingConfigWithSocialRecipients
  <1>3. ValidShares(new)
    BY DEF ThrowsOn
  <1> HIDE DEF recipients
  <1>4. PICK d : Leads(creations, c, d) /\ IsCoin(d) /\ d.shares = c.shares
    BY <1>1, SocialLeads
  <1>5. /\ Alive(d) /\ List(d.shares.holders) /\ HasShares(d) /\ d.shares.admin = user
        /\ isSharingConfigEditable(d.shares)
    BY <1>4 DEF IsCoin, Alive, HasShares
  <1> HIDE DEF creations, new
  <1>6. PICK e : Leaves(update, d, e) /\ e # Refused
    BY <1>3, <1>4, <1>5, UpdateRuns
  <1> HIDE DEF update
  <1> QED BY <1>2, <1>4, <1>6, LeadsOne, LeadsJoin DEF Succeeds

(* A coin stays one when it is given its first shares. *)
LEMMA SharedCoin ==
    ASSUME NEW c, IsCoin(c), NEW owner, NEW p, NEW user, NEW d,
           d = [phase |-> c.phase, token |-> c.token, creator |-> owner, mayhem |-> c.mayhem,
                cashback |-> c.cashback, size |-> c.size, ata |-> c.ata, uva |-> c.uva,
                shares |-> FirstShares(user), social |-> c.social, fees |-> c.fees,
                ammVaults |-> c.ammVaults, pool |-> p]
    PROVE  IsCoin(d) /\ d.shares = FirstShares(user)
  <1> DEFINE h == [address |-> user, bps |-> ShareTotal]
             new == FirstShares(user)
  <1>1. new = [version |-> 2, revoked |-> FALSE, admin |-> user, holders |-> <<h>>]
    BY DEF FirstShares
  <1>2. List(<<h>>)
    <2> DEFINE T == {h}
    <2>1. <<h>> \in Seq(T)
      OBVIOUS
    <2> HIDE DEF T, h
    <2> QED BY <2>1 DEF List
  <1>3. d.shares = new
    OBVIOUS
  <1> HIDE DEF new, h
  <1>4. List(d.shares.holders)
    BY <1>1, <1>2, <1>3
  <1>5. d.shares = [version |-> 2, revoked |-> d.shares.revoked, admin |-> d.shares.admin,
                    holders |-> d.shares.holders]
    BY <1>1, <1>3
  <1> QED BY <1>3, <1>4, <1>5 DEF IsCoin, new

(* The coin a new sharing configuration leaves behind. *)
LEMMA SharingLeaves ==
    ASSUME NEW user \in Users, NEW c, IsCoin(c), ~HasShares(c), c.creator = user, NEW pool,
           Graduated(c) => pool = canonicalPumpPoolPda(MINT)
    PROVE  \E d : /\ Leaves(createFeeSharingConfig(user, pool), c, d)
                  /\ IsCoin(d) /\ d.shares = FirstShares(user)
  <1>1. c # Refused
    BY DEF IsCoin, Refused
  <1>2. PICK owner, p :
          Leaves(createFeeSharingConfig(user, pool), c,
                 [c EXCEPT !.creator = owner, !.shares = FirstShares(user), !.pool = p])
    BY <1>1, ShareRuns
  <1> DEFINE d == [phase |-> c.phase, token |-> c.token, creator |-> owner, mayhem |-> c.mayhem,
                  cashback |-> c.cashback, size |-> c.size, ata |-> c.ata, uva |-> c.uva,
                  shares |-> FirstShares(user), social |-> c.social, fees |-> c.fees,
                  ammVaults |-> c.ammVaults, pool |-> p]
             e(s, q) == [phase |-> c.phase, token |-> c.token, creator |-> owner,
                         mayhem |-> c.mayhem, cashback |-> c.cashback, size |-> c.size,
                         ata |-> c.ata, uva |-> c.uva, shares |-> s, social |-> c.social,
                         fees |-> c.fees, ammVaults |-> c.ammVaults, pool |-> q]
  <1>3. [c EXCEPT !.creator = owner, !.shares = FirstShares(user), !.pool = p] = d
    <2>1. [c EXCEPT !.creator = owner] = e(c.shares, c.pool)
      BY DEF IsCoin
    <2>2. [e(c.shares, c.pool) EXCEPT !.shares = FirstShares(user)] = e(FirstShares(user), c.pool)
      OBVIOUS
    <2>3. [e(FirstShares(user), c.pool) EXCEPT !.pool = p] = d
      OBVIOUS
    <2> HIDE DEF d, e
    <2> QED BY <2>1, <2>2, <2>3
  <1>4. Leaves(createFeeSharingConfig(user, pool), c, d)
    <2> HIDE DEF d
    <2> QED BY <1>2, <1>3
  <1>5. IsCoin(d) /\ d.shares = FirstShares(user)
    BY SharedCoin
  <1> HIDE DEF d
  <1> QED BY <1>4, <1>5

(* A coin is given a sharing configuration, *)
LEMMA SharingSucceeds ==
    ASSUME NEW c, Good(c), ~HasShares(c), NEW user \in Users, c.creator = user, NEW pool,
           Graduated(c) => pool = canonicalPumpPoolPda(MINT)
    PROVE  Succeeds(<<createFeeSharingConfig(user, pool)>>, c)
  <1>1. PICK d : Leaves(createFeeSharingConfig(user, pool), c, d) /\ IsCoin(d)
    BY SharingLeaves DEF Good
  <1>2. d # Refused
    BY <1>1 DEF IsCoin, Refused
  <1> QED BY <1>1, <1>2, OneSucceeds

(* or one and its shares at once. *)
LEMMA ShareSucceeds ==
    ASSUME NEW c, Good(c), ~HasShares(c), NEW user \in Users, c.creator = user, NEW pool,
           Graduated(c) => pool = canonicalPumpPoolPda(MINT),
           NEW M, NEW shares \in Seq(M), ~ThrowsOn(shares)
    PROVE  Succeeds(createSharingConfigWithSocialRecipients(user, pool, shares), c)
  <1> DEFINE b == createFeeSharingConfig(user, pool)
             update == updateSharingConfigWithSocialRecipients(user, <<user>>, shares)
             h == [address |-> user, bps |-> ShareTotal]
  <1>1. PICK d : Leaves(b, c, d) /\ IsCoin(d) /\ d.shares = FirstShares(user)
    BY SharingLeaves DEF Good
  <1>2. /\ d.shares.holders = <<h>> /\ d.shares.admin = user /\ d.shares.version = 2
        /\ d.shares.revoked = FALSE
    BY <1>1 DEF FirstShares
  <1>3. <<h>> # <<>> /\ Addresses(<<h>>) = <<user>>
    BY DEF Addresses
  <1> HIDE DEF h, update, b
  <1>4. /\ HasShares(d) /\ Addresses(d.shares.holders) = <<user>>
        /\ isSharingConfigEditable(d.shares)
    BY <1>2, <1>3 DEF HasShares, isSharingConfigEditable
  <1>5. PICK e : Leads(update, d, e) /\ e # Refused
    BY <1>1, <1>2, <1>4, ReshareSucceeds DEF Succeeds, update
  <1>6. createSharingConfigWithSocialRecipients(user, pool, shares) = <<b>> \o update
    BY DEF createSharingConfigWithSocialRecipients, b, update
  <1> QED BY <1>1, <1>5, <1>6, LeadsOne, LeadsJoin DEF Succeeds

------------------------------------------------------------------------------
(***************************************************************************)
(* The messages of the bot: it writes each account as a position in a list *)
(* of keys, and lists the positions of every instruction itself. What the  *)
(* programs find there is read off the positions.                          *)
(***************************************************************************)

(* Instruction ix lets the program do with its accounts what idl asks. *)
Flagged(ix, idl) ==
  Len(ix.metas) >= Len(idl) /\ \A i \in DOMAIN idl : idl[i].flags \subseteq ix.metas[i].flags

(* A program reads its accounts in the order of its list. *)
LEMMA AccountsAt ==
    ASSUME NEW ix, NEW idl,
           \A i \in DOMAIN idl, j \in DOMAIN idl : idl[i].name = idl[j].name => i = j
    PROVE  /\ DOMAIN Accounts(ix, idl) = Names(idl)
           /\ \A i \in DOMAIN idl : Accounts(ix, idl)[idl[i].name] = ix.metas[i].key
  <1>1. \A j \in DOMAIN idl : (CHOOSE i \in DOMAIN idl : idl[i].name = idl[j].name) = j
    OBVIOUS
  <1> QED BY <1>1 DEF Accounts, Names

(* It runs an instruction whose accounts and flags are what its list *)
(* demands.                                                          *)
LEMMA WrittenRuns ==
    ASSUME NEW ix, NEW idl, NEW acc, acc = Accounts(ix, idl), NEW c, c # Refused,
           Flagged(ix, idl), \A i \in DOMAIN idl : RowHolds(idl[i], ix.op, acc, c),
           Covers(Rest(ix, idl), RestNeeded(ix.op, acc, c)), Ready(ix, acc, c)
    PROVE  Run(c, ix, idl) = Effect(ix, acc, c)
  BY DEF Run, Executed, AccountsHold, Flagged

(* What the rows ask of their accounts. *)
LEMMA RowFlags ==
  /\ IDL!Global.flags = {} /\ IDL!SystemProgram.flags = {} /\ IDL!AssociatedTokenProgram.flags = {}
  /\ IDL!UserVolumeAccumulator.flags = {"w"}
  /\ \A flags : /\ IDL!Mint(flags).flags = flags /\ IDL!BondingCurve(flags).flags = flags
                /\ IDL!CreatorVault(flags).flags = flags
                /\ IDL!GlobalVolumeAccumulator(flags).flags = flags
  /\ \A token : IDL!AssociatedBondingCurve(token).flags = {"w"}
  /\ \A n, prog : IDL!EventAuthority(n, prog).flags = {}
  /\ \A n, flags, owner, token, mint : IDL!AtaOf(n, flags, owner, token, mint).flags = flags
  /\ \A n, flags : IDL!Given(n, flags).flags = flags
  /\ \A n, flags, prog : IDL!Fixed(n, flags, prog).flags = flags
  /\ \A n, flags, prog, tag, seeds : IDL!Derived(n, flags, prog, tag, seeds).flags = flags
  /\ IDL!RO = {} /\ IDL!W = {"w"} /\ IDL!S = {"s"} /\ IDL!WS = {"w", "s"}
  BY DEF IDL!Global, IDL!SystemProgram, IDL!AssociatedTokenProgram, IDL!UserVolumeAccumulator,
         IDL!Mint, IDL!BondingCurve, IDL!CreatorVault, IDL!GlobalVolumeAccumulator,
         IDL!AssociatedBondingCurve, IDL!EventAuthority, IDL!AtaOf, IDL!Given, IDL!Fixed,
         IDL!Derived, IDL!RO, IDL!W, IDL!S, IDL!WS

(* The further accounts of a trade. *)
LEMMA RestOfTrade ==
    ASSUME NEW x, NEW y, x.key = bondingCurveV2Pda(MINT),
           y.key = getStaticRandomFeeRecipientForBuyback, "w" \in y.flags
    PROVE  Covers(<<x, y>>, TradeRest)
  BY DEF Covers, TradeRest, Meta, RO, W, IDL!RO, IDL!W

(* What the program has to find in a trade on c by user. *)
TradeAccounts(acc, user, c) ==
  /\ {"bondingCurve", "tokenProgram", "mint"} \subseteq DOMAIN acc /\ "pump" \notin DOMAIN acc
  /\ acc["global"] = GLOBAL_PDA /\ acc["feeRecipient"] = getFeeRecipient(c.mayhem)
  /\ acc["mint"] = MINT /\ acc["bondingCurve"] = bondingCurvePda(MINT)
  /\ acc["associatedBondingCurve"]
       = getAssociatedTokenAddressSync(MINT, bondingCurvePda(MINT), c.token)
  /\ acc["associatedUser"] = getAssociatedTokenAddressSync(MINT, user, c.token)
  /\ acc["user"] = user /\ acc["systemProgram"] = Program("system")
  /\ acc["tokenProgram"] = c.token /\ acc["creatorVault"] = creatorVaultPda(c.creator)
  /\ acc["eventAuthority"] = EVENT_AUTHORITY_PDA /\ acc["program"] = Program("pump")
  /\ acc["feeConfig"] = FEE_CONFIG_PDA /\ acc["feeProgram"] = Program("pumpFees")

(* Then the rows that all lists share hold, *)
LEMMA CommonRowsHold ==
    ASSUME NEW op, NEW acc, NEW c, {"bondingCurve", "tokenProgram", "mint"} \subseteq DOMAIN acc,
           acc["mint"] = MINT
    PROVE  /\ acc["global"] = GLOBAL_PDA => RowHolds(IDL!Global, op, acc, c)
           /\ acc["bondingCurve"] = bondingCurvePda(MINT)
                => \A flags : RowHolds(IDL!BondingCurve(flags), op, acc, c)
           /\ acc["bondingCurve"] = bondingCurvePda(MINT)
                /\ acc["associatedBondingCurve"]
                     = getAssociatedTokenAddressSync(MINT, bondingCurvePda(MINT),
                                                     acc["tokenProgram"])
                => RowHolds(IDL!AssociatedBondingCurve("tokenProgram"), op, acc, c)
           /\ acc["systemProgram"] = Program("system") => RowHolds(IDL!SystemProgram, op, acc, c)
           /\ acc["associatedTokenProgram"] = Program("ata")
                => RowHolds(IDL!AssociatedTokenProgram, op, acc, c)
           /\ acc["eventAuthority"] = EVENT_AUTHORITY_PDA
                => RowHolds(IDL!EventAuthority("eventAuthority", "pump"), op, acc, c)
  <1>1. acc["global"] = GLOBAL_PDA => RowHolds(IDL!Global, op, acc, c)
    BY DerivedRow0 DEF IDL!Global, GLOBAL_PDA
  <1>2. acc["bondingCurve"] = bondingCurvePda(MINT)
          => \A flags : RowHolds(IDL!BondingCurve(flags), op, acc, c)
    BY DerivedRow1 DEF IDL!BondingCurve, bondingCurvePda, SeedOnChain
  <1>3. acc["bondingCurve"] = bondingCurvePda(MINT)
          /\ acc["associatedBondingCurve"]
               = getAssociatedTokenAddressSync(MINT, bondingCurvePda(MINT), acc["tokenProgram"])
          => RowHolds(IDL!AssociatedBondingCurve("tokenProgram"), op, acc, c)
    BY AtaRow DEF IDL!AssociatedBondingCurve, getAssociatedTokenAddressSync, SeedOnChain
  <1>4. /\ acc["systemProgram"] = Program("system") => RowHolds(IDL!SystemProgram, op, acc, c)
        /\ acc["associatedTokenProgram"] = Program("ata")
             => RowHolds(IDL!AssociatedTokenProgram, op, acc, c)
    BY FixedRow DEF IDL!SystemProgram, IDL!AssociatedTokenProgram
  <1>5. acc["eventAuthority"] = EVENT_AUTHORITY_PDA
          => RowHolds(IDL!EventAuthority("eventAuthority", "pump"), op, acc, c)
    BY DerivedRow0 DEF IDL!EventAuthority, EVENT_AUTHORITY_PDA
  <1> QED BY <1>1, <1>2, <1>3, <1>4, <1>5

(* and so do the other rows of a trade. *)
LEMMA TradeRowsHold ==
    ASSUME NEW op \in {"buy", "buyExactSolIn", "sell"}, NEW acc, NEW c, NEW user \in Users,
           user \in c.ata, TradeAccounts(acc, user, c)
    PROVE  /\ RowHolds(IDL!Global, op, acc, c)
           /\ RowHolds(IDL!Given("feeRecipient", IDL!W), op, acc, c)
           /\ RowHolds(IDL!Mint(IDL!RO), op, acc, c)
           /\ RowHolds(IDL!BondingCurve(IDL!W), op, acc, c)
           /\ RowHolds(IDL!AssociatedBondingCurve("tokenProgram"), op, acc, c)
           /\ RowHolds(IDL!Given("associatedUser", IDL!W), op, acc, c)
           /\ RowHolds(IDL!Given("user", IDL!WS), op, acc, c)
           /\ RowHolds(IDL!SystemProgram, op, acc, c)
           /\ RowHolds(IDL!Given("tokenProgram", IDL!RO), op, acc, c)
           /\ RowHolds(IDL!CreatorVault(IDL!W), op, acc, c)
           /\ RowHolds(IDL!EventAuthority("eventAuthority", "pump"), op, acc, c)
           /\ RowHolds(IDL!Fixed("program", IDL!RO, "pump"), op, acc, c)
           /\ RowHolds(IDL!Derived("feeConfig", IDL!RO, "pumpFees", "fee_config", <<"pump">>),
                       op, acc, c)
           /\ RowHolds(IDL!Fixed("feeProgram", IDL!RO, "pumpFees"), op, acc, c)
  <1>1. /\ RowHolds(IDL!Global, op, acc, c) /\ RowHolds(IDL!BondingCurve(IDL!W), op, acc, c)
        /\ RowHolds(IDL!AssociatedBondingCurve("tokenProgram"), op, acc, c)
        /\ RowHolds(IDL!SystemProgram, op, acc, c)
        /\ RowHolds(IDL!EventAuthority("eventAuthority", "pump"), op, acc, c)
    BY CommonRowsHold DEF TradeAccounts
  <1>2. /\ RowHolds(IDL!Fixed("program", IDL!RO, "pump"), op, acc, c)
        /\ RowHolds(IDL!Fixed("feeProgram", IDL!RO, "pumpFees"), op, acc, c)
    BY FixedRow DEF TradeAccounts
  <1>3. /\ RowHolds(IDL!CreatorVault(IDL!W), op, acc, c)
        /\ RowHolds(IDL!Derived("feeConfig", IDL!RO, "pumpFees", "fee_config", <<"pump">>),
                    op, acc, c)
    BY DerivedRow1
       DEF TradeAccounts, IDL!CreatorVault, SeedOnChain, creatorVaultPda, FEE_CONFIG_PDA
  <1>4. \A n \in {"feeRecipient", "mint", "associatedUser", "user", "tokenProgram"} :
          ChoiceHolds(n, op, acc, c)
    BY UsersNamed DEF TradeAccounts, ChoiceHolds, TokenOf, Incentives, Wrapped
  <1>5. \A n, flags : ChoiceHolds(n, op, acc, c) => RowHolds(IDL!Given(n, flags), op, acc, c)
    BY DEF RowHolds, IDL!Given
  <1> QED BY <1>1, <1>2, <1>3, <1>4, <1>5 DEF IDL!Mint

(* The token account of an owner, for a coin as the bot creates it. *)
CoinAta(owner) == getAssociatedTokenAddressSync(MINT, owner, TOKEN_2022_PROGRAM_ID)

(* What the lookup table adds to the keys of the launch message. *)
LEMMA TableRead ==
  /\ LookedUp(AltIndices.writable) = <<Program("mayhem"), getSolVaultPda>>
  /\ LookedUp(AltIndices.readonly)
       = <<MINT_AUTHORITY_PDA, GLOBAL_PDA, TOKEN_2022_PROGRAM_ID, getGlobalParamsPda,
           EVENT_AUTHORITY_PDA, GLOBAL_VOLUME_ACCUMULATOR_PDA, FEE_CONFIG_PDA, Program("pumpFees")>>
  <1>1. \A x : (\E i \in DOMAIN AltEntries : AltEntries[i] = x) => AltEntries[Find(x)] = x
    BY DEF Find
  <1>2. /\ DOMAIN AltEntries = 1 .. 10
        /\ AltEntries[1] = Program("pumpFees") /\ AltEntries[2] = FEE_CONFIG_PDA
        /\ AltEntries[3] = getSolVaultPda /\ AltEntries[4] = GLOBAL_PDA
        /\ AltEntries[5] = EVENT_AUTHORITY_PDA /\ AltEntries[6] = Program("mayhem")
        /\ AltEntries[7] = GLOBAL_VOLUME_ACCUMULATOR_PDA /\ AltEntries[8] = getGlobalParamsPda
        /\ AltEntries[9] = TOKEN_2022_PROGRAM_ID /\ AltEntries[10] = MINT_AUTHORITY_PDA
    BY DEF AltEntries
  <1>3. \A x \in {Program("mayhem"), getSolVaultPda, MINT_AUTHORITY_PDA, GLOBAL_PDA,
                  TOKEN_2022_PROGRAM_ID, getGlobalParamsPda, EVENT_AUTHORITY_PDA,
                  GLOBAL_VOLUME_ACCUMULATOR_PDA, FEE_CONFIG_PDA, Program("pumpFees")} :
          AltEntries[Find(x)] = x
    BY <1>1, <1>2
  <1> QED BY <1>3 DEF LookedUp, AltIndices

(* A trade as a message writes it, for a coin of the creator's. *)
TradeWritten(ix, idl, acc, user, creator) ==
  /\ Flagged(ix, idl) /\ DOMAIN acc = Names(idl) /\ Covers(Rest(ix, idl), TradeRest)
  /\ acc["global"] = GLOBAL_PDA /\ acc["feeRecipient"] = getFeeRecipient(FALSE)
  /\ acc["mint"] = MINT /\ acc["bondingCurve"] = bondingCurvePda(MINT)
  /\ acc["associatedBondingCurve"] = CoinAta(bondingCurvePda(MINT))
  /\ acc["associatedUser"] = CoinAta(user) /\ acc["user"] = user
  /\ acc["systemProgram"] = Program("system") /\ acc["tokenProgram"] = TOKEN_2022_PROGRAM_ID
  /\ acc["creatorVault"] = creatorVaultPda(creator)
  /\ acc["eventAuthority"] = EVENT_AUTHORITY_PDA /\ acc["program"] = Program("pump")
  /\ acc["feeConfig"] = FEE_CONFIG_PDA /\ acc["feeProgram"] = Program("pumpFees")

(* A position that is marked in a message has the flag of the mark. *)
LEMMA MarksRead ==
    ASSUME NEW text, NEW writes, NEW signs, \A p \in writes : p \in text.writes,
           \A p \in signs : p \in text.signs
    PROVE  /\ \A p \in writes : "w" \in At(text, p).flags
           /\ \A p \in signs : "s" \in At(text, p).flags
  BY DEF At, Meta

(* An instruction with no accounts after its list, *)
LEMMA RestNone ==
    ASSUME NEW ix, NEW idl, NEW n \in Nat, Len(idl) = n, Len(ix.metas) = n
    PROVE  Len(ix.metas) >= Len(idl) /\ Rest(ix, idl) = <<>>
  <1>1. Rest(ix, idl) = SubSeq(ix.metas, n + 1, n)
    BY DEF Rest
  <1>2. DOMAIN SubSeq(ix.metas, n + 1, n) = {}
    OBVIOUS
  <1> QED BY <1>1

(* and one with two. *)
LEMMA RestTwo ==
    ASSUME NEW ix, NEW idl, NEW n \in Nat, NEW p \in Nat, p = n + 1, NEW q \in Nat, q = n + 2,
           Len(idl) = n, Len(ix.metas) = q
    PROVE  Len(ix.metas) >= Len(idl) /\ Rest(ix, idl) = <<ix.metas[p], ix.metas[q]>>
  <1> DEFINE s == SubSeq(ix.metas, p, q)
  <1>1. Rest(ix, idl) = s
    BY DEF Rest
  <1>2. DOMAIN s = 1 .. 2 /\ s[1] = ix.metas[p] /\ s[2] = ix.metas[q]
    OBVIOUS
  <1>3. s = [i \in DOMAIN s |-> s[i]]
    OBVIOUS
  <1> HIDE DEF s
  <1>4. s = <<ix.metas[p], ix.metas[q]>>
    BY <1>2, <1>3
  <1>5. Len(ix.metas) >= Len(idl)
    OBVIOUS
  <1> QED BY <1>1, <1>4, <1>5

(* The launch message, *)
LaunchText(user) ==
  Message(LaunchKeys(user, MINT, LaunchPdas(MINT, user), getFeeRecipient(FALSE)), 2, 5,
          LookedUp(AltIndices.writable), LookedUp(AltIndices.readonly))

(* the account at each position of it, *)
LaunchKeysAre(user) ==
  /\ At(LaunchText(user), 0).key = user /\ At(LaunchText(user), 1).key = MINT
  /\ At(LaunchText(user), 2).key = bondingCurvePda(MINT)
  /\ At(LaunchText(user), 3).key = CoinAta(bondingCurvePda(MINT))
  /\ At(LaunchText(user), 4).key = getMayhemStatePda(MINT)
  /\ At(LaunchText(user), 5).key = getTokenVaultPda(MINT)
  /\ At(LaunchText(user), 6).key = getFeeRecipient(FALSE)
  /\ At(LaunchText(user), 7).key = creatorVaultPda(user)
  /\ At(LaunchText(user), 8).key = userVolumeAccumulatorPda(user)
  /\ At(LaunchText(user), 9).key = CoinAta(user) /\ At(LaunchText(user), 10).key = TIP_RECIPIENT
  /\ At(LaunchText(user), 11).key = getStaticRandomFeeRecipientForBuyback
  /\ At(LaunchText(user), 12).key = bondingCurveV2Pda(MINT)
  /\ At(LaunchText(user), 13).key = Program("system")
  /\ At(LaunchText(user), 14).key = Program("ata")
  /\ At(LaunchText(user), 15).key = Program("compute budget")
  /\ At(LaunchText(user), 16).key = Program("pump")
  /\ At(LaunchText(user), 17).key = Program("mayhem")
  /\ At(LaunchText(user), 18).key = getSolVaultPda
  /\ At(LaunchText(user), 19).key = MINT_AUTHORITY_PDA
  /\ At(LaunchText(user), 20).key = GLOBAL_PDA
  /\ At(LaunchText(user), 21).key = TOKEN_2022_PROGRAM_ID
  /\ At(LaunchText(user), 22).key = getGlobalParamsPda
  /\ At(LaunchText(user), 23).key = EVENT_AUTHORITY_PDA
  /\ At(LaunchText(user), 24).key = GLOBAL_VOLUME_ACCUMULATOR_PDA
  /\ At(LaunchText(user), 25).key = FEE_CONFIG_PDA
  /\ At(LaunchText(user), 26).key = Program("pumpFees")

(* which the list of keys shows, *)
LEMMA LaunchTextRead == ASSUME NEW user PROVE LaunchKeysAre(user)
  <1> DEFINE text == LaunchText(user)
             keys == <<user, MINT, bondingCurvePda(MINT), CoinAta(bondingCurvePda(MINT)),
                       getMayhemStatePda(MINT), getTokenVaultPda(MINT), getFeeRecipient(FALSE),
                       creatorVaultPda(user), userVolumeAccumulatorPda(user), CoinAta(user),
                       TIP_RECIPIENT, getStaticRandomFeeRecipientForBuyback,
                       bondingCurveV2Pda(MINT), Program("system"), Program("ata"),
                       Program("compute budget"), Program("pump")>>
                     \o <<Program("mayhem"), getSolVaultPda>>
                     \o <<MINT_AUTHORITY_PDA, GLOBAL_PDA, TOKEN_2022_PROGRAM_ID,
                          getGlobalParamsPda, EVENT_AUTHORITY_PDA,
                          GLOBAL_VOLUME_ACCUMULATOR_PDA, FEE_CONFIG_PDA, Program("pumpFees")>>
  <1>1. /\ At(text, 0).key = text.keys[1] /\ At(text, 1).key = text.keys[2]
        /\ At(text, 2).key = text.keys[3] /\ At(text, 3).key = text.keys[4]
        /\ At(text, 4).key = text.keys[5] /\ At(text, 5).key = text.keys[6]
        /\ At(text, 6).key = text.keys[7] /\ At(text, 7).key = text.keys[8]
        /\ At(text, 8).key = text.keys[9]
    BY DEF At, Meta
  <1>2. /\ At(text, 9).key = text.keys[10] /\ At(text, 10).key = text.keys[11]
         /\ At(text, 11).key = text.keys[12] /\ At(text, 12).key = text.keys[13]
         /\ At(text, 13).key = text.keys[14] /\ At(text, 14).key = text.keys[15]
         /\ At(text, 15).key = text.keys[16] /\ At(text, 16).key = text.keys[17]
         /\ At(text, 17).key = text.keys[18]
    BY DEF At, Meta
  <1>3. /\ At(text, 18).key = text.keys[19] /\ At(text, 19).key = text.keys[20]
         /\ At(text, 20).key = text.keys[21] /\ At(text, 21).key = text.keys[22]
         /\ At(text, 22).key = text.keys[23] /\ At(text, 23).key = text.keys[24]
         /\ At(text, 24).key = text.keys[25] /\ At(text, 25).key = text.keys[26]
         /\ At(text, 26).key = text.keys[27]
    BY DEF At, Meta
  <1>4. text.keys = keys
    BY TableRead DEF LaunchText, Message, LaunchKeys, LaunchPdas, CoinAta, getTokenVaultPda
  <1>5. /\ keys[1] = user /\ keys[2] = MINT /\ keys[3] = bondingCurvePda(MINT)
        /\ keys[4] = CoinAta(bondingCurvePda(MINT)) /\ keys[5] = getMayhemStatePda(MINT)
        /\ keys[6] = getTokenVaultPda(MINT) /\ keys[7] = getFeeRecipient(FALSE)
        /\ keys[8] = creatorVaultPda(user) /\ keys[9] = userVolumeAccumulatorPda(user)
    OBVIOUS
  <1>6. /\ keys[10] = CoinAta(user) /\ keys[11] = TIP_RECIPIENT
        /\ keys[12] = getStaticRandomFeeRecipientForBuyback /\ keys[13] = bondingCurveV2Pda(MINT)
        /\ keys[14] = Program("system") /\ keys[15] = Program("ata")
        /\ keys[16] = Program("compute budget") /\ keys[17] = Program("pump")
        /\ keys[18] = Program("mayhem")
    OBVIOUS
  <1>7. /\ keys[19] = getSolVaultPda /\ keys[20] = MINT_AUTHORITY_PDA /\ keys[21] = GLOBAL_PDA
        /\ keys[22] = TOKEN_2022_PROGRAM_ID /\ keys[23] = getGlobalParamsPda
        /\ keys[24] = EVENT_AUTHORITY_PDA /\ keys[25] = GLOBAL_VOLUME_ACCUMULATOR_PDA
        /\ keys[26] = FEE_CONFIG_PDA /\ keys[27] = Program("pumpFees")
    OBVIOUS
  <1> HIDE DEF keys, text
  <1>8. /\ At(text, 0).key = user /\ At(text, 1).key = MINT
        /\ At(text, 2).key = bondingCurvePda(MINT)
        /\ At(text, 3).key = CoinAta(bondingCurvePda(MINT))
        /\ At(text, 4).key = getMayhemStatePda(MINT) /\ At(text, 5).key = getTokenVaultPda(MINT)
        /\ At(text, 6).key = getFeeRecipient(FALSE) /\ At(text, 7).key = creatorVaultPda(user)
        /\ At(text, 8).key = userVolumeAccumulatorPda(user)
    BY <1>1, <1>4, <1>5
  <1>9. /\ At(text, 9).key = CoinAta(user) /\ At(text, 10).key = TIP_RECIPIENT
        /\ At(text, 11).key = getStaticRandomFeeRecipientForBuyback
        /\ At(text, 12).key = bondingCurveV2Pda(MINT) /\ At(text, 13).key = Program("system")
        /\ At(text, 14).key = Program("ata") /\ At(text, 15).key = Program("compute budget")
        /\ At(text, 16).key = Program("pump") /\ At(text, 17).key = Program("mayhem")
    BY <1>2, <1>4, <1>6
  <1>10. /\ At(text, 18).key = getSolVaultPda /\ At(text, 19).key = MINT_AUTHORITY_PDA
        /\ At(text, 20).key = GLOBAL_PDA /\ At(text, 21).key = TOKEN_2022_PROGRAM_ID
        /\ At(text, 22).key = getGlobalParamsPda /\ At(text, 23).key = EVENT_AUTHORITY_PDA
        /\ At(text, 24).key = GLOBAL_VOLUME_ACCUMULATOR_PDA /\ At(text, 25).key = FEE_CONFIG_PDA
        /\ At(text, 26).key = Program("pumpFees")
    BY <1>3, <1>4, <1>7
  <1> QED BY <1>8, <1>9, <1>10 DEF LaunchKeysAre, text

(* and the positions it marks. *)
LEMMA LaunchTextMarks ==
    ASSUME NEW user
    PROVE  /\ \A p \in {0, 1, 2, 3, 4, 5, 6, 7, 8, 9, 10, 11, 17, 18} :
                "w" \in At(LaunchText(user), p).flags
           /\ \A p \in {0, 1} : "s" \in At(LaunchText(user), p).flags
  <1>1. /\ \A p \in {0, 1, 2, 3, 4, 5, 6, 7, 8, 9, 10, 11, 17, 18} : p \in LaunchText(user).writes
        /\ \A p \in {0, 1} : p \in LaunchText(user).signs
    BY TableRead DEF LaunchText, Message, LaunchKeys
  <1> QED BY <1>1, MarksRead

(* The message of a buy, *)
BuyText(user) ==
  Message(BuyKeys(user, userVolumeAccumulatorPda(user), MINT, LaunchPdas(MINT, Dev),
                  CoinAta(user), getFeeRecipient(FALSE)),
          1, 12, <<>>, <<>>)

(* the account at each position of it, *)
BuyKeysAre(user) ==
  /\ At(BuyText(user), 0).key = user /\ At(BuyText(user), 1).key = bondingCurvePda(MINT)
  /\ At(BuyText(user), 2).key = CoinAta(bondingCurvePda(MINT))
  /\ At(BuyText(user), 3).key = CoinAta(user) /\ At(BuyText(user), 4).key = getFeeRecipient(FALSE)
  /\ At(BuyText(user), 5).key = creatorVaultPda(Dev)
  /\ At(BuyText(user), 6).key = userVolumeAccumulatorPda(user)
  /\ At(BuyText(user), 7).key = getStaticRandomFeeRecipientForBuyback
  /\ At(BuyText(user), 8).key = TIP_RECIPIENT /\ At(BuyText(user), 9).key = MINT
  /\ At(BuyText(user), 10).key = GLOBAL_PDA /\ At(BuyText(user), 11).key = Program("system")
  /\ At(BuyText(user), 12).key = TOKEN_2022_PROGRAM_ID
  /\ At(BuyText(user), 13).key = EVENT_AUTHORITY_PDA
  /\ At(BuyText(user), 14).key = Program("pump") /\ At(BuyText(user), 15).key = FEE_CONFIG_PDA
  /\ At(BuyText(user), 16).key = Program("pumpFees")
  /\ At(BuyText(user), 17).key = bondingCurveV2Pda(MINT)
  /\ At(BuyText(user), 18).key = GLOBAL_VOLUME_ACCUMULATOR_PDA
  /\ At(BuyText(user), 19).key = Program("ata")
  /\ At(BuyText(user), 20).key = Program("compute budget")

(* which the list of keys shows, *)
LEMMA BuyTextRead == ASSUME NEW user PROVE BuyKeysAre(user)
  <1>1. \A text : /\ At(text, 0).key = text.keys[1] /\ At(text, 1).key = text.keys[2]
                  /\ At(text, 2).key = text.keys[3] /\ At(text, 3).key = text.keys[4]
                  /\ At(text, 4).key = text.keys[5] /\ At(text, 5).key = text.keys[6]
                  /\ At(text, 6).key = text.keys[7] /\ At(text, 7).key = text.keys[8]
                  /\ At(text, 8).key = text.keys[9] /\ At(text, 9).key = text.keys[10]
                  /\ At(text, 10).key = text.keys[11] /\ At(text, 11).key = text.keys[12]
                  /\ At(text, 12).key = text.keys[13] /\ At(text, 13).key = text.keys[14]
                  /\ At(text, 14).key = text.keys[15] /\ At(text, 15).key = text.keys[16]
                  /\ At(text, 16).key = text.keys[17] /\ At(text, 17).key = text.keys[18]
                  /\ At(text, 18).key = text.keys[19] /\ At(text, 19).key = text.keys[20]
                  /\ At(text, 20).key = text.keys[21]
    BY DEF At, Meta
  <1>2. /\ BuyText(user).keys[1] = user /\ BuyText(user).keys[2] = bondingCurvePda(MINT)
        /\ BuyText(user).keys[3] = CoinAta(bondingCurvePda(MINT))
        /\ BuyText(user).keys[4] = CoinAta(user) /\ BuyText(user).keys[5] = getFeeRecipient(FALSE)
        /\ BuyText(user).keys[6] = creatorVaultPda(Dev)
        /\ BuyText(user).keys[7] = userVolumeAccumulatorPda(user)
        /\ BuyText(user).keys[8] = getStaticRandomFeeRecipientForBuyback
        /\ BuyText(user).keys[9] = TIP_RECIPIENT /\ BuyText(user).keys[10] = MINT
        /\ BuyText(user).keys[11] = GLOBAL_PDA /\ BuyText(user).keys[12] = Program("system")
        /\ BuyText(user).keys[13] = TOKEN_2022_PROGRAM_ID
        /\ BuyText(user).keys[14] = EVENT_AUTHORITY_PDA
        /\ BuyText(user).keys[15] = Program("pump") /\ BuyText(user).keys[16] = FEE_CONFIG_PDA
        /\ BuyText(user).keys[17] = Program("pumpFees")
        /\ BuyText(user).keys[18] = bondingCurveV2Pda(MINT)
        /\ BuyText(user).keys[19] = GLOBAL_VOLUME_ACCUMULATOR_PDA
        /\ BuyText(user).keys[20] = Program("ata")
        /\ BuyText(user).keys[21] = Program("compute budget")
    BY DEF BuyText, Message, BuyKeys, LaunchPdas, CoinAta
  <1> QED BY <1>1, <1>2, ZenonT(30) DEF BuyKeysAre

(* and the positions it marks. *)
LEMMA BuyTextMarks ==
    ASSUME NEW user
    PROVE  /\ \A p \in {0, 1, 2, 3, 4, 5, 6, 7, 8} :
                "w" \in At(BuyText(user), p).flags
           /\ \A p \in {0} : "s" \in At(BuyText(user), p).flags
  <1>1. /\ \A p \in {0, 1, 2, 3, 4, 5, 6, 7, 8} : p \in BuyText(user).writes
        /\ \A p \in {0} : p \in BuyText(user).signs
    BY DEF BuyText, Message, BuyKeys
  <1> QED BY <1>1, MarksRead

(* The message of a sale, *)
SellText(user) ==
  Message(SellKeys(user, MINT, LaunchPdas(MINT, Dev),
                   CoinAta(user), getFeeRecipient(FALSE)),
          1, 10, <<>>, <<>>)

(* the account at each position of it, *)
SellKeysAre(user) ==
  /\ At(SellText(user), 0).key = user /\ At(SellText(user), 1).key = bondingCurvePda(MINT)
  /\ At(SellText(user), 2).key = CoinAta(bondingCurvePda(MINT))
  /\ At(SellText(user), 3).key = CoinAta(user)
  /\ At(SellText(user), 4).key = getFeeRecipient(FALSE)
  /\ At(SellText(user), 5).key = creatorVaultPda(Dev)
  /\ At(SellText(user), 6).key = getStaticRandomFeeRecipientForBuyback
  /\ At(SellText(user), 7).key = TIP_RECIPIENT /\ At(SellText(user), 8).key = MINT
  /\ At(SellText(user), 9).key = GLOBAL_PDA /\ At(SellText(user), 10).key = Program("system")
  /\ At(SellText(user), 11).key = TOKEN_2022_PROGRAM_ID
  /\ At(SellText(user), 12).key = EVENT_AUTHORITY_PDA
  /\ At(SellText(user), 13).key = Program("pump") /\ At(SellText(user), 14).key = FEE_CONFIG_PDA
  /\ At(SellText(user), 15).key = Program("pumpFees")
  /\ At(SellText(user), 16).key = bondingCurveV2Pda(MINT)
  /\ At(SellText(user), 17).key = Program("compute budget")

(* which the list of keys shows, *)
LEMMA SellTextRead == ASSUME NEW user PROVE SellKeysAre(user)
  <1>1. \A text : /\ At(text, 0).key = text.keys[1] /\ At(text, 1).key = text.keys[2]
                  /\ At(text, 2).key = text.keys[3] /\ At(text, 3).key = text.keys[4]
                  /\ At(text, 4).key = text.keys[5] /\ At(text, 5).key = text.keys[6]
                  /\ At(text, 6).key = text.keys[7] /\ At(text, 7).key = text.keys[8]
                  /\ At(text, 8).key = text.keys[9] /\ At(text, 9).key = text.keys[10]
                  /\ At(text, 10).key = text.keys[11] /\ At(text, 11).key = text.keys[12]
                  /\ At(text, 12).key = text.keys[13] /\ At(text, 13).key = text.keys[14]
                  /\ At(text, 14).key = text.keys[15] /\ At(text, 15).key = text.keys[16]
                  /\ At(text, 16).key = text.keys[17] /\ At(text, 17).key = text.keys[18]
    BY DEF At, Meta
  <1>2. /\ SellText(user).keys[1] = user /\ SellText(user).keys[2] = bondingCurvePda(MINT)
        /\ SellText(user).keys[3] = CoinAta(bondingCurvePda(MINT))
        /\ SellText(user).keys[4] = CoinAta(user)
        /\ SellText(user).keys[5] = getFeeRecipient(FALSE)
        /\ SellText(user).keys[6] = creatorVaultPda(Dev)
        /\ SellText(user).keys[7] = getStaticRandomFeeRecipientForBuyback
        /\ SellText(user).keys[8] = TIP_RECIPIENT /\ SellText(user).keys[9] = MINT
        /\ SellText(user).keys[10] = GLOBAL_PDA /\ SellText(user).keys[11] = Program("system")
        /\ SellText(user).keys[12] = TOKEN_2022_PROGRAM_ID
        /\ SellText(user).keys[13] = EVENT_AUTHORITY_PDA
        /\ SellText(user).keys[14] = Program("pump") /\ SellText(user).keys[15] = FEE_CONFIG_PDA
        /\ SellText(user).keys[16] = Program("pumpFees")
        /\ SellText(user).keys[17] = bondingCurveV2Pda(MINT)
        /\ SellText(user).keys[18] = Program("compute budget")
    BY DEF SellText, Message, SellKeys, LaunchPdas, CoinAta
  <1> QED BY <1>1, <1>2 DEF SellKeysAre

(* and the positions it marks. *)
LEMMA SellTextMarks ==
    ASSUME NEW user
    PROVE  /\ \A p \in {0, 1, 2, 3, 4, 5, 6, 7} :
                "w" \in At(SellText(user), p).flags
           /\ \A p \in {0} : "s" \in At(SellText(user), p).flags
  <1>1. /\ \A p \in {0, 1, 2, 3, 4, 5, 6, 7} : p \in SellText(user).writes
        /\ \A p \in {0} : p \in SellText(user).signs
    BY DEF SellText, Message, SellKeys
  <1> QED BY <1>1, MarksRead

(* The keys of an instruction that opens a token account, *)
AccountKeys(metas, user) ==
  /\ metas[1].key = user /\ metas[2].key = CoinAta(user) /\ metas[3].key = user
  /\ metas[4].key = MINT /\ metas[5].key = Program("system")
  /\ metas[6].key = TOKEN_2022_PROGRAM_ID

(* and what it marks; *)
AccountMetas(metas, user) ==
  /\ Len(metas) = 6 /\ AccountKeys(metas, user)
  /\ \A i \in {1, 2} : "w" \in metas[i].flags
  /\ "s" \in metas[1].flags

(* the program then reads these accounts. *)
LEMMA AccountRead ==
    ASSUME NEW user, NEW ix, AccountMetas(ix.metas, user),
           NEW acc, acc = Accounts(ix, IDL!createIdempotent)
    PROVE  /\ Flagged(ix, IDL!createIdempotent) /\ DOMAIN acc = Names(IDL!createIdempotent)
           /\ Covers(Rest(ix, IDL!createIdempotent), <<>>) /\ acc["funder"] = user
           /\ acc["ata"] = CoinAta(user) /\ acc["wallet"] = user /\ acc["mint"] = MINT
           /\ acc["systemProgram"] = Program("system")
           /\ acc["tokenProgram"] = TOKEN_2022_PROGRAM_ID
  <1> DEFINE idl == IDL!createIdempotent
  <1>1. AccountRows(idl)
    BY AccountRowsAre
  <1> HIDE DEF idl
  <1>2. Len(ix.metas) = 6
    BY DEF AccountMetas, AccountKeys
  <1>3. /\ ix.metas[1].key = user /\ ix.metas[2].key = CoinAta(user) /\ ix.metas[3].key = user
        /\ ix.metas[4].key = MINT /\ ix.metas[5].key = Program("system")
        /\ ix.metas[6].key = TOKEN_2022_PROGRAM_ID
    BY DEF AccountMetas, AccountKeys
  <1>4. /\ DOMAIN acc = Names(idl)
        /\ \A i \in 1 .. 6 : acc[idl[i].name] = ix.metas[i].key
    <2>1. /\ \A i \in DOMAIN idl, j \in DOMAIN idl : idl[i].name = idl[j].name => i = j
          /\ DOMAIN idl = 1 .. 6
      BY <1>1 DEF AccountRows
    <2>2. acc = Accounts(ix, idl)
      BY DEF idl
    <2> QED BY <2>1, <2>2, AccountsAt
  <1>5. /\ acc["funder"] = user /\ acc["ata"] = CoinAta(user) /\ acc["wallet"] = user
        /\ acc["mint"] = MINT /\ acc["systemProgram"] = Program("system")
        /\ acc["tokenProgram"] = TOKEN_2022_PROGRAM_ID
    <2>1. /\ idl[1].name = "funder" /\ idl[2].name = "ata" /\ idl[3].name = "wallet"
          /\ idl[4].name = "mint" /\ idl[5].name = "systemProgram" /\ idl[6].name = "tokenProgram"
      BY <1>1 DEF AccountRows
    <2>2. /\ acc[idl[1].name] = ix.metas[1].key /\ acc[idl[2].name] = ix.metas[2].key
          /\ acc[idl[3].name] = ix.metas[3].key /\ acc[idl[4].name] = ix.metas[4].key
          /\ acc[idl[5].name] = ix.metas[5].key /\ acc[idl[6].name] = ix.metas[6].key
      BY <1>4
    <2>3. /\ acc["funder"] = ix.metas[1].key /\ acc["ata"] = ix.metas[2].key
          /\ acc["wallet"] = ix.metas[3].key /\ acc["mint"] = ix.metas[4].key
          /\ acc["systemProgram"] = ix.metas[5].key /\ acc["tokenProgram"] = ix.metas[6].key
      BY <2>1, <2>2
    <2> QED BY <1>3, <2>3
  <1>6. /\ \A i \in {1, 2} : "w" \in ix.metas[i].flags
        /\ \A i \in {1} : "s" \in ix.metas[i].flags
    BY DEF AccountMetas, AccountKeys
  <1>7. Len(ix.metas) >= Len(idl) /\ Rest(ix, idl) = <<>>
    <2>1. 6 \in Nat
      OBVIOUS
    <2>2. Len(idl) = 6 /\ Len(ix.metas) = 6
      BY <1>1, <1>2 DEF AccountRows
    <2> QED BY <2>1, <2>2, RestNone
  <1>8. Flagged(ix, idl)
    <2>1. /\ \A i \in {1} : idl[i].flags = {"s", "w"}
          /\ \A i \in {2} : idl[i].flags = {"w"}
          /\ \A i \in {3, 4, 5, 6} : idl[i].flags = {}
      BY <1>1, RowFlags DEF AccountRows
    <2>2. \A i \in 1 .. 6 : idl[i].flags \subseteq ix.metas[i].flags
      BY <1>6, <2>1
    <2>3. DOMAIN idl = 1 .. 6
      BY <1>1 DEF AccountRows
    <2> QED BY <1>7, <2>2, <2>3 DEF Flagged
  <1>9. Covers(Rest(ix, idl), <<>>)
    BY <1>7, CoversSelf
  <1> QED BY <1>2, <1>4, <1>5, <1>8, <1>9 DEF idl

(* The keys of a buy, *)
TradeKeys(metas, user, creator) ==
  /\ metas[1].key = GLOBAL_PDA /\ metas[2].key = getFeeRecipient(FALSE)
  /\ metas[3].key = MINT /\ metas[4].key = bondingCurvePda(MINT)
  /\ metas[5].key = CoinAta(bondingCurvePda(MINT)) /\ metas[6].key = CoinAta(user)
  /\ metas[7].key = user /\ metas[8].key = Program("system")
  /\ metas[9].key = TOKEN_2022_PROGRAM_ID /\ metas[10].key = creatorVaultPda(creator)
  /\ metas[11].key = EVENT_AUTHORITY_PDA /\ metas[12].key = Program("pump")
  /\ metas[13].key = GLOBAL_VOLUME_ACCUMULATOR_PDA
  /\ metas[14].key = userVolumeAccumulatorPda(user) /\ metas[15].key = FEE_CONFIG_PDA
  /\ metas[16].key = Program("pumpFees") /\ metas[17].key = bondingCurveV2Pda(MINT)
  /\ metas[18].key = getStaticRandomFeeRecipientForBuyback

(* and what it marks; *)
BuyMetas(metas, user, creator) ==
  /\ Len(metas) = 18 /\ TradeKeys(metas, user, creator)
  /\ \A i \in {2, 4, 5, 6, 7, 10, 14, 18} : "w" \in metas[i].flags
  /\ "s" \in metas[7].flags

(* the program then reads these accounts. *)
LEMMA BuyRead ==
    ASSUME NEW user, NEW creator, NEW ix, BuyMetas(ix.metas, user, creator),
           NEW acc, acc = Accounts(ix, IDL!buy)
    PROVE  /\ TradeWritten(ix, IDL!buy, acc, user, creator)
           /\ acc["globalVolumeAccumulator"] = GLOBAL_VOLUME_ACCUMULATOR_PDA
           /\ acc["userVolumeAccumulator"] = userVolumeAccumulatorPda(user)
  <1> DEFINE idl == IDL!buy
  <1>1. BuyRows(idl)
    BY BuyRowsAre
  <1> HIDE DEF idl
  <1>2. Len(ix.metas) = 18
    BY DEF BuyMetas, TradeKeys
  <1>3. /\ ix.metas[1].key = GLOBAL_PDA /\ ix.metas[2].key = getFeeRecipient(FALSE)
        /\ ix.metas[3].key = MINT /\ ix.metas[4].key = bondingCurvePda(MINT)
        /\ ix.metas[5].key = CoinAta(bondingCurvePda(MINT)) /\ ix.metas[6].key = CoinAta(user)
        /\ ix.metas[7].key = user /\ ix.metas[8].key = Program("system")
        /\ ix.metas[9].key = TOKEN_2022_PROGRAM_ID /\ ix.metas[10].key = creatorVaultPda(creator)
        /\ ix.metas[11].key = EVENT_AUTHORITY_PDA /\ ix.metas[12].key = Program("pump")
        /\ ix.metas[13].key = GLOBAL_VOLUME_ACCUMULATOR_PDA
        /\ ix.metas[14].key = userVolumeAccumulatorPda(user) /\ ix.metas[15].key = FEE_CONFIG_PDA
        /\ ix.metas[16].key = Program("pumpFees") /\ ix.metas[17].key = bondingCurveV2Pda(MINT)
        /\ ix.metas[18].key = getStaticRandomFeeRecipientForBuyback
    BY DEF BuyMetas, TradeKeys
  <1>4. /\ DOMAIN acc = Names(idl)
        /\ \A i \in 1 .. 16 : acc[idl[i].name] = ix.metas[i].key
    <2>1. /\ \A i \in DOMAIN idl, j \in DOMAIN idl : idl[i].name = idl[j].name => i = j
          /\ DOMAIN idl = 1 .. 16
      BY <1>1 DEF BuyRows
    <2>2. acc = Accounts(ix, idl)
      BY DEF idl
    <2> QED BY <2>1, <2>2, AccountsAt
  <1>5. /\ acc["global"] = GLOBAL_PDA /\ acc["feeRecipient"] = getFeeRecipient(FALSE)
        /\ acc["mint"] = MINT /\ acc["bondingCurve"] = bondingCurvePda(MINT)
        /\ acc["associatedBondingCurve"] = CoinAta(bondingCurvePda(MINT))
        /\ acc["associatedUser"] = CoinAta(user) /\ acc["user"] = user
        /\ acc["systemProgram"] = Program("system") /\ acc["tokenProgram"] = TOKEN_2022_PROGRAM_ID
        /\ acc["creatorVault"] = creatorVaultPda(creator)
        /\ acc["eventAuthority"] = EVENT_AUTHORITY_PDA /\ acc["program"] = Program("pump")
        /\ acc["globalVolumeAccumulator"] = GLOBAL_VOLUME_ACCUMULATOR_PDA
        /\ acc["userVolumeAccumulator"] = userVolumeAccumulatorPda(user)
        /\ acc["feeConfig"] = FEE_CONFIG_PDA /\ acc["feeProgram"] = Program("pumpFees")
    <2>1. /\ idl[1].name = "global" /\ idl[2].name = "feeRecipient" /\ idl[3].name = "mint"
          /\ idl[4].name = "bondingCurve" /\ idl[5].name = "associatedBondingCurve"
          /\ idl[6].name = "associatedUser" /\ idl[7].name = "user"
          /\ idl[8].name = "systemProgram" /\ idl[9].name = "tokenProgram"
          /\ idl[10].name = "creatorVault" /\ idl[11].name = "eventAuthority"
          /\ idl[12].name = "program" /\ idl[13].name = "globalVolumeAccumulator"
          /\ idl[14].name = "userVolumeAccumulator" /\ idl[15].name = "feeConfig"
          /\ idl[16].name = "feeProgram"
      BY <1>1 DEF BuyRows
    <2>2. /\ acc[idl[1].name] = ix.metas[1].key /\ acc[idl[2].name] = ix.metas[2].key
          /\ acc[idl[3].name] = ix.metas[3].key /\ acc[idl[4].name] = ix.metas[4].key
          /\ acc[idl[5].name] = ix.metas[5].key /\ acc[idl[6].name] = ix.metas[6].key
          /\ acc[idl[7].name] = ix.metas[7].key /\ acc[idl[8].name] = ix.metas[8].key
          /\ acc[idl[9].name] = ix.metas[9].key /\ acc[idl[10].name] = ix.metas[10].key
          /\ acc[idl[11].name] = ix.metas[11].key /\ acc[idl[12].name] = ix.metas[12].key
          /\ acc[idl[13].name] = ix.metas[13].key /\ acc[idl[14].name] = ix.metas[14].key
          /\ acc[idl[15].name] = ix.metas[15].key /\ acc[idl[16].name] = ix.metas[16].key
      BY <1>4
    <2>3. /\ acc["global"] = ix.metas[1].key /\ acc["feeRecipient"] = ix.metas[2].key
          /\ acc["mint"] = ix.metas[3].key /\ acc["bondingCurve"] = ix.metas[4].key
          /\ acc["associatedBondingCurve"] = ix.metas[5].key
          /\ acc["associatedUser"] = ix.metas[6].key /\ acc["user"] = ix.metas[7].key
          /\ acc["systemProgram"] = ix.metas[8].key /\ acc["tokenProgram"] = ix.metas[9].key
          /\ acc["creatorVault"] = ix.metas[10].key /\ acc["eventAuthority"] = ix.metas[11].key
          /\ acc["program"] = ix.metas[12].key
          /\ acc["globalVolumeAccumulator"] = ix.metas[13].key
          /\ acc["userVolumeAccumulator"] = ix.metas[14].key
          /\ acc["feeConfig"] = ix.metas[15].key /\ acc["feeProgram"] = ix.metas[16].key
      BY <2>1, <2>2
    <2> QED BY <1>3, <2>3
  <1>6. /\ \A i \in {2, 4, 5, 6, 7, 10, 14, 18} : "w" \in ix.metas[i].flags
        /\ \A i \in {7} : "s" \in ix.metas[i].flags
    BY DEF BuyMetas, TradeKeys
  <1>7. Len(ix.metas) >= Len(idl) /\ Rest(ix, idl) = <<ix.metas[17], ix.metas[18]>>
    <2>1. {16, 17, 18} \subseteq Nat /\ 17 = 16 + 1 /\ 18 = 16 + 2
      OBVIOUS
    <2>2. Len(idl) = 16 /\ Len(ix.metas) = 18
      BY <1>1, <1>2 DEF BuyRows
    <2> QED BY <2>1, <2>2, RestTwo
  <1>8. Flagged(ix, idl)
    <2>1. /\ \A i \in {1, 3, 8, 9, 11, 12, 13, 15, 16} : idl[i].flags = {}
          /\ \A i \in {2, 4, 5, 6, 10, 14} : idl[i].flags = {"w"}
          /\ \A i \in {7} : idl[i].flags = {"s", "w"}
      BY <1>1, RowFlags DEF BuyRows
    <2>2. \A i \in 1 .. 16 : idl[i].flags \subseteq ix.metas[i].flags
      BY <1>6, <2>1
    <2>3. DOMAIN idl = 1 .. 16
      BY <1>1 DEF BuyRows
    <2> QED BY <1>7, <2>2, <2>3 DEF Flagged
  <1>9. Covers(Rest(ix, idl), TradeRest)
    BY <1>3, <1>6, <1>7, RestOfTrade
  <1> QED BY <1>2, <1>4, <1>5, <1>8, <1>9 DEF idl, TradeWritten

(* What the programs read: in the launch message, of the creation, *)
LEMMA LaunchCreateWritten ==
    ASSUME NEW user, NEW ix,
           ix = Decoded(LaunchText(user), "createV2", CREATE_V2_ACCOUNTS,
                        [creator |-> user, mayhem |-> FALSE, cashback |-> FALSE]),
           NEW acc, acc = Accounts(ix, IDL!createV2)
    PROVE  /\ ix.op = "createV2"
           /\ ix.args = [creator |-> user, mayhem |-> FALSE, cashback |-> FALSE]
           /\ Flagged(ix, IDL!createV2) /\ DOMAIN acc = Names(IDL!createV2)
           /\ Covers(Rest(ix, IDL!createV2), <<>>) /\ acc["mint"] = MINT
           /\ acc["mintAuthority"] = MINT_AUTHORITY_PDA
           /\ acc["bondingCurve"] = bondingCurvePda(MINT)
           /\ acc["associatedBondingCurve"] = CoinAta(bondingCurvePda(MINT))
           /\ acc["global"] = GLOBAL_PDA /\ acc["user"] = user
           /\ acc["systemProgram"] = Program("system")
           /\ acc["tokenProgram"] = TOKEN_2022_PROGRAM_ID
           /\ acc["associatedTokenProgram"] = Program("ata")
           /\ acc["mayhemProgramId"] = Program("mayhem")
           /\ acc["globalParams"] = getGlobalParamsPda /\ acc["solVault"] = getSolVaultPda
           /\ acc["mayhemState"] = getMayhemStatePda(MINT)
           /\ acc["mayhemTokenVault"] = getTokenVaultPda(MINT)
           /\ acc["eventAuthority"] = EVENT_AUTHORITY_PDA /\ acc["program"] = Program("pump")
  <1> DEFINE idl == IDL!createV2
  <1>1. CreateV2Rows(idl)
    BY CreateV2RowsAre
  <1> HIDE DEF idl
  <1>2. /\ ix.op = "createV2"
        /\ ix.args = [creator |-> user, mayhem |-> FALSE, cashback |-> FALSE]
        /\ Len(ix.metas) = 16
    BY DEF Decoded, CREATE_V2_ACCOUNTS
  <1>3. /\ ix.metas[1] = At(LaunchText(user), 1) /\ ix.metas[2] = At(LaunchText(user), 19)
        /\ ix.metas[3] = At(LaunchText(user), 2) /\ ix.metas[4] = At(LaunchText(user), 3)
        /\ ix.metas[5] = At(LaunchText(user), 20) /\ ix.metas[6] = At(LaunchText(user), 0)
        /\ ix.metas[7] = At(LaunchText(user), 13) /\ ix.metas[8] = At(LaunchText(user), 21)
        /\ ix.metas[9] = At(LaunchText(user), 14) /\ ix.metas[10] = At(LaunchText(user), 17)
        /\ ix.metas[11] = At(LaunchText(user), 22) /\ ix.metas[12] = At(LaunchText(user), 18)
        /\ ix.metas[13] = At(LaunchText(user), 4) /\ ix.metas[14] = At(LaunchText(user), 5)
        /\ ix.metas[15] = At(LaunchText(user), 23) /\ ix.metas[16] = At(LaunchText(user), 16)
    BY DEF Decoded, CREATE_V2_ACCOUNTS
  <1>4. /\ ix.metas[1].key = MINT /\ ix.metas[2].key = MINT_AUTHORITY_PDA
        /\ ix.metas[3].key = bondingCurvePda(MINT)
        /\ ix.metas[4].key = CoinAta(bondingCurvePda(MINT)) /\ ix.metas[5].key = GLOBAL_PDA
        /\ ix.metas[6].key = user /\ ix.metas[7].key = Program("system")
        /\ ix.metas[8].key = TOKEN_2022_PROGRAM_ID /\ ix.metas[9].key = Program("ata")
        /\ ix.metas[10].key = Program("mayhem") /\ ix.metas[11].key = getGlobalParamsPda
        /\ ix.metas[12].key = getSolVaultPda /\ ix.metas[13].key = getMayhemStatePda(MINT)
        /\ ix.metas[14].key = getTokenVaultPda(MINT) /\ ix.metas[15].key = EVENT_AUTHORITY_PDA
        /\ ix.metas[16].key = Program("pump")
    <2>1. LaunchKeysAre(user)
      BY LaunchTextRead
    <2> QED BY <1>3, <2>1 DEF LaunchKeysAre
  <1>5. /\ DOMAIN acc = Names(idl)
        /\ \A i \in 1 .. 16 : acc[idl[i].name] = ix.metas[i].key
    <2>1. /\ \A i \in DOMAIN idl, j \in DOMAIN idl : idl[i].name = idl[j].name => i = j
          /\ DOMAIN idl = 1 .. 16
      BY <1>1 DEF CreateV2Rows
    <2>2. acc = Accounts(ix, idl)
      BY DEF idl
    <2> QED BY <2>1, <2>2, AccountsAt
  <1>6. /\ acc["mint"] = MINT /\ acc["mintAuthority"] = MINT_AUTHORITY_PDA
        /\ acc["bondingCurve"] = bondingCurvePda(MINT)
        /\ acc["associatedBondingCurve"] = CoinAta(bondingCurvePda(MINT))
        /\ acc["global"] = GLOBAL_PDA /\ acc["user"] = user
        /\ acc["systemProgram"] = Program("system") /\ acc["tokenProgram"] = TOKEN_2022_PROGRAM_ID
        /\ acc["associatedTokenProgram"] = Program("ata")
        /\ acc["mayhemProgramId"] = Program("mayhem") /\ acc["globalParams"] = getGlobalParamsPda
        /\ acc["solVault"] = getSolVaultPda /\ acc["mayhemState"] = getMayhemStatePda(MINT)
        /\ acc["mayhemTokenVault"] = getTokenVaultPda(MINT)
        /\ acc["eventAuthority"] = EVENT_AUTHORITY_PDA /\ acc["program"] = Program("pump")
    <2>1. /\ idl[1].name = "mint" /\ idl[2].name = "mintAuthority" /\ idl[3].name = "bondingCurve"
          /\ idl[4].name = "associatedBondingCurve" /\ idl[5].name = "global"
          /\ idl[6].name = "user" /\ idl[7].name = "systemProgram" /\ idl[8].name = "tokenProgram"
          /\ idl[9].name = "associatedTokenProgram" /\ idl[10].name = "mayhemProgramId"
          /\ idl[11].name = "globalParams" /\ idl[12].name = "solVault"
          /\ idl[13].name = "mayhemState" /\ idl[14].name = "mayhemTokenVault"
          /\ idl[15].name = "eventAuthority" /\ idl[16].name = "program"
      BY <1>1 DEF CreateV2Rows
    <2>2. /\ acc[idl[1].name] = ix.metas[1].key /\ acc[idl[2].name] = ix.metas[2].key
          /\ acc[idl[3].name] = ix.metas[3].key /\ acc[idl[4].name] = ix.metas[4].key
          /\ acc[idl[5].name] = ix.metas[5].key /\ acc[idl[6].name] = ix.metas[6].key
          /\ acc[idl[7].name] = ix.metas[7].key /\ acc[idl[8].name] = ix.metas[8].key
          /\ acc[idl[9].name] = ix.metas[9].key /\ acc[idl[10].name] = ix.metas[10].key
          /\ acc[idl[11].name] = ix.metas[11].key /\ acc[idl[12].name] = ix.metas[12].key
          /\ acc[idl[13].name] = ix.metas[13].key /\ acc[idl[14].name] = ix.metas[14].key
          /\ acc[idl[15].name] = ix.metas[15].key /\ acc[idl[16].name] = ix.metas[16].key
      BY <1>5
    <2>3. /\ acc["mint"] = ix.metas[1].key /\ acc["mintAuthority"] = ix.metas[2].key
          /\ acc["bondingCurve"] = ix.metas[3].key
          /\ acc["associatedBondingCurve"] = ix.metas[4].key /\ acc["global"] = ix.metas[5].key
          /\ acc["user"] = ix.metas[6].key /\ acc["systemProgram"] = ix.metas[7].key
          /\ acc["tokenProgram"] = ix.metas[8].key
          /\ acc["associatedTokenProgram"] = ix.metas[9].key
          /\ acc["mayhemProgramId"] = ix.metas[10].key /\ acc["globalParams"] = ix.metas[11].key
          /\ acc["solVault"] = ix.metas[12].key /\ acc["mayhemState"] = ix.metas[13].key
          /\ acc["mayhemTokenVault"] = ix.metas[14].key
          /\ acc["eventAuthority"] = ix.metas[15].key /\ acc["program"] = ix.metas[16].key
      BY <2>1, <2>2
    <2> QED BY <1>4, <2>3
  <1>7. /\ \A i \in {1, 3, 4, 6, 10, 12, 13, 14} : "w" \in ix.metas[i].flags
        /\ \A i \in {1, 6} : "s" \in ix.metas[i].flags
    BY <1>3, LaunchTextMarks
  <1>8. Len(ix.metas) >= Len(idl) /\ Rest(ix, idl) = <<>>
    <2>1. 16 \in Nat
      OBVIOUS
    <2>2. Len(idl) = 16 /\ Len(ix.metas) = 16
      BY <1>1, <1>2 DEF CreateV2Rows
    <2> QED BY <2>1, <2>2, RestNone
  <1>9. Flagged(ix, idl)
    <2>1. /\ \A i \in {1, 6} : idl[i].flags = {"s", "w"}
          /\ \A i \in {2, 5, 7, 8, 9, 11, 15, 16} : idl[i].flags = {}
          /\ \A i \in {3, 4, 10, 12, 13, 14} : idl[i].flags = {"w"}
      BY <1>1, RowFlags DEF CreateV2Rows
    <2>2. \A i \in 1 .. 16 : idl[i].flags \subseteq ix.metas[i].flags
      BY <1>7, <2>1
    <2>3. DOMAIN idl = 1 .. 16
      BY <1>1 DEF CreateV2Rows
    <2> QED BY <1>8, <2>2, <2>3 DEF Flagged
  <1>10. Covers(Rest(ix, idl), <<>>)
    BY <1>8, CoversSelf
  <1> QED BY <1>2, <1>5, <1>6, <1>9, <1>10 DEF idl

(* of the token account *)
LEMMA LaunchAccountWritten ==
    ASSUME NEW user, NEW ix,
           ix = Decoded(LaunchText(user), "createIdempotent", LAUNCH_ATA_ACCOUNTS,
                        NoArgs),
           NEW acc, acc = Accounts(ix, IDL!createIdempotent)
    PROVE  /\ ix.op = "createIdempotent" /\ ix.args = NoArgs /\ Flagged(ix, IDL!createIdempotent)
           /\ DOMAIN acc = Names(IDL!createIdempotent)
           /\ Covers(Rest(ix, IDL!createIdempotent), <<>>) /\ acc["funder"] = user
           /\ acc["ata"] = CoinAta(user) /\ acc["wallet"] = user /\ acc["mint"] = MINT
           /\ acc["systemProgram"] = Program("system")
           /\ acc["tokenProgram"] = TOKEN_2022_PROGRAM_ID
  <1>1. /\ ix.op = "createIdempotent" /\ ix.args = NoArgs /\ Len(ix.metas) = 6
    BY DEF Decoded, LAUNCH_ATA_ACCOUNTS
  <1>2. /\ ix.metas[1] = At(LaunchText(user), 0) /\ ix.metas[2] = At(LaunchText(user), 9)
        /\ ix.metas[3] = At(LaunchText(user), 0) /\ ix.metas[4] = At(LaunchText(user), 1)
        /\ ix.metas[5] = At(LaunchText(user), 13) /\ ix.metas[6] = At(LaunchText(user), 21)
    BY DEF Decoded, LAUNCH_ATA_ACCOUNTS
  <1>3. AccountKeys(ix.metas, user)
    <2>1. LaunchKeysAre(user)
      BY LaunchTextRead
    <2> QED BY <1>2, <2>1 DEF AccountKeys, LaunchKeysAre
  <1>4. /\ \A i \in {1, 2} : "w" \in ix.metas[i].flags
        /\ "s" \in ix.metas[1].flags
    BY <1>2, LaunchTextMarks
  <1>5. AccountMetas(ix.metas, user)
    BY <1>1, <1>3, <1>4 DEF AccountMetas
  <1> QED BY <1>1, <1>5, AccountRead

(* and of the buy; *)
LEMMA LaunchBuyWritten ==
    ASSUME NEW user, NEW ix, ix = Decoded(LaunchText(user), "buy", BUY_ACCOUNTS, NoArgs),
           NEW acc, acc = Accounts(ix, IDL!buy)
    PROVE  /\ ix.op = "buy" /\ TradeWritten(ix, IDL!buy, acc, user, user)
           /\ acc["globalVolumeAccumulator"] = GLOBAL_VOLUME_ACCUMULATOR_PDA
           /\ acc["userVolumeAccumulator"] = userVolumeAccumulatorPda(user)
  <1>1. /\ ix.op = "buy" /\ ix.args = NoArgs /\ Len(ix.metas) = 18
    BY DEF Decoded, BUY_ACCOUNTS
  <1>2. /\ ix.metas[1] = At(LaunchText(user), 20) /\ ix.metas[2] = At(LaunchText(user), 6)
        /\ ix.metas[3] = At(LaunchText(user), 1) /\ ix.metas[4] = At(LaunchText(user), 2)
        /\ ix.metas[5] = At(LaunchText(user), 3) /\ ix.metas[6] = At(LaunchText(user), 9)
        /\ ix.metas[7] = At(LaunchText(user), 0) /\ ix.metas[8] = At(LaunchText(user), 13)
        /\ ix.metas[9] = At(LaunchText(user), 21) /\ ix.metas[10] = At(LaunchText(user), 7)
        /\ ix.metas[11] = At(LaunchText(user), 23) /\ ix.metas[12] = At(LaunchText(user), 16)
        /\ ix.metas[13] = At(LaunchText(user), 24) /\ ix.metas[14] = At(LaunchText(user), 8)
        /\ ix.metas[15] = At(LaunchText(user), 25) /\ ix.metas[16] = At(LaunchText(user), 26)
        /\ ix.metas[17] = At(LaunchText(user), 12) /\ ix.metas[18] = At(LaunchText(user), 11)
    BY DEF Decoded, BUY_ACCOUNTS
  <1>3. TradeKeys(ix.metas, user, user)
    <2>1. LaunchKeysAre(user)
      BY LaunchTextRead
    <2> QED BY <1>2, <2>1 DEF TradeKeys, LaunchKeysAre
  <1>4. /\ \A i \in {2, 4, 5, 6, 7, 10, 14, 18} : "w" \in ix.metas[i].flags
        /\ "s" \in ix.metas[7].flags
    BY <1>2, LaunchTextMarks
  <1>5. BuyMetas(ix.metas, user, user)
    BY <1>1, <1>3, <1>4 DEF BuyMetas
  <1> QED BY <1>1, <1>5, BuyRead

(* in the message of a buy, of the token account *)
LEMMA AccountWritten ==
    ASSUME NEW user, NEW ix,
           ix = Decoded(BuyText(user), "createIdempotent", ATA_IDEMPOTENT_ACCOUNTS,
                        NoArgs),
           NEW acc, acc = Accounts(ix, IDL!createIdempotent)
    PROVE  /\ ix.op = "createIdempotent" /\ ix.args = NoArgs /\ Flagged(ix, IDL!createIdempotent)
           /\ DOMAIN acc = Names(IDL!createIdempotent)
           /\ Covers(Rest(ix, IDL!createIdempotent), <<>>) /\ acc["funder"] = user
           /\ acc["ata"] = CoinAta(user) /\ acc["wallet"] = user /\ acc["mint"] = MINT
           /\ acc["systemProgram"] = Program("system")
           /\ acc["tokenProgram"] = TOKEN_2022_PROGRAM_ID
  <1>1. /\ ix.op = "createIdempotent" /\ ix.args = NoArgs /\ Len(ix.metas) = 6
    BY DEF Decoded, ATA_IDEMPOTENT_ACCOUNTS
  <1>2. /\ ix.metas[1] = At(BuyText(user), 0) /\ ix.metas[2] = At(BuyText(user), 3)
        /\ ix.metas[3] = At(BuyText(user), 0) /\ ix.metas[4] = At(BuyText(user), 9)
        /\ ix.metas[5] = At(BuyText(user), 11) /\ ix.metas[6] = At(BuyText(user), 12)
    BY DEF Decoded, ATA_IDEMPOTENT_ACCOUNTS
  <1>3. AccountKeys(ix.metas, user)
    <2>1. BuyKeysAre(user)
      BY BuyTextRead
    <2> QED BY <1>2, <2>1 DEF AccountKeys, BuyKeysAre
  <1>4. /\ \A i \in {1, 2} : "w" \in ix.metas[i].flags
        /\ "s" \in ix.metas[1].flags
    BY <1>2, BuyTextMarks
  <1>5. AccountMetas(ix.metas, user)
    BY <1>1, <1>3, <1>4 DEF AccountMetas
  <1> QED BY <1>1, <1>5, AccountRead

(* and of the trade; *)
LEMMA BuyWritten ==
    ASSUME NEW user, NEW ix,
           ix = Decoded(BuyText(user), "buyExactSolIn", BUY_EXACT_SOL_ACCOUNTS,
                        NoArgs),
           NEW acc, acc = Accounts(ix, IDL!buy)
    PROVE  /\ ix.op = "buyExactSolIn" /\ TradeWritten(ix, IDL!buy, acc, user, Dev)
           /\ acc["globalVolumeAccumulator"] = GLOBAL_VOLUME_ACCUMULATOR_PDA
           /\ acc["userVolumeAccumulator"] = userVolumeAccumulatorPda(user)
  <1>1. /\ ix.op = "buyExactSolIn" /\ ix.args = NoArgs /\ Len(ix.metas) = 18
    BY DEF Decoded, BUY_EXACT_SOL_ACCOUNTS
  <1>2. /\ ix.metas[1] = At(BuyText(user), 10) /\ ix.metas[2] = At(BuyText(user), 4)
        /\ ix.metas[3] = At(BuyText(user), 9) /\ ix.metas[4] = At(BuyText(user), 1)
        /\ ix.metas[5] = At(BuyText(user), 2) /\ ix.metas[6] = At(BuyText(user), 3)
        /\ ix.metas[7] = At(BuyText(user), 0) /\ ix.metas[8] = At(BuyText(user), 11)
        /\ ix.metas[9] = At(BuyText(user), 12) /\ ix.metas[10] = At(BuyText(user), 5)
        /\ ix.metas[11] = At(BuyText(user), 13) /\ ix.metas[12] = At(BuyText(user), 14)
        /\ ix.metas[13] = At(BuyText(user), 18) /\ ix.metas[14] = At(BuyText(user), 6)
        /\ ix.metas[15] = At(BuyText(user), 15) /\ ix.metas[16] = At(BuyText(user), 16)
        /\ ix.metas[17] = At(BuyText(user), 17) /\ ix.metas[18] = At(BuyText(user), 7)
    BY DEF Decoded, BUY_EXACT_SOL_ACCOUNTS
  <1>3. TradeKeys(ix.metas, user, Dev)
    <2>1. BuyKeysAre(user)
      BY BuyTextRead
    <2> QED BY <1>2, <2>1 DEF TradeKeys, BuyKeysAre
  <1>4. /\ \A i \in {2, 4, 5, 6, 7, 10, 14, 18} : "w" \in ix.metas[i].flags
        /\ "s" \in ix.metas[7].flags
    BY <1>2, BuyTextMarks
  <1>5. BuyMetas(ix.metas, user, Dev)
    BY <1>1, <1>3, <1>4 DEF BuyMetas
  <1> QED BY <1>1, <1>5, BuyRead

(* and in the message of a sale. *)
LEMMA SellWritten ==
    ASSUME NEW user, NEW ix, ix = Decoded(SellText(user), "sell", SELL_ACCOUNTS, NoArgs),
           NEW acc, acc = Accounts(ix, IDL!sell)
    PROVE  /\ ix.op = "sell" /\ TradeWritten(ix, IDL!sell, acc, user, Dev)
  <1> DEFINE idl == IDL!sell
  <1>1. SellRows(idl)
    BY SellRowsAre
  <1> HIDE DEF idl
  <1>2. /\ ix.op = "sell" /\ ix.args = NoArgs /\ Len(ix.metas) = 16
    BY DEF Decoded, SELL_ACCOUNTS
  <1>3. /\ ix.metas[1] = At(SellText(user), 9) /\ ix.metas[2] = At(SellText(user), 4)
        /\ ix.metas[3] = At(SellText(user), 8) /\ ix.metas[4] = At(SellText(user), 1)
        /\ ix.metas[5] = At(SellText(user), 2) /\ ix.metas[6] = At(SellText(user), 3)
        /\ ix.metas[7] = At(SellText(user), 0) /\ ix.metas[8] = At(SellText(user), 10)
        /\ ix.metas[9] = At(SellText(user), 5) /\ ix.metas[10] = At(SellText(user), 11)
        /\ ix.metas[11] = At(SellText(user), 12) /\ ix.metas[12] = At(SellText(user), 13)
        /\ ix.metas[13] = At(SellText(user), 14) /\ ix.metas[14] = At(SellText(user), 15)
        /\ ix.metas[15] = At(SellText(user), 16) /\ ix.metas[16] = At(SellText(user), 6)
    BY DEF Decoded, SELL_ACCOUNTS
  <1>4. /\ ix.metas[1].key = GLOBAL_PDA /\ ix.metas[2].key = getFeeRecipient(FALSE)
        /\ ix.metas[3].key = MINT /\ ix.metas[4].key = bondingCurvePda(MINT)
        /\ ix.metas[5].key = CoinAta(bondingCurvePda(MINT)) /\ ix.metas[6].key = CoinAta(user)
        /\ ix.metas[7].key = user /\ ix.metas[8].key = Program("system")
        /\ ix.metas[9].key = creatorVaultPda(Dev) /\ ix.metas[10].key = TOKEN_2022_PROGRAM_ID
        /\ ix.metas[11].key = EVENT_AUTHORITY_PDA /\ ix.metas[12].key = Program("pump")
        /\ ix.metas[13].key = FEE_CONFIG_PDA /\ ix.metas[14].key = Program("pumpFees")
        /\ ix.metas[15].key = bondingCurveV2Pda(MINT)
        /\ ix.metas[16].key = getStaticRandomFeeRecipientForBuyback
    <2>1. SellKeysAre(user)
      BY SellTextRead
    <2> QED BY <1>3, <2>1 DEF SellKeysAre
  <1>5. /\ DOMAIN acc = Names(idl)
        /\ \A i \in 1 .. 14 : acc[idl[i].name] = ix.metas[i].key
    <2>1. /\ \A i \in DOMAIN idl, j \in DOMAIN idl : idl[i].name = idl[j].name => i = j
          /\ DOMAIN idl = 1 .. 14
      BY <1>1 DEF SellRows
    <2>2. acc = Accounts(ix, idl)
      BY DEF idl
    <2> QED BY <2>1, <2>2, AccountsAt
  <1>6. /\ acc["global"] = GLOBAL_PDA /\ acc["feeRecipient"] = getFeeRecipient(FALSE)
        /\ acc["mint"] = MINT /\ acc["bondingCurve"] = bondingCurvePda(MINT)
        /\ acc["associatedBondingCurve"] = CoinAta(bondingCurvePda(MINT))
        /\ acc["associatedUser"] = CoinAta(user) /\ acc["user"] = user
        /\ acc["systemProgram"] = Program("system") /\ acc["creatorVault"] = creatorVaultPda(Dev)
        /\ acc["tokenProgram"] = TOKEN_2022_PROGRAM_ID
        /\ acc["eventAuthority"] = EVENT_AUTHORITY_PDA /\ acc["program"] = Program("pump")
        /\ acc["feeConfig"] = FEE_CONFIG_PDA /\ acc["feeProgram"] = Program("pumpFees")
    <2>1. /\ idl[1].name = "global" /\ idl[2].name = "feeRecipient" /\ idl[3].name = "mint"
          /\ idl[4].name = "bondingCurve" /\ idl[5].name = "associatedBondingCurve"
          /\ idl[6].name = "associatedUser" /\ idl[7].name = "user"
          /\ idl[8].name = "systemProgram" /\ idl[9].name = "creatorVault"
          /\ idl[10].name = "tokenProgram" /\ idl[11].name = "eventAuthority"
          /\ idl[12].name = "program" /\ idl[13].name = "feeConfig" /\ idl[14].name = "feeProgram"
      BY <1>1 DEF SellRows
    <2>2. /\ acc[idl[1].name] = ix.metas[1].key /\ acc[idl[2].name] = ix.metas[2].key
          /\ acc[idl[3].name] = ix.metas[3].key /\ acc[idl[4].name] = ix.metas[4].key
          /\ acc[idl[5].name] = ix.metas[5].key /\ acc[idl[6].name] = ix.metas[6].key
          /\ acc[idl[7].name] = ix.metas[7].key /\ acc[idl[8].name] = ix.metas[8].key
          /\ acc[idl[9].name] = ix.metas[9].key /\ acc[idl[10].name] = ix.metas[10].key
          /\ acc[idl[11].name] = ix.metas[11].key /\ acc[idl[12].name] = ix.metas[12].key
          /\ acc[idl[13].name] = ix.metas[13].key /\ acc[idl[14].name] = ix.metas[14].key
      BY <1>5
    <2>3. /\ acc["global"] = ix.metas[1].key /\ acc["feeRecipient"] = ix.metas[2].key
          /\ acc["mint"] = ix.metas[3].key /\ acc["bondingCurve"] = ix.metas[4].key
          /\ acc["associatedBondingCurve"] = ix.metas[5].key
          /\ acc["associatedUser"] = ix.metas[6].key /\ acc["user"] = ix.metas[7].key
          /\ acc["systemProgram"] = ix.metas[8].key /\ acc["creatorVault"] = ix.metas[9].key
          /\ acc["tokenProgram"] = ix.metas[10].key /\ acc["eventAuthority"] = ix.metas[11].key
          /\ acc["program"] = ix.metas[12].key /\ acc["feeConfig"] = ix.metas[13].key
          /\ acc["feeProgram"] = ix.metas[14].key
      BY <2>1, <2>2
    <2> QED BY <1>4, <2>3
  <1>7. /\ \A i \in {2, 4, 5, 6, 7, 9, 16} : "w" \in ix.metas[i].flags
        /\ \A i \in {7} : "s" \in ix.metas[i].flags
    BY <1>3, SellTextMarks
  <1>8. Len(ix.metas) >= Len(idl) /\ Rest(ix, idl) = <<ix.metas[15], ix.metas[16]>>
    <2>1. {14, 15, 16} \subseteq Nat /\ 15 = 14 + 1 /\ 16 = 14 + 2
      OBVIOUS
    <2>2. Len(idl) = 14 /\ Len(ix.metas) = 16
      BY <1>1, <1>2 DEF SellRows
    <2> QED BY <2>1, <2>2, RestTwo
  <1>9. Flagged(ix, idl)
    <2>1. /\ \A i \in {1, 3, 8, 10, 11, 12, 13, 14} : idl[i].flags = {}
          /\ \A i \in {2, 4, 5, 6, 9} : idl[i].flags = {"w"}
          /\ \A i \in {7} : idl[i].flags = {"s", "w"}
      BY <1>1, RowFlags DEF SellRows
    <2>2. \A i \in 1 .. 14 : idl[i].flags \subseteq ix.metas[i].flags
      BY <1>7, <2>1
    <2>3. DOMAIN idl = 1 .. 14
      BY <1>1 DEF SellRows
    <2> QED BY <1>8, <2>2, <2>3 DEF Flagged
  <1>10. Covers(Rest(ix, idl), TradeRest)
    BY <1>4, <1>7, <1>8, RestOfTrade
  <1> QED BY <1>2, <1>5, <1>6, <1>9, <1>10 DEF idl, TradeWritten

(* The program runs the creation of the launch message, *)
LEMMA LaunchCreateRuns ==
    ASSUME NEW user \in Users, NEW c, c.phase = "none", NEW ix,
           ix = Decoded(LaunchText(user), "createV2", CREATE_V2_ACCOUNTS,
                        [creator |-> user, mayhem |-> FALSE, cashback |-> FALSE])
    PROVE  Run(c, ix, IDL!Idl[ix.op])
             = [c EXCEPT !.phase = "curve", !.token = TOKEN_2022_PROGRAM_ID, !.creator = user,
                         !.mayhem = FALSE, !.cashback = FALSE, !.size = "new"]
  <1> DEFINE idl == IDL!createV2
             acc == Accounts(ix, idl)
  <1>1. /\ ix.op = "createV2"
        /\ ix.args = [creator |-> user, mayhem |-> FALSE, cashback |-> FALSE]
        /\ Flagged(ix, idl) /\ DOMAIN acc = Names(idl) /\ Covers(Rest(ix, idl), <<>>)
    BY LaunchCreateWritten
  <1>2. /\ acc["mint"] = MINT /\ acc["mintAuthority"] = MINT_AUTHORITY_PDA
        /\ acc["bondingCurve"] = bondingCurvePda(MINT)
        /\ acc["associatedBondingCurve"]
             = getAssociatedTokenAddressSync(MINT, bondingCurvePda(MINT), acc["tokenProgram"])
        /\ acc["global"] = GLOBAL_PDA /\ acc["user"] = user
        /\ acc["systemProgram"] = Program("system")
        /\ acc["tokenProgram"] = TOKEN_2022_PROGRAM_ID
        /\ acc["associatedTokenProgram"] = Program("ata")
        /\ acc["mayhemProgramId"] = Program("mayhem")
        /\ acc["globalParams"] = getGlobalParamsPda /\ acc["solVault"] = getSolVaultPda
        /\ acc["mayhemState"] = getMayhemStatePda(MINT)
        /\ acc["mayhemTokenVault"] = getTokenVaultPda(MINT)
        /\ acc["eventAuthority"] = EVENT_AUTHORITY_PDA /\ acc["program"] = Program("pump")
    BY LaunchCreateWritten DEF CoinAta
  <1> HIDE DEF acc
  <1>3. CreateV2Rows(idl)
    BY CreateV2RowsAre
  <1>4. IDL!Idl[ix.op] = idl
    BY <1>1 DEF IDL!Idl
  <1>5. acc = Accounts(ix, idl)
    BY DEF acc
  <1> HIDE DEF idl
  <1>6. {"bondingCurve", "tokenProgram", "mint"} \subseteq DOMAIN acc
    BY <1>1, <1>3 DEF CreateV2Rows, Names
  <1>7. \A i \in DOMAIN idl : RowHolds(idl[i], ix.op, acc, c)
    <2>1. \A i \in {3, 4, 5, 7, 9, 15} : RowHolds(idl[i], ix.op, acc, c)
      <3>1. /\ RowHolds(IDL!BondingCurve(IDL!W), ix.op, acc, c)
            /\ RowHolds(IDL!AssociatedBondingCurve("tokenProgram"), ix.op, acc, c)
            /\ RowHolds(IDL!Global, ix.op, acc, c)
            /\ RowHolds(IDL!SystemProgram, ix.op, acc, c)
            /\ RowHolds(IDL!AssociatedTokenProgram, ix.op, acc, c)
            /\ RowHolds(IDL!EventAuthority("eventAuthority", "pump"), ix.op, acc, c)
        BY <1>2, <1>6, CommonRowsHold
      <3> QED BY <1>3, <3>1 DEF CreateV2Rows
    <2>2. \A i \in {8, 10, 16} : RowHolds(idl[i], ix.op, acc, c)
      <3>1. /\ RowHolds(IDL!Fixed("tokenProgram", IDL!RO, "Token2022"), ix.op, acc, c)
            /\ RowHolds(IDL!Fixed("mayhemProgramId", IDL!W, "mayhem"), ix.op, acc, c)
            /\ RowHolds(IDL!Fixed("program", IDL!RO, "pump"), ix.op, acc, c)
        BY <1>2, FixedRow DEF TOKEN_2022_PROGRAM_ID
      <3> QED BY <1>3, <3>1 DEF CreateV2Rows
    <2>3. \A i \in {2, 11, 12} : RowHolds(idl[i], ix.op, acc, c)
      <3>1. /\ acc["mintAuthority"] = Pda("pump", "mint-authority", <<>>)
            /\ acc["globalParams"] = Pda("mayhem", "global-params", <<>>)
            /\ acc["solVault"] = Pda("mayhem", "sol-vault", <<>>)
        BY <1>2 DEF MINT_AUTHORITY_PDA, getGlobalParamsPda, getSolVaultPda
      <3>2. /\ RowHolds(IDL!Derived("mintAuthority", IDL!RO, "pump", "mint-authority", <<>>),
                        ix.op, acc, c)
            /\ RowHolds(IDL!Derived("globalParams", IDL!RO, "mayhem", "global-params", <<>>),
                        ix.op, acc, c)
            /\ RowHolds(IDL!Derived("solVault", IDL!W, "mayhem", "sol-vault", <<>>),
                        ix.op, acc, c)
        BY <3>1, DerivedRow0
      <3> QED BY <1>3, <3>2 DEF CreateV2Rows
    <2>4. RowHolds(idl[13], ix.op, acc, c)
      <3>1. RowHolds(IDL!Derived("mayhemState", IDL!W, "mayhem", "mayhem-state", <<"mint">>),
                     ix.op, acc, c)
        BY <1>2, <1>6, DerivedRow1 DEF getMayhemStatePda, SeedOnChain
      <3> QED BY <1>3, <3>1 DEF CreateV2Rows
    <2>5. \A i \in {1, 6, 14} : RowHolds(idl[i], ix.op, acc, c)
      <3>1. \A n \in {"mint", "user", "mayhemTokenVault"} : ChoiceHolds(n, ix.op, acc, c)
        BY <1>1, <1>2, UsersNamed DEF ChoiceHolds, Incentives
      <3>2. /\ RowHolds(IDL!Mint(IDL!WS), ix.op, acc, c)
            /\ RowHolds(IDL!Given("user", IDL!WS), ix.op, acc, c)
            /\ RowHolds(IDL!Given("mayhemTokenVault", IDL!W), ix.op, acc, c)
        BY <3>1, GivenRow DEF IDL!Mint
      <3> QED BY <1>3, <3>2 DEF CreateV2Rows
    <2>6. DOMAIN idl = 1 .. 16
      BY <1>3 DEF CreateV2Rows
    <2> QED BY <2>1, <2>2, <2>3, <2>4, <2>5, <2>6
  <1>8. /\ Covers(Rest(ix, idl), RestNeeded(ix.op, acc, c)) /\ Ready(ix, acc, c) /\ c # Refused
    BY <1>1 DEF RestNeeded, Ready, Refused
  <1>9. Run(c, ix, idl) = Effect(ix, acc, c)
    BY <1>1, <1>5, <1>7, <1>8, WrittenRuns
  <1>10. Effect(ix, acc, c)
           = [c EXCEPT !.phase = "curve", !.token = TOKEN_2022_PROGRAM_ID, !.creator = user,
                       !.mayhem = FALSE, !.cashback = FALSE, !.size = "new"]
    <2>1. ix.args.creator = user /\ ix.args.mayhem = FALSE /\ ix.args.cashback = FALSE
      BY <1>1
    <2> QED BY <1>1, <1>2, <2>1 DEF Effect
  <1> QED BY <1>4, <1>9, <1>10

(* the opening of a token account, as any of the messages writes it, *)
LEMMA AccountRuns ==
    ASSUME NEW user \in Users, NEW c, c.phase # "none", c # Refused,
           c.token = TOKEN_2022_PROGRAM_ID, NEW ix, ix.op = "createIdempotent",
           NEW acc, acc = Accounts(ix, IDL!createIdempotent),
           Flagged(ix, IDL!createIdempotent), DOMAIN acc = Names(IDL!createIdempotent),
           Covers(Rest(ix, IDL!createIdempotent), <<>>), acc["funder"] = user,
           acc["ata"] = CoinAta(user), acc["wallet"] = user, acc["mint"] = MINT,
           acc["systemProgram"] = Program("system"), acc["tokenProgram"] = TOKEN_2022_PROGRAM_ID
    PROVE  Run(c, ix, IDL!Idl[ix.op]) = [c EXCEPT !.ata = @ \cup {user}]
  <1> DEFINE idl == IDL!createIdempotent
  <1>1. AccountRows(idl)
    BY AccountRowsAre
  <1>2. IDL!Idl[ix.op] = idl
    BY DEF IDL!Idl
  <1>3. /\ acc = Accounts(ix, idl) /\ Flagged(ix, idl) /\ DOMAIN acc = Names(idl)
        /\ Covers(Rest(ix, idl), <<>>)
    OBVIOUS
  <1> HIDE DEF idl
  <1>4. {"wallet", "tokenProgram", "mint"} \subseteq DOMAIN acc
    <2>1. /\ {3, 4, 6} \subseteq DOMAIN idl
          /\ idl[3].name = "wallet" /\ idl[4].name = "mint" /\ idl[6].name = "tokenProgram"
      BY <1>1 DEF AccountRows
    <2> QED BY <1>3, <2>1 DEF Names
  <1>5. \A i \in DOMAIN idl : RowHolds(idl[i], ix.op, acc, c)
    <2>1. RowHolds(idl[2], ix.op, acc, c)
      <3>1. RowHolds(IDL!AtaOf("ata", IDL!W, "wallet", "tokenProgram", "mint"), ix.op, acc, c)
        BY <1>4, AtaRow DEF SeedOnChain, CoinAta, getAssociatedTokenAddressSync
      <3> QED BY <1>1, <3>1 DEF AccountRows
    <2>2. RowHolds(idl[5], ix.op, acc, c)
      BY <1>1, FixedRow DEF AccountRows, IDL!SystemProgram
    <2>3. \A i \in {1, 3, 4, 6} : RowHolds(idl[i], ix.op, acc, c)
      <3>1. \A n \in {"funder", "wallet", "mint", "tokenProgram"} : ChoiceHolds(n, ix.op, acc, c)
        BY UsersNamed DEF ChoiceHolds, Incentives, TokenOf, Wrapped
      <3>2. \A n \in {"funder", "wallet", "mint", "tokenProgram"} : \A flags :
              RowHolds(IDL!Given(n, flags), ix.op, acc, c)
        BY <3>1, GivenRow
      <3> QED BY <1>1, <3>2 DEF AccountRows
    <2>4. DOMAIN idl = 1 .. 6
      BY <1>1 DEF AccountRows
    <2> QED BY <2>1, <2>2, <2>3, <2>4
  <1>6. Covers(Rest(ix, idl), RestNeeded(ix.op, acc, c)) /\ Ready(ix, acc, c)
    BY <1>3 DEF RestNeeded, Ready
  <1>7. Run(c, ix, idl) = Effect(ix, acc, c)
    BY <1>3, <1>5, <1>6, WrittenRuns
  <1>8. Effect(ix, acc, c) = [c EXCEPT !.ata = @ \cup {user}]
    BY DEF Effect
  <1> QED BY <1>2, <1>7, <1>8

(* a buy, which pays the creator and counts for the user, *)
LEMMA BuyingRuns ==
    ASSUME NEW user \in Users, NEW c, c # Refused, c.phase = "curve", c.size = "new",
           user \in c.ata, NEW op \in {"buy", "buyExactSolIn"}, NEW ix, ix.op = op,
           NEW acc, acc = Accounts(ix, IDL!buy), Flagged(ix, IDL!buy),
           Covers(Rest(ix, IDL!buy), TradeRest), TradeAccounts(acc, user, c),
           acc["globalVolumeAccumulator"] = GLOBAL_VOLUME_ACCUMULATOR_PDA,
           acc["userVolumeAccumulator"] = userVolumeAccumulatorPda(user),
           "user" \in DOMAIN acc
    PROVE  Run(c, ix, IDL!Idl[ix.op])
             = [c EXCEPT !.fees = @ \cup {creatorVaultPda(c.creator)}, !.uva = @ \cup {user}]
  <1> DEFINE idl == IDL!buy
  <1>1. BuyRows(idl)
    BY BuyRowsAre
  <1>2. IDL!Idl[ix.op] = idl
    BY DEF IDL!Idl, IDL!buyExactSolIn, IDL!buy, IDL!BuyExactCurve, IDL!BuyExactCaller,
           IDL!BuyExactFees
  <1>3. /\ acc = Accounts(ix, idl) /\ Flagged(ix, idl) /\ Covers(Rest(ix, idl), TradeRest)
    OBVIOUS
  <1> HIDE DEF idl
  <1>4. \A i \in DOMAIN idl : RowHolds(idl[i], op, acc, c)
    <2>1. \A i \in 1 .. 12 \cup {15, 16} : RowHolds(idl[i], op, acc, c)
      BY <1>1, TradeRowsHold DEF BuyRows
    <2>2. RowHolds(idl[13], op, acc, c)
      BY <1>1, DerivedRow0
         DEF BuyRows, IDL!GlobalVolumeAccumulator, GLOBAL_VOLUME_ACCUMULATOR_PDA
    <2>3. RowHolds(idl[14], op, acc, c)
      BY <1>1, DerivedRow1
         DEF BuyRows, IDL!UserVolumeAccumulator, userVolumeAccumulatorPda, SeedOnChain,
             TradeAccounts
    <2>4. DOMAIN idl = 1 .. 16
      BY <1>1 DEF BuyRows
    <2> QED BY <2>1, <2>2, <2>3, <2>4
  <1>5. Covers(Rest(ix, idl), RestNeeded(ix.op, acc, c)) /\ Ready(ix, acc, c)
    BY <1>3 DEF RestNeeded, Ready
  <1>6. Run(c, ix, idl) = Effect(ix, acc, c)
    BY <1>3, <1>4, <1>5, WrittenRuns
  <1>7. Effect(ix, acc, c)
          = [c EXCEPT !.fees = @ \cup {creatorVaultPda(c.creator)}, !.uva = @ \cup {user}]
    BY DEF Effect, TradeAccounts
  <1> QED BY <1>2, <1>6, <1>7

(* and a sale, which pays the creator. *)
LEMMA SellingRuns ==
    ASSUME NEW user \in Users, NEW c, c # Refused, c.phase = "curve", c.size = "new", ~c.cashback,
           user \in c.ata, NEW ix, ix.op = "sell",
           NEW acc, acc = Accounts(ix, IDL!sell), Flagged(ix, IDL!sell),
           Covers(Rest(ix, IDL!sell), TradeRest), TradeAccounts(acc, user, c)
    PROVE  Run(c, ix, IDL!Idl[ix.op]) = [c EXCEPT !.fees = @ \cup {creatorVaultPda(c.creator)}]
  <1> DEFINE idl == IDL!sell
  <1>1. SellRows(idl)
    BY SellRowsAre
  <1>2. IDL!Idl[ix.op] = idl
    BY DEF IDL!Idl
  <1>3. /\ acc = Accounts(ix, idl) /\ Flagged(ix, idl) /\ Covers(Rest(ix, idl), TradeRest)
    OBVIOUS
  <1> HIDE DEF idl
  <1>4. \A i \in DOMAIN idl : RowHolds(idl[i], ix.op, acc, c)
    <2>1. \A i \in 1 .. 14 : RowHolds(idl[i], ix.op, acc, c)
      BY <1>1, TradeRowsHold DEF SellRows
    <2>2. DOMAIN idl = 1 .. 14
      BY <1>1 DEF SellRows
    <2> QED BY <2>1, <2>2
  <1>5. Covers(Rest(ix, idl), RestNeeded(ix.op, acc, c)) /\ Ready(ix, acc, c)
    BY <1>3 DEF RestNeeded, Ready
  <1>6. Run(c, ix, idl) = Effect(ix, acc, c)
    BY <1>3, <1>4, <1>5, WrittenRuns
  <1>7. Effect(ix, acc, c) = [c EXCEPT !.fees = @ \cup {creatorVaultPda(c.creator)}]
    BY DEF Effect, TradeAccounts
  <1> QED BY <1>2, <1>6, <1>7

(* No account of a trade is named like the program its seeds name. *)
LEMMA TradeNames ==
  \A idl \in {IDL!buy, IDL!sell} :
    /\ {"bondingCurve", "tokenProgram", "mint", "user"} \subseteq Names(idl)
    /\ "pump" \notin Names(idl)
  <1>1. BuyRows(IDL!buy) /\ SellRows(IDL!sell)
    BY BuyRowsAre, SellRowsAre
  <1>2. ASSUME NEW idl, BuyRows(idl)
        PROVE  /\ {"bondingCurve", "tokenProgram", "mint", "user"} \subseteq Names(idl)
               /\ "pump" \notin Names(idl)
    BY <1>2 DEF BuyRows, Names
  <1>3. ASSUME NEW idl, SellRows(idl)
        PROVE  /\ {"bondingCurve", "tokenProgram", "mint", "user"} \subseteq Names(idl)
               /\ "pump" \notin Names(idl)
    BY <1>3 DEF SellRows, Names
  <1> QED BY <1>1, <1>2, <1>3

(* A trade is written for the coin the bot launched. *)
LEMMA TradeIsRight ==
    ASSUME NEW idl \in {IDL!buy, IDL!sell}, NEW ix, NEW acc, NEW user, NEW creator,
           TradeWritten(ix, idl, acc, user, creator), NEW c, c.token = TOKEN_2022_PROGRAM_ID,
           c.creator = creator, c.mayhem = FALSE
    PROVE  TradeAccounts(acc, user, c) /\ "user" \in DOMAIN acc
  BY TradeNames DEF TradeWritten, TradeAccounts, CoinAta

(* The launch message lands on a mint that has no coin yet. *)
LEMMA LaunchMessageLands ==
    ASSUME NEW user \in Users, NEW c, Good(c), c.phase = "none"
    PROVE  Landed(c, LaunchMessage(user)) # Refused
  <1> DEFINE create == Decoded(LaunchText(user), "createV2", CREATE_V2_ACCOUNTS,
                               [creator |-> user, mayhem |-> FALSE, cashback |-> FALSE])
             open == Decoded(LaunchText(user), "createIdempotent", LAUNCH_ATA_ACCOUNTS, NoArgs)
             trade == Decoded(LaunchText(user), "buy", BUY_ACCOUNTS, NoArgs)
             d == [c EXCEPT !.phase = "curve", !.token = TOKEN_2022_PROGRAM_ID, !.creator = user,
                            !.mayhem = FALSE, !.cashback = FALSE, !.size = "new"]
             e == [d EXCEPT !.ata = @ \cup {user}]
             f == [e EXCEPT !.fees = @ \cup {creatorVaultPda(user)}, !.uva = @ \cup {user}]
  <1>1. LaunchMessage(user) = <<create, open, trade>>
    BY DEF LaunchMessage, write_create_v2_and_buy_message, LaunchText
  <1>2. /\ d.phase = "curve" /\ d.token = TOKEN_2022_PROGRAM_ID
        /\ e.phase = "curve" /\ e.token = TOKEN_2022_PROGRAM_ID /\ e.creator = user
        /\ e.mayhem = FALSE /\ e.size = "new" /\ user \in e.ata
        /\ f.phase = "curve"
    BY DEF Good, IsCoin
  <1>3. d # Refused /\ e # Refused /\ f # Refused
    BY <1>2 DEF Refused
  <1>4. Run(c, create, IDL!Idl[create.op]) = d
    BY LaunchCreateRuns
  <1> HIDE DEF create, d
  <1>5. Run(d, open, IDL!Idl[open.op]) = e
    <2>1. d.phase # "none"
      BY <1>2
    <2> QED BY <1>2, <1>3, <2>1, LaunchAccountWritten, AccountRuns
  <1> HIDE DEF open, e
  <1>6. Run(e, trade, IDL!Idl[trade.op]) = f
    <2> DEFINE acc == Accounts(trade, IDL!buy)
    <2>1. /\ trade.op = "buy" /\ TradeWritten(trade, IDL!buy, acc, user, user)
          /\ acc["globalVolumeAccumulator"] = GLOBAL_VOLUME_ACCUMULATOR_PDA
          /\ acc["userVolumeAccumulator"] = userVolumeAccumulatorPda(user)
      BY LaunchBuyWritten
    <2>2. acc = Accounts(trade, IDL!buy)
      OBVIOUS
    <2> HIDE DEF acc, trade
    <2>3. TradeAccounts(acc, user, e) /\ "user" \in DOMAIN acc
      BY <1>2, <2>1, TradeIsRight
    <2>4. Flagged(trade, IDL!buy) /\ Covers(Rest(trade, IDL!buy), TradeRest)
      BY <2>1 DEF TradeWritten
    <2>5. f = [e EXCEPT !.fees = @ \cup {creatorVaultPda(e.creator)}, !.uva = @ \cup {user}]
      BY <1>2
    <2> HIDE DEF f
    <2>6. trade.op \in {"buy", "buyExactSolIn"}
      BY <2>1
    <2> QED BY <1>2, <1>3, <2>1, <2>2, <2>3, <2>4, <2>5, <2>6, BuyingRuns, ZenonT(30)
  <1> HIDE DEF trade, f
  <1> QED BY <1>1, <1>3, <1>4, <1>5, <1>6, LandedThree

(* A coin is as the bot takes it to be. *)
AsBotSees(c) ==
  /\ c.token = TOKEN_2022_PROGRAM_ID /\ c.creator = Dev /\ c.mayhem = FALSE
  /\ c.cashback = FALSE /\ c.size = "new"

(* The message of a buy lands on such a coin, *)
LEMMA BuyMessageLands ==
    ASSUME NEW user \in Users, NEW c, Good(c), c.phase = "curve", AsBotSees(c)
    PROVE  Landed(c, BuyMessage(Dev, user)) # Refused
  <1> DEFINE open == Decoded(BuyText(user), "createIdempotent", ATA_IDEMPOTENT_ACCOUNTS, NoArgs)
             trade == Decoded(BuyText(user), "buyExactSolIn", BUY_EXACT_SOL_ACCOUNTS, NoArgs)
             e == [c EXCEPT !.ata = @ \cup {user}]
             f == [e EXCEPT !.fees = @ \cup {creatorVaultPda(Dev)}, !.uva = @ \cup {user}]
  <1>1. BuyMessage(Dev, user) = <<open, trade>>
    BY DEF BuyMessage, write_buy_message, BuyText, CoinAta
  <1>2. /\ e.phase = "curve" /\ e.token = TOKEN_2022_PROGRAM_ID /\ e.creator = Dev
        /\ e.mayhem = FALSE /\ e.size = "new" /\ user \in e.ata
        /\ f.phase = "curve" /\ c # Refused
    BY GoodAlive DEF Good, IsCoin, AsBotSees
  <1>3. c # Refused /\ e # Refused /\ f # Refused
    BY <1>2 DEF Refused
  <1>4. Run(c, open, IDL!Idl[open.op]) = e
    <2>1. c.phase # "none" /\ c.token = TOKEN_2022_PROGRAM_ID
      BY DEF AsBotSees
    <2> QED BY <1>3, <2>1, AccountWritten, AccountRuns
  <1> HIDE DEF open, e
  <1>5. Run(e, trade, IDL!Idl[trade.op]) = f
    <2> DEFINE acc == Accounts(trade, IDL!buy)
    <2>1. /\ trade.op = "buyExactSolIn" /\ TradeWritten(trade, IDL!buy, acc, user, Dev)
          /\ acc["globalVolumeAccumulator"] = GLOBAL_VOLUME_ACCUMULATOR_PDA
          /\ acc["userVolumeAccumulator"] = userVolumeAccumulatorPda(user)
      BY BuyWritten
    <2>2. acc = Accounts(trade, IDL!buy)
      OBVIOUS
    <2> HIDE DEF acc, trade
    <2>3. TradeAccounts(acc, user, e) /\ "user" \in DOMAIN acc
      BY <1>2, <2>1, TradeIsRight
    <2>4. Flagged(trade, IDL!buy) /\ Covers(Rest(trade, IDL!buy), TradeRest)
      BY <2>1 DEF TradeWritten
    <2> QED BY <1>2, <1>3, <2>1, <2>2, <2>3, <2>4, BuyingRuns
  <1> HIDE DEF trade, f
  <1> QED BY <1>1, <1>3, <1>4, <1>5, LandedTwo

(* and that of a sale, when the user has a token account. *)
LEMMA SellMessageLands ==
    ASSUME NEW user \in Users, NEW c, Good(c), c.phase = "curve", AsBotSees(c), user \in c.ata
    PROVE  Landed(c, SellMessage(Dev, user)) # Refused
  <1> DEFINE trade == Decoded(SellText(user), "sell", SELL_ACCOUNTS, NoArgs)
             acc == Accounts(trade, IDL!sell)
             f == [c EXCEPT !.fees = @ \cup {creatorVaultPda(c.creator)}]
  <1>1. SellMessage(Dev, user) = <<trade>>
    BY DEF SellMessage, write_sell_message, SellText, CoinAta
  <1>2. c # Refused /\ f # Refused
    BY DEF Good, IsCoin, Refused
  <1>3. trade.op = "sell" /\ TradeWritten(trade, IDL!sell, acc, user, Dev)
    BY SellWritten
  <1>4. acc = Accounts(trade, IDL!sell)
    OBVIOUS
  <1> HIDE DEF acc, trade
  <1>5. TradeAccounts(acc, user, c) /\ Flagged(trade, IDL!sell)
        /\ Covers(Rest(trade, IDL!sell), TradeRest)
    <2>1. TradeAccounts(acc, user, c)
      BY <1>3, TradeIsRight DEF AsBotSees
    <2> QED BY <1>3, <2>1 DEF TradeWritten
  <1>6. ~c.cashback /\ c.size = "new"
    BY DEF AsBotSees
  <1>7. Run(c, trade, IDL!Idl[trade.op]) = f
    BY <1>2, <1>3, <1>4, <1>5, <1>6, SellingRuns
  <1> HIDE DEF f
  <1> QED BY <1>1, <1>2, <1>7, LandedOne

------------------------------------------------------------------------------
(***************************************************************************)
(* Every call that is fresh.                                               *)
(***************************************************************************)

(* A call that is due, made of a coin that is what the caller read. *)
Fresh(m, c) == CallOK(m, c) /\ m # NoCall /\ Due(m, c) /\ m.seen = Look(m.op, m.user, c)

(* What the caller of a trade reads of the curve. *)
LEMMA CurveSeen ==
    ASSUME NEW op \in {"buy", "sell"}, NEW user, NEW c
    PROVE  Look(op, user, c)
             = [token |-> c.token, creator |-> c.creator, mayhem |-> c.mayhem, size |-> c.size,
                ata |-> user \in c.ata]
  BY DEF Look, Bot

(* The programs accept what the SDK builds then: to create and to trade, *)
LEMMA TradesFresh ==
    ASSUME NEW c, Good(c), NEW m, Fresh(m, c),
           m.op \in {"createAndBuy", "createV2AndBuy", "buy", "sell", "buyRaw", "sellRaw",
                     "migrate"}
    PROVE  Succeeds(SdkCall(m), c)
  <1> DEFINE user == m.user
  <1>1. user \in Users /\ Due(m, c) /\ m.seen = Look(m.op, user, c)
    BY DEF Fresh, CallOK, NoCall, CallsPlain, CallsSharing, CallsBot
  <1>2. Alive(c) /\ (~c.mayhem => getStaticRandomFeeRecipient = getFeeRecipient(c.mayhem))
    BY GoodAlive DEF getStaticRandomFeeRecipient, getFeeRecipient
  <1>3. CASE m.op = "createAndBuy"
    <2>1. c.phase = "none" /\ SdkCall(m) = createAndBuyInstructions(user, user)
      BY <1>1, <1>3 DEF Due, SdkCall
    <2> QED BY <1>1, <2>1, CreateSucceeds
  <1>4. CASE m.op = "createV2AndBuy"
    <2>1. /\ c.phase = "none"
          /\ SdkCall(m) = createV2AndBuyInstructions(user, user, m.opt.mayhem, m.opt.cashback)
      BY <1>1, <1>4 DEF Due, SdkCall
    <2> QED BY <1>1, <2>1, CreateV2Succeeds
  <1>5. CASE m.op = "buy"
    <2>1. c.phase = "curve" /\ SdkCall(m) = buyInstructions(user, m.seen)
      BY <1>1, <1>5 DEF Due, SdkCall
    <2>2. m.seen = [token |-> c.token, creator |-> c.creator, mayhem |-> c.mayhem,
                    size |-> c.size, ata |-> user \in c.ata]
      BY <1>1, <1>5, CurveSeen
    <2> QED BY <1>1, <2>1, <2>2, BuySucceeds
  <1>6. CASE m.op = "sell"
    <2>1. /\ c.phase = "curve" /\ m.opt = [mayhem |-> c.mayhem, cashback |-> c.cashback]
          /\ c.cashback => user \in c.uva
          /\ SdkCall(m) = sellInstructions(user, m.seen, m.opt.mayhem, m.opt.cashback)
      BY <1>1, <1>6 DEF Due, SdkCall
    <2>2. SdkCall(m) = sellInstructions(user, m.seen, c.mayhem, c.cashback)
      BY <2>1
    <2>3. /\ m.seen.token = c.token /\ m.seen.creator = c.creator /\ m.seen.size = c.size
          /\ user \in c.ata
      <3>1. m.seen.ata
        BY <1>6 DEF Fresh, CallOK, NoCall
      <3>2. /\ Look("sell", user, c).token = c.token /\ Look("sell", user, c).size = c.size
            /\ Look("sell", user, c).creator = c.creator
        BY DEF Look, Bot
      <3>3. Look("sell", user, c).ata => user \in c.ata
        <4>1. ASSUME user \notin c.ata PROVE ~Look("sell", user, c).ata
          BY <4>1 DEF Look, Bot
        <4> QED BY <4>1
      <3> QED BY <1>1, <1>6, <3>1, <3>2, <3>3
    <2> QED BY <1>1, <2>1, <2>2, <2>3, SellSucceeds
  <1>7. CASE m.op = "buyRaw"
    <2>1. /\ c.phase = "curve" /\ c.size = "new" /\ user \in c.ata /\ ~c.mayhem
          /\ SdkCall(m) = <<getBuyInstructionRaw(user, m.seen.creator, m.seen.token)>>
          /\ m.seen.creator = c.creator /\ m.seen.token = c.token
      BY <1>1, <1>7 DEF Due, SdkCall, Look
    <2> QED BY <1>1, <1>2, <2>1, RawBuySucceeds DEF getBuyInstructionRaw
  <1>8. CASE m.op = "sellRaw"
    <2>1. /\ c.phase = "curve" /\ c.size = "new" /\ user \in c.ata /\ ~c.mayhem
          /\ m.opt.cashback = c.cashback /\ (c.cashback => user \in c.uva)
          /\ SdkCall(m)
               = <<getSellInstructionRaw(user, m.seen.creator, m.seen.token, m.opt.cashback)>>
          /\ m.seen.creator = c.creator /\ m.seen.token = c.token
      BY <1>1, <1>8 DEF Due, SdkCall, Look
    <2> QED BY <1>1, <1>2, <2>1, RawSellSucceeds DEF getSellInstructionRaw
  <1>9. CASE m.op = "migrate"
    <2>1. /\ c.phase = "complete" /\ m.seen.token = c.token
          /\ SdkCall(m) = <<migrateInstruction(Authority, user, m.seen.token)>>
      BY <1>1, <1>9 DEF Due, SdkCall, Look
    <2> QED BY <1>1, <2>1, MigrateSucceeds
  <1> QED BY <1>3, <1>4, <1>5, <1>6, <1>7, <1>8, <1>9

(* to count and to claim, *)
LEMMA ClaimsFresh ==
    ASSUME NEW c, Good(c), NEW m, Fresh(m, c),
           m.op \in {"initAccumulator", "syncAccumulator", "closeAccumulator", "claimCashback",
                     "claimIncentives", "adminIncentives"}
    PROVE  Succeeds(SdkCall(m), c)
  <1> DEFINE user == m.user
  <1>1. /\ m.op # "adminIncentives" => user \in Users
        /\ m.op = "adminIncentives" => user = Authority
        /\ Due(m, c) /\ m.seen = Look(m.op, user, c)
    BY DEF Fresh, CallOK, NoCall
  <1>2. CASE m.op \in {"initAccumulator", "syncAccumulator", "closeAccumulator", "claimCashback"}
    <2>1. /\ user \in Users /\ (m.op = "initAccumulator" => user \notin c.uva)
          /\ m.op # "initAccumulator" => user \in c.uva
      BY <1>1, <1>2 DEF Due
    <2>2. /\ m.op = "initAccumulator" => SdkCall(m) = initUserVolumeAccumulator(user, user)
          /\ m.op = "syncAccumulator" => SdkCall(m) = syncUserVolumeAccumulator(user)
          /\ m.op = "closeAccumulator" => SdkCall(m) = closeUserVolumeAccumulator(user)
          /\ m.op = "claimCashback" => SdkCall(m) = <<claimCashbackInstruction(user)>>
      BY DEF SdkCall
    <2> QED BY <1>2, <2>1, <2>2, AccumulatorsSucceed
  <1>3. CASE m.op = "claimIncentives"
    <2>1. /\ user \in Users /\ m.seen.accumulator = (user \in c.uva)
          /\ SdkCall(m) = claimTokenIncentives(user, user, m.seen.accumulator)
      BY <1>1, <1>3 DEF SdkCall, Look
    <2> QED BY <2>1, IncentivesSucceed
  <1>4. CASE m.op = "adminIncentives"
    <2>1. SdkCall(m) = adminUpdateTokenIncentives(Authority)
      BY <1>1, <1>4 DEF SdkCall
    <2>2. Dev \in Users
      BY DEF Users
    <2> QED BY <2>1, <2>2, IncentivesSucceed
  <1> QED BY <1>2, <1>3, <1>4

(* to name another creator, and to share and pay out what a coin earns. *)
LEMMA SharesFresh ==
    ASSUME NEW c, Good(c), NEW m, Fresh(m, c),
           m.op \in {"setCreator", "adminSetCreator", "share", "shareAlone", "reshare",
                     "distribute", "minimumFee"}
    PROVE  Succeeds(SdkCall(m), c)
  <1> DEFINE user == m.user
  <1>1. /\ m.op \in {"setCreator", "adminSetCreator"} => user = Authority
        /\ m.op \notin {"setCreator", "adminSetCreator"} => user \in Users
        /\ m.op \in {"share", "reshare"} => m.opt \in ShareLists /\ ~ThrowsOn(m.opt)
        /\ m.op \in {"reshare", "distribute", "minimumFee"} => m.seen.holders # <<>>
        /\ Due(m, c) /\ m.seen = Look(m.op, user, c)
    BY DEF Fresh, CallOK, NoCall, CallsSharing
  <1>2. IsCoin(c) /\ (Addresses(c.shares.holders) # <<>> => HasShares(c))
    BY DEF Good, Addresses, HasShares
  <1>3. CASE m.op \in {"setCreator", "adminSetCreator"}
    <2>1. /\ ~isCreatorUsingSharingConfig(c.creator)
          /\ m.op = "setCreator" => /\ c.token = TOKEN_PROGRAM_ID
                                    /\ SdkCall(m) = setCreator(Authority, Other)
          /\ m.op = "adminSetCreator" =>
               /\ Graduated(c) /\ SdkCall(m) = adminSetCoinCreatorInstructions(Authority, Other)
      BY <1>1, <1>3 DEF Due, SdkCall
    <2> QED BY <1>3, <2>1, CreatorChangesSucceed
  <1>4. CASE m.op \in {"share", "shareAlone"}
    <2> DEFINE pool == Pool(m.seen.graduated)
    <2>1. /\ ~HasShares(c) /\ c.creator = user /\ user \in Users
          /\ Graduated(c) => pool = canonicalPumpPoolPda(MINT)
      BY <1>1, <1>4 DEF Due, Look, Pool
    <2>2. /\ m.op = "shareAlone" => SdkCall(m) = <<createFeeSharingConfig(user, pool)>>
          /\ m.op = "share" =>
               SdkCall(m) = createSharingConfigWithSocialRecipients(user, pool, m.opt)
      BY DEF SdkCall
    <2> HIDE DEF pool
    <2>3. CASE m.op = "shareAlone"
      BY <2>1, <2>2, <2>3, SharingSucceeds
    <2>4. CASE m.op = "share"
      <3>1. PICK M : m.opt \in Seq(M)
        BY <1>1, <2>4, ShareListsAssumption
      <3>2. ~ThrowsOn(m.opt)
        BY <1>1, <2>4
      <3>3. SdkCall(m) = createSharingConfigWithSocialRecipients(user, pool, m.opt)
        BY <2>2, <2>4
      <3> QED BY <2>1, <3>1, <3>2, <3>3, ShareSucceeds
    <2> QED BY <1>4, <2>3, <2>4
  <1>5. CASE m.op = "reshare"
    <2>1. /\ c.shares.admin = user /\ isSharingConfigEditable(c.shares) /\ user \in Users
          /\ m.seen.holders = Addresses(c.shares.holders)
          /\ SdkCall(m) = updateSharingConfigWithSocialRecipients(user, m.seen.holders, m.opt)
      BY <1>1, <1>5 DEF Due, SdkCall, Look
    <2>2. m.opt \in Seq([who : STRING, platform : STRING, bps : Nat]) /\ ~ThrowsOn(m.opt)
      BY <1>1, <1>5, ShareListsAssumption
    <2>3. HasShares(c)
      BY <1>1, <1>2, <1>5, <2>1
    <2> QED BY <1>2, <2>1, <2>2, <2>3, ReshareSucceeds
  <1>6. CASE m.op \in {"distribute", "minimumFee"}
    <2>1. m.seen = FetchedConfig(c)
      BY <1>1, <1>6 DEF Look
    <2>2. HasShares(c)
      BY <1>1, <1>2, <1>6, <2>1 DEF FetchedConfig
    <2>3. /\ m.op = "distribute" => SdkCall(m) = buildDistributeCreatorFeesInstructions(m.seen)
          /\ m.op = "minimumFee" => SdkCall(m) = minimumDistributableFeeInstructions(m.seen)
      BY DEF SdkCall
    <2> QED BY <1>6, <2>1, <2>2, <2>3, PayoutsSucceed
  <1> QED BY <1>3, <1>4, <1>5, <1>6

(* The network accepts what the bot writes when the coin is as it takes it *)
(* to be.                                                                  *)
LEMMA MessagesFresh ==
    ASSUME NEW c, Good(c), NEW m, Fresh(m, c), m.op \in CallsBot
    PROVE  Landed(c, BotCall(m)) # Refused
  <1>1. m.user \in Users /\ Due(m, c) /\ m.seen = Look(m.op, m.user, c)
        /\ (m.op \in Bot => m.seen = AsLaunched)
    BY DEF Fresh, CallOK, NoCall, CallsBot
  <1>2. CASE m.op = "botLaunch"
    <2>1. c.phase = "none" /\ BotCall(m) = LaunchMessage(m.user)
      BY <1>1, <1>2 DEF Due, BotCall
    <2> QED BY <1>1, <2>1, LaunchMessageLands
  <1>3. CASE m.op \in Bot
    <2>1. /\ c.phase = "curve" /\ (m.op = "botSell" => m.user \in c.ata)
          /\ m.op = "botBuy" => BotCall(m) = BuyMessage(Dev, m.user)
          /\ m.op = "botSell" => BotCall(m) = SellMessage(Dev, m.user)
      BY <1>1, <1>3 DEF Due, BotCall, Bot
    <2>2. AsBotSees(c)
      <3>1. [token |-> c.token, creator |-> c.creator, mayhem |-> c.mayhem,
             cashback |-> c.cashback, size |-> c.size] = AsLaunched
        BY <1>1, <1>3 DEF Look, Bot
      <3> QED BY <3>1 DEF AsLaunched, AsBotSees
    <2> QED BY <1>1, <1>3, <2>1, <2>2, BuyMessageLands, SellMessageLands DEF Bot
  <1> QED BY <1>2, <1>3 DEF CallsBot, Bot

(* So a fresh call lands, whoever made it. *)
LEMMA FreshLands ==
    ASSUME NEW c, Good(c), NEW m, Fresh(m, c)
    PROVE  Landed(c, Built(m)) # Refused
  <1>1. m.op \in CallsPlain \cup CallsSharing \cup CallsBot
    BY DEF Fresh, CallOK
  <1>2. CASE m.op \in CallsBot
    BY <1>2, MessagesFresh DEF Built, CallsBot, Bot
  <1>3. CASE m.op = "collect"
    <2>1. m.user \in Users
      BY <1>3 DEF Fresh, CallOK, NoCall
    <2>2. Built(m) = Instructions(collectCoinCreatorFeeInstructions(m.user))
      BY <1>3 DEF Built, SdkCall, Bot
    <2> QED BY <2>1, <2>2, CollectSucceeds
  <1>4. CASE m.op \in (CallsPlain \ {"collect"}) \cup CallsSharing
    <2>1. Built(m) = Instructions(SdkCall(m))
      BY <1>4 DEF Built, Bot, CallsPlain, CallsSharing
    <2>2. Succeeds(SdkCall(m), c)
      BY <1>4, TradesFresh, ClaimsFresh, SharesFresh DEF CallsPlain, CallsSharing
    <2> QED BY <2>1, <2>2, LeadsLanded DEF Succeeds
  <1> QED BY <1>1, <1>2, <1>3, <1>4

(* A call that is due and was built from what the coin still is lands: *)
(* every program accepts every instruction of it, the accounts the SDK *)
(* fills in and those the bot writes by hand (FreshCallsLand).         *)
THEOREM FreshCallsAccepted == Spec => []FreshCallsLand
  <1>1. IInv => FreshCallsLand
    BY FreshLands DEF IInv, FreshCallsLand, Fresh
  <1> QED BY <1>1, InvariantHolds, PTL
=============================================================================
