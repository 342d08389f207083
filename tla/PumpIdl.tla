------------------------------ MODULE PumpIdl ------------------------------
(***************************************************************************)
(* The account lists of the instructions the SDK and the bot send, as the  *)
(* IDLs of the bonding-curve program, the fee program and the AMM program  *)
(* declare them (docs/pump-sdk/src/idl).  A list is a sequence of rows in  *)
(* the order of the IDL; a row says what the program demands of the        *)
(* account in that place.  Names of instructions and accounts are the      *)
(* IDL's; arguments, discriminators and documentation are left out.        *)
(***************************************************************************)
EXTENDS Sequences

(* What a program may do with an account. *)
RO == {}
W  == {"w"}
S  == {"s"}
WS == {"w", "s"}

(* An account of the caller's choice, one with a fixed address, and one   *)
(* derived by a program from a tag and the keys of other accounts.        *)
Given(name, flags) ==
  [name |-> name, flags |-> flags, rule |-> "given", prog |-> "none", tag |-> "none", seeds |-> <<>>]
Fixed(name, flags, address) ==
  [name |-> name, flags |-> flags, rule |-> "fixed", prog |-> address, tag |-> "none", seeds |-> <<>>]
Derived(name, flags, prog, tag, seeds) ==
  [name |-> name, flags |-> flags, rule |-> "derived", prog |-> prog, tag |-> tag, seeds |-> seeds]
AtaOf(name, flags, owner, token, mint) == Derived(name, flags, "ata", "none", <<owner, token, mint>>)

---------------------------------------------------------------------------
(* Rows many instructions share. *)
Global == Derived("global", RO, "pump", "global", <<>>)
Mint(flags) == Given("mint", flags)
BondingCurve(flags) == Derived("bondingCurve", flags, "pump", "bonding-curve", <<"mint">>)
AssociatedBondingCurve(token) ==
  AtaOf("associatedBondingCurve", W, "bondingCurve", token, "mint")
CreatorVault(flags) ==
  Derived("creatorVault", flags, "pump", "creator-vault", <<"bondingCurve.creator">>)
GlobalVolumeAccumulator(flags) ==
  Derived("globalVolumeAccumulator", flags, "pump", "global_volume_accumulator", <<>>)
UserVolumeAccumulator ==
  Derived("userVolumeAccumulator", W, "pump", "user_volume_accumulator", <<"user">>)
GlobalIncentiveTokenAccount ==
  AtaOf("globalIncentiveTokenAccount", W, "globalVolumeAccumulator", "tokenProgram", "mint")
FeeConfig == << Derived("feeConfig", RO, "pumpFees", "fee_config", <<"pump">>),
                Fixed("feeProgram", RO, "pumpFees") >>
SharingConfig(flags) ==
  Derived("sharingConfig", flags, "pumpFees", "sharing-config", <<"mint">>)
Metadata(flags) ==
  Derived("metadata", flags, "metaplex", "metadata", <<"metaplex", "mint">>)
SystemProgram == Fixed("systemProgram", RO, "system")
AssociatedTokenProgram == Fixed("associatedTokenProgram", RO, "ata")
EventAuthority(name, prog) == Derived(name, RO, prog, "__event_authority", <<>>)
Events(prog) == << EventAuthority("eventAuthority", prog), Fixed("program", RO, prog) >>

---------------------------------------------------------------------------
(* The bonding-curve program: coins and trades. *)
CreateCoin == << Mint(WS), Derived("mintAuthority", RO, "pump", "mint-authority", <<>>),
                 BondingCurve(W), AssociatedBondingCurve("Tokenkeg") >>
CreateCaller == << Global, Fixed("mplTokenMetadata", RO, "metaplex"), Metadata(W),
                   Given("user", WS), SystemProgram, Fixed("tokenProgram", RO, "Tokenkeg"),
                   AssociatedTokenProgram, Fixed("rent", RO, "rent") >> \o Events("pump")
create == CreateCoin \o CreateCaller

CreateV2Coin == << Mint(WS), Derived("mintAuthority", RO, "pump", "mint-authority", <<>>),
                   BondingCurve(W), AssociatedBondingCurve("tokenProgram"), Global,
                   Given("user", WS) >>
CreateV2Programs == << SystemProgram, Fixed("tokenProgram", RO, "Token2022"),
                       AssociatedTokenProgram, Fixed("mayhemProgramId", W, "mayhem"),
                       Derived("globalParams", RO, "mayhem", "global-params", <<>>),
                       Derived("solVault", W, "mayhem", "sol-vault", <<>>) >>
CreateV2Mayhem == << Derived("mayhemState", W, "mayhem", "mayhem-state", <<"mint">>),
                     Given("mayhemTokenVault", W) >> \o Events("pump")
createV2 == CreateV2Coin \o CreateV2Programs \o CreateV2Mayhem

TradeCurve == << Global, Given("feeRecipient", W), Mint(RO), BondingCurve(W),
                 AssociatedBondingCurve("tokenProgram"), Given("associatedUser", W) >>
BuyCaller == << Given("user", WS), SystemProgram, Given("tokenProgram", RO),
                CreatorVault(W) >> \o Events("pump")
BuyFees == << GlobalVolumeAccumulator(RO), UserVolumeAccumulator >> \o FeeConfig
buy == TradeCurve \o BuyCaller \o BuyFees

(* The same accounts, in the same order, for a budget in SOL. *)
BuyExactCurve == TradeCurve
BuyExactCaller == BuyCaller
BuyExactFees == BuyFees
buyExactSolIn == BuyExactCurve \o BuyExactCaller \o BuyExactFees

(* A sale has the vault before the token program, and no accumulators. *)
SellCurve == TradeCurve
SellCaller == << Given("user", WS), SystemProgram, CreatorVault(W),
                 Given("tokenProgram", RO) >> \o Events("pump") \o FeeConfig
sell == SellCurve \o SellCaller

extendAccount == << Given("account", W), Given("user", S), SystemProgram >> \o Events("pump")

(* The second seed of three token accounts is the owner of the mint, the  *)
(* token program it belongs to; the IDL can only write the mint again.    *)
MigrateCurve == << Global, Given("withdrawAuthority", W), Mint(RO), BondingCurve(W),
                   AssociatedBondingCurve("mint.owner"), Given("user", S), SystemProgram,
                   Fixed("tokenProgram", RO, "Tokenkeg"), Fixed("pumpAmm", RO, "pumpAmm") >>
MigratePool ==
  << Derived("pool", W, "pumpAmm", "pool", <<"poolAuthority", "mint", "wsolMint">>),
     Derived("poolAuthority", W, "pump", "pool-authority", <<"mint">>),
     AtaOf("poolAuthorityMintAccount", W, "poolAuthority", "mint.owner", "mint"),
     AtaOf("poolAuthorityWsolAccount", W, "poolAuthority", "tokenProgram", "wsolMint"),
     Derived("ammGlobalConfig", RO, "pumpAmm", "global_config", <<>>) >>
MigrateReserves ==
  << Fixed("wsolMint", RO, "wsol"),
     Derived("lpMint", W, "pumpAmm", "pool_lp_mint", <<"pool">>),
     AtaOf("userPoolTokenAccount", W, "poolAuthority", "token2022Program", "lpMint"),
     AtaOf("poolBaseTokenAccount", W, "pool", "mint.owner", "mint"),
     AtaOf("poolQuoteTokenAccount", W, "pool", "tokenProgram", "wsolMint"),
     Fixed("token2022Program", RO, "Token2022"), AssociatedTokenProgram >>
MigrateEvents == << EventAuthority("pumpAmmEventAuthority", "pumpAmm") >> \o Events("pump")
migrate == MigrateCurve \o MigratePool \o MigrateReserves \o MigrateEvents

---------------------------------------------------------------------------
(* The bonding-curve program: creators, their fees, and incentives. *)
SetCreatorMint == << Given("setCreatorAuthority", S), Global, Mint(RO), Metadata(RO) >>
SetCreatorCurve == << BondingCurve(W) >> \o Events("pump")
setCreator == SetCreatorMint \o SetCreatorCurve
adminSetCreator ==
  << Given("adminSetCreatorAuthority", S), Global, Mint(RO), BondingCurve(W) >> \o Events("pump")
collectCreatorFee ==
  << Given("creator", W), Derived("creatorVault", W, "pump", "creator-vault", <<"creator">>),
     SystemProgram >> \o Events("pump")

DistributeConfig == << Mint(RO), BondingCurve(RO), SharingConfig(RO) >>
DistributeVault == << CreatorVault(W), SystemProgram >> \o Events("pump")
distributeCreatorFees == DistributeConfig \o DistributeVault
getMinimumDistributableFee == << Mint(RO), BondingCurve(RO), SharingConfig(RO), CreatorVault(RO) >>

initUserVolumeAccumulator ==
  << Given("payer", WS), Given("user", RO), UserVolumeAccumulator, SystemProgram >>
    \o Events("pump")
syncUserVolumeAccumulator ==
  << Given("user", RO), GlobalVolumeAccumulator(RO), UserVolumeAccumulator >> \o Events("pump")
closeUserVolumeAccumulator == << Given("user", WS), UserVolumeAccumulator >> \o Events("pump")
claimCashback == << Given("user", W), UserVolumeAccumulator, SystemProgram >> \o Events("pump")

ClaimUser == << Given("user", RO), AtaOf("userAta", W, "user", "tokenProgram", "mint"),
                GlobalVolumeAccumulator(RO) >>
ClaimIncentives ==
  << GlobalIncentiveTokenAccount, UserVolumeAccumulator, Mint(RO), Given("tokenProgram", RO),
     SystemProgram, AssociatedTokenProgram >> \o Events("pump") \o << Given("payer", WS) >>
claimTokenIncentives == ClaimUser \o ClaimIncentives

IncentiveFunds == << Given("authority", WS), Global, GlobalVolumeAccumulator(W), Mint(RO),
                     GlobalIncentiveTokenAccount >>
IncentivePrograms ==
  << AssociatedTokenProgram, SystemProgram, Given("tokenProgram", RO) >> \o Events("pump")
adminUpdateTokenIncentives == IncentiveFunds \o IncentivePrograms

---------------------------------------------------------------------------
(* The fee program. *)
ShareConfigCaller ==
  Events("pumpFees") \o << Given("payer", WS), Global, Mint(RO), SharingConfig(W) >>
ShareConfigCurve == << SystemProgram, BondingCurve(W), Fixed("pumpProgram", RO, "pump"),
                       EventAuthority("pumpEventAuthority", "pump") >>
ShareConfigPool == << Given("pool", W), Fixed("pumpAmmProgram", RO, "pumpAmm"),
                      EventAuthority("pumpAmmEventAuthority", "pumpAmm") >>
createFeeSharingConfig == ShareConfigCaller \o ShareConfigCurve \o ShareConfigPool

createSocialFeePda ==
  << Given("payer", WS), Given("socialFeePda", W), SystemProgram,
     Derived("feeProgramGlobal", RO, "pumpFees", "fee-program-global", <<>>) >>
    \o Events("pumpFees")

UpdateConfig ==
  Events("pumpFees") \o << Given("authority", S), Global, Mint(RO), SharingConfig(W) >>
UpdatePumpVault ==
  << BondingCurve(RO),
     Derived("pumpCreatorVault", W, "pump", "creator-vault", <<"sharingConfig">>) >>
UpdatePrograms ==
  << SystemProgram, Fixed("pumpProgram", RO, "pump"),
     EventAuthority("pumpEventAuthority", "pump"), Fixed("pumpAmmProgram", RO, "pumpAmm"),
     EventAuthority("ammEventAuthority", "pumpAmm") >>
UpdateAmmVault ==
  << Fixed("wsolMint", RO, "wsol"), Fixed("tokenProgram", RO, "Tokenkeg"),
     AssociatedTokenProgram,
     Derived("coinCreatorVaultAuthority", W, "pumpAmm", "creator_vault", <<"sharingConfig">>),
     Given("coinCreatorVaultAta", W) >>
updateFeeShares == UpdateConfig \o UpdatePumpVault \o UpdatePrograms \o UpdateAmmVault

---------------------------------------------------------------------------
(* The AMM program. *)
TransferAmmVault ==
  << Given("wsolMint", RO), Given("tokenProgram", RO), SystemProgram, AssociatedTokenProgram,
     Given("coinCreator", RO),
     Derived("coinCreatorVaultAuthority", W, "pumpAmm", "creator_vault", <<"coinCreator">>),
     AtaOf("coinCreatorVaultAta", W, "coinCreatorVaultAuthority", "tokenProgram", "wsolMint") >>
TransferPumpVault ==
  << Derived("pumpCreatorVault", W, "pump", "creator-vault", <<"coinCreator">>) >>
    \o Events("pumpAmm")
transferCreatorFeesToPump == TransferAmmVault \o TransferPumpVault

collectCoinCreatorFee ==
  << Given("quoteMint", RO), Given("quoteTokenProgram", RO), Given("coinCreator", RO),
     Derived("coinCreatorVaultAuthority", RO, "pumpAmm", "creator_vault", <<"coinCreator">>),
     AtaOf("coinCreatorVaultAta", W, "coinCreatorVaultAuthority", "quoteTokenProgram", "quoteMint"),
     Given("coinCreatorTokenAccount", W) >> \o Events("pumpAmm")

adminSetCoinCreator ==
  << Given("adminSetCoinCreatorAuthority", S), Given("globalConfig", RO), Given("pool", W) >>
    \o Events("pumpAmm")

---------------------------------------------------------------------------
(* The token-account program, which both sides call to open an account    *)
(* unless it is already there.                                            *)
createIdempotent ==
  << Given("funder", WS), AtaOf("ata", W, "wallet", "tokenProgram", "mint"), Given("wallet", RO),
     Given("mint", RO), SystemProgram, Given("tokenProgram", RO) >>

(* The list of an instruction by its name. *)
Idl == [create |-> create, createV2 |-> createV2, buy |-> buy, buyExactSolIn |-> buyExactSolIn,
        sell |-> sell, extendAccount |-> extendAccount, migrate |-> migrate,
        setCreator |-> setCreator, adminSetCreator |-> adminSetCreator,
        adminSetCoinCreator |-> adminSetCoinCreator,
        collectCreatorFee |-> collectCreatorFee, collectCoinCreatorFee |-> collectCoinCreatorFee,
        distributeCreatorFees |-> distributeCreatorFees,
        getMinimumDistributableFee |-> getMinimumDistributableFee,
        initUserVolumeAccumulator |-> initUserVolumeAccumulator,
        syncUserVolumeAccumulator |-> syncUserVolumeAccumulator,
        closeUserVolumeAccumulator |-> closeUserVolumeAccumulator,
        claimCashback |-> claimCashback, claimTokenIncentives |-> claimTokenIncentives,
        adminUpdateTokenIncentives |-> adminUpdateTokenIncentives,
        createFeeSharingConfig |-> createFeeSharingConfig,
        createSocialFeePda |-> createSocialFeePda, updateFeeShares |-> updateFeeShares,
        transferCreatorFeesToPump |-> transferCreatorFeesToPump,
        createIdempotent |-> createIdempotent]
=============================================================================
