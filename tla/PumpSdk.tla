------------------------------ MODULE PumpSdk ------------------------------
(***************************************************************************)
(* The instructions the SDK builds for one coin (docs/pump-sdk/src/pda.ts, *)
(* state.ts, sdk.ts and onlineSdk.ts).  An address is symbolic: the        *)
(* program and the seeds it is derived from, so that two addresses are     *)
(* equal exactly when they are derived alike.  Names, amounts, slippage    *)
(* and random picks among equivalent recipients are left out.              *)
(***************************************************************************)
EXTENDS Integers, FiniteSets, SequencesExt

IDL == INSTANCE PumpIdl
RO == IDL!RO
W  == IDL!W

Address(k, p, s) == [k |-> k, p |-> p, s |-> s]
Wallet(n) == Address(n, "wallet", <<>>)
Program(n) == Address(n, "program", <<>>)
Pda(p, tag, s) == Address(tag, p, s)
getAssociatedTokenAddressSync(mint, owner, token) == Pda("ata", "none", <<owner, token, mint>>)

TOKEN_PROGRAM_ID == Program("Tokenkeg")
TOKEN_2022_PROGRAM_ID == Program("Token2022")
NATIVE_MINT == Program("wsol")
PUMP_TOKEN_MINT == Wallet("pump-token")
MINT == Wallet("mint")

---------------------------------------------------------------------------
(* pda.ts *)
bondingCurvePda(mint) == Pda("pump", "bonding-curve", <<mint>>)
bondingCurveV2Pda(mint) == Pda("pump", "bonding-curve-v2", <<mint>>)
creatorVaultPda(creator) == Pda("pump", "creator-vault", <<creator>>)
pumpPoolAuthorityPda(mint) == Pda("pump", "pool-authority", <<mint>>)
canonicalPumpPoolPda(mint) == Pda("pumpAmm", "pool", <<pumpPoolAuthorityPda(mint), mint, NATIVE_MINT>>)
userVolumeAccumulatorPda(user) == Pda("pump", "user_volume_accumulator", <<user>>)
getGlobalParamsPda == Pda("mayhem", "global-params", <<>>)
getMayhemStatePda(mint) == Pda("mayhem", "mayhem-state", <<mint>>)
getSolVaultPda == Pda("mayhem", "sol-vault", <<>>)
getTokenVaultPda(mint) ==
  getAssociatedTokenAddressSync(mint, getSolVaultPda, TOKEN_2022_PROGRAM_ID)
feeSharingConfigPda(mint) == Pda("pumpFees", "sharing-config", <<mint>>)
ammGlobalConfigPda == Pda("pumpAmm", "global_config", <<>>)
ammCreatorVaultPda(creator) == Pda("pumpAmm", "creator_vault", <<creator>>)
socialFeePda(userId, platform) ==
  Pda("pumpFees", "social-fee-pda", <<Wallet(userId), Wallet(platform)>>)

(* The AMM's vault of a creator is a wrapped-SOL account (pump-swap-sdk). *)
ammVaultAta(creator) ==
  getAssociatedTokenAddressSync(NATIVE_MINT, ammCreatorVaultPda(creator), TOKEN_PROGRAM_ID)

(* state.ts *)
SUPPORTED_SOCIAL_PLATFORMS == {"GitHub"}

---------------------------------------------------------------------------
(***************************************************************************)
(* Anchor fills the accounts the caller leaves out: fixed addresses, and   *)
(* addresses derived from accounts already known.  Seeds read from an      *)
(* account's data cannot be had offline.                                   *)
(***************************************************************************)
Constants == {"pump", "Tokenkeg", "metaplex"}
Resolvable(row, acc) ==
  \/ row.rule = "fixed"
  \/ /\ row.rule = "derived"
     /\ \A i \in DOMAIN row.seeds : row.seeds[i] \in DOMAIN acc \cup Constants \cup {"mint.owner"}
SeedKey(seed, acc) ==
  IF seed = "mint.owner" THEN acc["mint"]
  ELSE IF seed \in DOMAIN acc THEN acc[seed]
  ELSE Program(seed)
Resolve(row, acc) ==
  IF row.name \in DOMAIN acc \/ ~Resolvable(row, acc) THEN acc
  ELSE [n \in DOMAIN acc \cup {row.name} |->
          IF n # row.name THEN acc[n]
          ELSE IF row.rule = "fixed" THEN Program(row.prog)
          ELSE Pda(row.prog, row.tag, [i \in DOMAIN row.seeds |-> SeedKey(row.seeds[i], acc)])]
Sweep(idl, acc) ==
  LET upTo[i \in 0..Len(idl)] == IF i = 0 THEN acc ELSE Resolve(idl[i], upTo[i - 1])
  IN upTo[Len(idl)]

Unresolved == Wallet("unresolved")
Meta(key, flags) == [key |-> key, flags |-> flags]
(* What a builder is told, and the instruction it makes of it. *)
instruction(op, given, rest, args) == [op |-> op, given |-> given, rest |-> rest, args |-> args]
Filled(ix, idl, acc) ==
  [op |-> ix.op, args |-> ix.args,
   metas |-> [i \in DOMAIN idl |->
                Meta(IF idl[i].name \in DOMAIN acc THEN acc[idl[i].name] ELSE Unresolved,
                     idl[i].flags)] \o ix.rest]
FilledIn(ix, idl) == Filled(ix, idl, Sweep(idl, Sweep(idl, Sweep(idl, ix.given))))
Instructions(ixs) == [i \in DOMAIN ixs |-> FilledIn(ixs[i], IDL!Idl[ixs[i].op])]

NoArgs == [none |-> TRUE]
Writable(keys) == [i \in DOMAIN keys |-> Meta(keys[i], W)]

(* The token-account program's instruction, from @solana/spl-token. *)
createAssociatedTokenAccountIdempotentInstruction(payer, owner, token) ==
  instruction("createIdempotent",
    [funder |-> payer, ata |-> getAssociatedTokenAddressSync(MINT, owner, token),
     wallet |-> owner, mint |-> MINT, tokenProgram |-> token], <<>>, NoArgs)

---------------------------------------------------------------------------
(* sdk.ts: creating a coin. *)
createInstruction(user, creator) ==
  instruction("create", [mint |-> MINT, user |-> user, tokenProgram |-> TOKEN_PROGRAM_ID], <<>>,
              [creator |-> creator, mayhem |-> FALSE, cashback |-> FALSE])

createV2Instruction(user, creator, mayhemMode, cashback) ==
  instruction("createV2",
    [mint |-> MINT, user |-> user, tokenProgram |-> TOKEN_2022_PROGRAM_ID,
     mayhemProgramId |-> Program("mayhem"), globalParams |-> getGlobalParamsPda,
     solVault |-> getSolVaultPda, mayhemState |-> getMayhemStatePda(MINT),
     mayhemTokenVault |-> getTokenVaultPda(MINT)], <<>>,
    [creator |-> creator, mayhem |-> mayhemMode, cashback |-> cashback])

extendAccountInstruction(user) ==
  instruction("extendAccount", [account |-> bondingCurvePda(MINT), user |-> user], <<>>, NoArgs)

(* fees.ts and bondingCurve.ts: one account stands for each pool of       *)
(* recipients.                                                            *)
getFeeRecipient(mayhemMode) == Wallet(IF mayhemMode THEN "reserved fee" ELSE "fee")
getStaticRandomFeeRecipient == Wallet("fee")
getStaticRandomFeeRecipientForBuyback == Wallet("buyback")

TradeRest == << Meta(bondingCurveV2Pda(MINT), RO), Meta(getStaticRandomFeeRecipientForBuyback, W) >>

getBuyInstructionInternal(user, creator, feeRecipient, token) ==
  instruction("buy",
    [feeRecipient |-> feeRecipient, mint |-> MINT, user |-> user,
     associatedUser |-> getAssociatedTokenAddressSync(MINT, user, token),
     creatorVault |-> creatorVaultPda(creator), tokenProgram |-> token], TradeRest, NoArgs)

buyInstruction(user, creator, token, mayhemMode) ==
  getBuyInstructionInternal(user, creator, getFeeRecipient(mayhemMode), token)

getBuyInstructionRaw(user, creator, token) ==
  getBuyInstructionInternal(user, creator, getStaticRandomFeeRecipient, token)

createV2AndBuyInstructions(user, creator, mayhemMode, cashback) ==
  << createV2Instruction(user, creator, mayhemMode, cashback),
     extendAccountInstruction(user),
     createAssociatedTokenAccountIdempotentInstruction(user, user, TOKEN_2022_PROGRAM_ID),
     buyInstruction(user, creator, TOKEN_2022_PROGRAM_ID, mayhemMode) >>

createAndBuyInstructions(user, creator) ==
  << createInstruction(user, creator),
     extendAccountInstruction(user),
     createAssociatedTokenAccountIdempotentInstruction(user, user, TOKEN_PROGRAM_ID),
     buyInstruction(user, creator, TOKEN_PROGRAM_ID, FALSE) >>

---------------------------------------------------------------------------
(* sdk.ts: trading, from what fetchBuyState and fetchSellState returned.  *)
Extension(user, curve) == IF curve.size = "old" THEN << extendAccountInstruction(user) >> ELSE <<>>

buyInstructions(user, curve) ==
  Extension(user, curve)
    \o (IF curve.ata THEN <<>>
        ELSE << createAssociatedTokenAccountIdempotentInstruction(user, user, curve.token) >>)
    \o << buyInstruction(user, curve.creator, curve.token, curve.mayhem) >>

getSellInstructionInternal(user, creator, feeRecipient, token, cashback) ==
  instruction("sell",
    [feeRecipient |-> feeRecipient, mint |-> MINT, user |-> user,
     associatedUser |-> getAssociatedTokenAddressSync(MINT, user, token),
     creatorVault |-> creatorVaultPda(creator), tokenProgram |-> token],
    IF cashback THEN << Meta(userVolumeAccumulatorPda(user), W) >> \o TradeRest ELSE TradeRest,
    NoArgs)

getSellInstructionRaw(user, creator, token, cashback) ==
  getSellInstructionInternal(user, creator, getStaticRandomFeeRecipient, token, cashback)

(* The caller names the modes of the coin; they are not read off the curve. *)
sellInstructions(user, curve, mayhemMode, cashback) ==
  Extension(user, curve)
    \o << getSellInstructionInternal(user, curve.creator, getFeeRecipient(mayhemMode),
                                     curve.token, cashback) >>

migrateInstruction(withdrawAuthority, user, token) ==
  instruction("migrate",
    [mint |-> MINT, user |-> user, withdrawAuthority |-> withdrawAuthority,
     associatedBondingCurve |-> getAssociatedTokenAddressSync(MINT, bondingCurvePda(MINT), token),
     poolAuthorityMintAccount |->
       getAssociatedTokenAddressSync(MINT, pumpPoolAuthorityPda(MINT), token),
     poolBaseTokenAccount |->
       getAssociatedTokenAddressSync(MINT, canonicalPumpPoolPda(MINT), token)], <<>>, NoArgs)

---------------------------------------------------------------------------
(* sdk.ts: accumulators and cashback. *)
initUserVolumeAccumulator(payer, user) ==
  << instruction("initUserVolumeAccumulator", [payer |-> payer, user |-> user], <<>>, NoArgs) >>
syncUserVolumeAccumulator(user) ==
  << instruction("syncUserVolumeAccumulator", [user |-> user], <<>>, NoArgs) >>
closeUserVolumeAccumulator(user) ==
  << instruction("closeUserVolumeAccumulator", [user |-> user], <<>>, NoArgs) >>
claimCashbackInstruction(user) == instruction("claimCashback", [user |-> user], <<>>, NoArgs)

(* onlineSdk.ts: incentives, for the mint the accumulator names. *)
claimTokenIncentives(user, payer, hasAccumulator) ==
  IF ~hasAccumulator THEN <<>>
  ELSE << instruction("claimTokenIncentives",
            [user |-> user, payer |-> payer, mint |-> PUMP_TOKEN_MINT,
             tokenProgram |-> TOKEN_2022_PROGRAM_ID], <<>>, NoArgs) >>
adminUpdateTokenIncentives(authority) ==
  << instruction("adminUpdateTokenIncentives",
       [authority |-> authority, mint |-> PUMP_TOKEN_MINT,
        tokenProgram |-> TOKEN_2022_PROGRAM_ID], <<>>, NoArgs) >>

---------------------------------------------------------------------------
(* sdk.ts and onlineSdk.ts: the creator of a coin and its fees. *)
setCreator(authority, creator) ==
  << instruction("setCreator", [mint |-> MINT, setCreatorAuthority |-> authority], <<>>,
                 [creator |-> creator]) >>

(* The curve's creator, then the pool's.  The second instruction is built  *)
(* by the AMM's SDK, which takes the authority from its own configuration: *)
(* the admins of the two programs are one here.                            *)
adminSetCoinCreatorInstructions(authority, creator) ==
  << instruction("adminSetCreator", [mint |-> MINT, adminSetCreatorAuthority |-> authority], <<>>,
                 [creator |-> creator]),
     instruction("adminSetCoinCreator",
       [adminSetCoinCreatorAuthority |-> authority, globalConfig |-> ammGlobalConfigPda,
        pool |-> canonicalPumpPoolPda(MINT)], <<>>, [creator |-> creator]) >>

(* The second instruction is built by the AMM's SDK. *)
collectCoinCreatorFeeInstructions(coinCreator) ==
  << instruction("collectCreatorFee", [creator |-> coinCreator], <<>>, NoArgs),
     instruction("collectCoinCreatorFee",
       [coinCreator |-> coinCreator, quoteMint |-> NATIVE_MINT,
        quoteTokenProgram |-> TOKEN_PROGRAM_ID,
        coinCreatorVaultAuthority |-> ammCreatorVaultPda(coinCreator),
        coinCreatorVaultAta |-> ammVaultAta(coinCreator),
        coinCreatorTokenAccount |->
          getAssociatedTokenAddressSync(NATIVE_MINT, coinCreator, TOKEN_PROGRAM_ID)],
       <<>>, NoArgs) >>

createFeeSharingConfig(creator, pool) ==
  instruction("createFeeSharingConfig", [payer |-> creator, mint |-> MINT, pool |-> pool], <<>>,
              NoArgs)

(* A list of new shareholders the SDK turns down. *)
MAX_SHAREHOLDERS == 10
ShareTotal == 10000
TotalShares(shares) == FoldSeq(LAMBDA h, sum : h.bps + sum, 0, shares)
ValidShares(shares) ==
  /\ Len(shares) \in 1..MAX_SHAREHOLDERS
  /\ \A i \in DOMAIN shares : shares[i].bps > 0
  /\ TotalShares(shares) = ShareTotal
  /\ Cardinality({shares[i].address : i \in DOMAIN shares}) = Len(shares)

updateFeeShares(authority, current, shares) ==
  instruction("updateFeeShares",
    [authority |-> authority, mint |-> MINT,
     coinCreatorVaultAta |-> ammVaultAta(feeSharingConfigPda(MINT))],
    Writable(current), [shares |-> shares])

createSocialFeePda(payer, userId, platform) ==
  instruction("createSocialFeePda",
    [payer |-> payer, socialFeePda |-> socialFeePda(userId, platform)], <<>>,
    [userId |-> userId, platform |-> platform])

(* A shareholder is a wallet, or a user of a platform; a platform that is  *)
(* not supported makes the call throw.                                    *)
Normalizable(shares) ==
  \A i \in DOMAIN shares : shares[i].platform \in SUPPORTED_SOCIAL_PLATFORMS \cup {"none"}
normalizeSocialShareholders(shares) ==
  [i \in DOMAIN shares |->
     [address |-> IF shares[i].platform = "none" THEN Wallet(shares[i].who)
                  ELSE socialFeePda(shares[i].who, shares[i].platform),
      bps |-> shares[i].bps]]
SocialRecipients(shares) ==
  {<<shares[i].who, shares[i].platform>> : i \in {j \in DOMAIN shares : shares[j].platform # "none"}}

ThrowsOn(shares) == ~Normalizable(shares) \/ ~ValidShares(normalizeSocialShareholders(shares))

updateSharingConfigWithSocialRecipients_NoAccounts(authority, current, shares) ==
  << updateFeeShares(authority, current, normalizeSocialShareholders(shares)) >>
updateSharingConfigWithSocialRecipients(authority, current, shares) ==
  LET social == SetToSeq(SocialRecipients(shares))
  IN [i \in DOMAIN social |-> createSocialFeePda(authority, social[i][1], social[i][2])]
       \o << updateFeeShares(authority, current, normalizeSocialShareholders(shares)) >>

createSharingConfigWithSocialRecipients(creator, pool, shares) ==
  << createFeeSharingConfig(creator, pool) >>
    \o updateSharingConfigWithSocialRecipients(creator, <<creator>>, shares)

isCreatorUsingSharingConfig_Vault(creator) == creatorVaultPda(feeSharingConfigPda(MINT)) = creator
isCreatorUsingSharingConfig(creator) == feeSharingConfigPda(MINT) = creator
isSharingConfigEditable(config) == config.version # 1 /\ ~(config.version = 2 /\ config.revoked)

distributeCreatorFees(holders) ==
  instruction("distributeCreatorFees",
    [mint |-> MINT, creatorVault |-> creatorVaultPda(feeSharingConfigPda(MINT))],
    Writable(holders), NoArgs)

getMinimumDistributableFee(holders) ==
  instruction("getMinimumDistributableFee",
    [mint |-> MINT, creatorVault |-> creatorVaultPda(feeSharingConfigPda(MINT))],
    Writable(holders), NoArgs)

(* onlineSdk.ts: fees on the AMM are brought over first, when there are   *)
(* any accounts to bring them from.                                       *)
Consolidation_OnCurveOnly(config) ==
  IF ~config.graduated /\ config.ammVault
  THEN << instruction("transferCreatorFeesToPump",
            [wsolMint |-> NATIVE_MINT, tokenProgram |-> TOKEN_PROGRAM_ID,
             coinCreator |-> feeSharingConfigPda(MINT)], <<>>, NoArgs) >>
  ELSE <<>>
Consolidation(config) ==
  IF config.graduated /\ config.ammVault
  THEN << instruction("transferCreatorFeesToPump",
            [wsolMint |-> NATIVE_MINT, tokenProgram |-> TOKEN_PROGRAM_ID,
             coinCreator |-> feeSharingConfigPda(MINT)], <<>>, NoArgs) >>
  ELSE <<>>
buildDistributeCreatorFeesInstructions(config) ==
  Consolidation(config) \o << distributeCreatorFees(config.holders) >>
minimumDistributableFeeInstructions(config) ==
  Consolidation(config) \o << getMinimumDistributableFee(config.holders) >>
=============================================================================
