---------------------------- MODULE PumpMessages ----------------------------
(***************************************************************************)
(* The messages the bot writes byte by byte (src/pumpfun): a list of keys, *)
(* a header that says which of them sign and may be written, and           *)
(* instructions that name their accounts by position.  What is modelled is *)
(* what the network reads back: for every instruction, the keys and flags  *)
(* its positions stand for.                                                *)
(***************************************************************************)
EXTENDS PumpSdk

(* pda.rs: the addresses of a launch, derived once from the mint and the  *)
(* creator.                                                               *)
LaunchPdas(mint, user) ==
  [bonding_curve |-> bondingCurvePda(mint),
   associated_bonding_curve |->
     getAssociatedTokenAddressSync(mint, bondingCurvePda(mint), TOKEN_2022_PROGRAM_ID),
   mayhem_state |-> getMayhemStatePda(mint),
   mayhem_token_vault |->
     getAssociatedTokenAddressSync(mint, getSolVaultPda, TOKEN_2022_PROGRAM_ID),
   associated_user |-> getAssociatedTokenAddressSync(mint, user, TOKEN_2022_PROGRAM_ID),
   creator_vault |-> creatorVaultPda(user),
   user_volume_accumulator |-> userVolumeAccumulatorPda(user),
   bonding_curve_v2 |-> bondingCurveV2Pda(mint)]

(* ix.rs: the fixed addresses, compiled in. *)
MINT_AUTHORITY_PDA == Pda("pump", "mint-authority", <<>>)
GLOBAL_PDA == Pda("pump", "global", <<>>)
EVENT_AUTHORITY_PDA == Pda("pump", "__event_authority", <<>>)
GLOBAL_VOLUME_ACCUMULATOR_PDA == Pda("pump", "global_volume_accumulator", <<>>)
FEE_CONFIG_PDA == Pda("pumpFees", "fee_config", <<Program("pump")>>)
TIP_RECIPIENT == Wallet("tip")

---------------------------------------------------------------------------
(* A message: its static keys and header, and the keys its lookup table   *)
(* adds, the writable ones first.  Positions count from 0.                *)
Message(static, sigs, readonlyUnsigned, tableWritable, tableReadonly) ==
  [keys |-> static \o tableWritable \o tableReadonly,
   signs |-> 0..sigs - 1,
   writes |-> 0..Len(static) - readonlyUnsigned - 1
                \cup Len(static)..Len(static) + Len(tableWritable) - 1]

At(msg, pos) ==
  Meta(msg.keys[pos + 1], {f \in {"w", "s"} : \/ f = "w" /\ pos \in msg.writes
                                              \/ f = "s" /\ pos \in msg.signs})
Decoded(msg, op, positions, args) ==
  [op |-> op, args |-> args, metas |-> [i \in DOMAIN positions |-> At(msg, positions[i])]]

(* alt.rs: the table as it is on chain, and the place of an address in it. *)
AltEntries == << Program("pumpFees"), FEE_CONFIG_PDA, getSolVaultPda, GLOBAL_PDA,
                 EVENT_AUTHORITY_PDA, Program("mayhem"), GLOBAL_VOLUME_ACCUMULATOR_PDA,
                 getGlobalParamsPda, TOKEN_2022_PROGRAM_ID, MINT_AUTHORITY_PDA >>
Find(want) == CHOOSE i \in DOMAIN AltEntries : AltEntries[i] = want
AltIndices == [writable |-> << Find(Program("mayhem")), Find(getSolVaultPda) >>,
               readonly |-> << Find(MINT_AUTHORITY_PDA), Find(GLOBAL_PDA),
                               Find(TOKEN_2022_PROGRAM_ID), Find(getGlobalParamsPda),
                               Find(EVENT_AUTHORITY_PDA), Find(GLOBAL_VOLUME_ACCUMULATOR_PDA),
                               Find(FEE_CONFIG_PDA), Find(Program("pumpFees")) >>]
LookedUp(indices) == [i \in DOMAIN indices |-> AltEntries[indices[i]]]

---------------------------------------------------------------------------
(* ix.rs: create_v2, the creator's token account, and the creator's buy.  *)
LaunchKeys(user, mint, pdas, feeRecipient) ==
  << user, mint, pdas.bonding_curve, pdas.associated_bonding_curve, pdas.mayhem_state,
     pdas.mayhem_token_vault, feeRecipient, pdas.creator_vault, pdas.user_volume_accumulator,
     pdas.associated_user, TIP_RECIPIENT, getStaticRandomFeeRecipientForBuyback,
     pdas.bonding_curve_v2, Program("system"), Program("ata"), Program("compute budget"),
     Program("pump") >>
CREATE_V2_ACCOUNTS == << 1, 19, 2, 3, 20, 0, 13, 21, 14, 17, 22, 18, 4, 5, 23, 16 >>
LAUNCH_ATA_ACCOUNTS == << 0, 9, 0, 1, 13, 21 >>
BUY_ACCOUNTS == << 20, 6, 1, 2, 3, 9, 0, 13, 21, 7, 23, 16, 24, 8, 25, 26, 12, 11 >>

write_create_v2_and_buy_message(user, mint, pdas, feeRecipient) ==
  LET msg == Message(LaunchKeys(user, mint, pdas, feeRecipient), 2, 5,
                     LookedUp(AltIndices.writable), LookedUp(AltIndices.readonly))
  IN << Decoded(msg, "createV2", CREATE_V2_ACCOUNTS,
                [creator |-> user, mayhem |-> FALSE, cashback |-> FALSE]),
        Decoded(msg, "createIdempotent", LAUNCH_ATA_ACCOUNTS, NoArgs),
        Decoded(msg, "buy", BUY_ACCOUNTS, NoArgs) >>

(* buy_exact_sol_ix.rs: a spread wallet's token account and its buy. *)
BuyKeys(user, accumulator, mint, pdas, associatedUser, feeRecipient) ==
  << user, pdas.bonding_curve, pdas.associated_bonding_curve, associatedUser, feeRecipient,
     pdas.creator_vault, accumulator, getStaticRandomFeeRecipientForBuyback, TIP_RECIPIENT,
     mint, GLOBAL_PDA, Program("system"), TOKEN_2022_PROGRAM_ID, EVENT_AUTHORITY_PDA,
     Program("pump"), FEE_CONFIG_PDA, Program("pumpFees"), pdas.bonding_curve_v2,
     GLOBAL_VOLUME_ACCUMULATOR_PDA, Program("ata"), Program("compute budget") >>
BUY_EXACT_SOL_ACCOUNTS == << 10, 4, 9, 1, 2, 3, 0, 11, 12, 5, 13, 14, 18, 6, 15, 16, 17, 7 >>
ATA_IDEMPOTENT_ACCOUNTS == << 0, 3, 0, 9, 11, 12 >>

write_buy_message(user, accumulator, mint, pdas, associatedUser, feeRecipient) ==
  LET msg == Message(BuyKeys(user, accumulator, mint, pdas, associatedUser, feeRecipient), 1, 12,
                     <<>>, <<>>)
  IN << Decoded(msg, "createIdempotent", ATA_IDEMPOTENT_ACCOUNTS, NoArgs),
        Decoded(msg, "buyExactSolIn", BUY_EXACT_SOL_ACCOUNTS, NoArgs) >>

(* sell_ix.rs: a sale of everything a wallet holds. *)
SellKeys(user, mint, pdas, associatedUser, feeRecipient) ==
  << user, pdas.bonding_curve, pdas.associated_bonding_curve, associatedUser, feeRecipient,
     pdas.creator_vault, getStaticRandomFeeRecipientForBuyback, TIP_RECIPIENT, mint, GLOBAL_PDA,
     Program("system"), TOKEN_2022_PROGRAM_ID, EVENT_AUTHORITY_PDA, Program("pump"),
     FEE_CONFIG_PDA, Program("pumpFees"), pdas.bonding_curve_v2, Program("compute budget") >>
SELL_ACCOUNTS_BuyOrder == << 9, 4, 8, 1, 2, 3, 0, 10, 11, 5, 12, 13, 14, 15, 16, 6 >>
SELL_ACCOUNTS == << 9, 4, 8, 1, 2, 3, 0, 10, 5, 11, 12, 13, 14, 15, 16, 6 >>

write_sell_message(user, mint, pdas, associatedUser, feeRecipient) ==
  LET msg == Message(SellKeys(user, mint, pdas, associatedUser, feeRecipient), 1, 10, <<>>, <<>>)
  IN << Decoded(msg, "sell", SELL_ACCOUNTS, NoArgs) >>

---------------------------------------------------------------------------
(* launch.rs, buy.rs, sell.rs: the contexts made at startup.  Everything  *)
(* in them is derived from the dev's and the mint's keys; the recipient   *)
(* of fees is the one the Global account named then.                      *)
LaunchMessage(dev) ==
  write_create_v2_and_buy_message(dev, MINT, LaunchPdas(MINT, dev), getFeeRecipient(FALSE))
BuyMessage(dev, wallet) ==
  write_buy_message(wallet, userVolumeAccumulatorPda(wallet), MINT, LaunchPdas(MINT, dev),
    getAssociatedTokenAddressSync(MINT, wallet, TOKEN_2022_PROGRAM_ID), getFeeRecipient(FALSE))
SellMessage(dev, wallet) ==
  write_sell_message(wallet, MINT, LaunchPdas(MINT, dev),
    getAssociatedTokenAddressSync(MINT, wallet, TOKEN_2022_PROGRAM_ID), getFeeRecipient(FALSE))
=============================================================================
