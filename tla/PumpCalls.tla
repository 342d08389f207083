----------------------------- MODULE PumpCalls -----------------------------
(***************************************************************************)
(* One coin on chain, and the calls the SDK and the bot make on it.  A     *)
(* caller reads the chain, builds its instructions from what it read, and  *)
(* sends them; by the time they land other calls may have changed the      *)
(* creator, the phase or the shareholders.  The programs are external:     *)
(* they are modelled from their IDLs and from how the SDK and the bot rely *)
(* on them.  A transaction is atomic: the first instruction a program      *)
(* refuses undoes the others.                                              *)
(***************************************************************************)
EXTENDS PumpMessages

CONSTANTS
    Modes,      \* the modes a coin may be created in: mayhem, cashback
    ShareLists  \* the lists of new shareholders a creator may ask for

ASSUME ModesAssumption == Modes \subseteq [mayhem : BOOLEAN, cashback : BOOLEAN]
ASSUME ShareListsAssumption ==
  ShareLists \subseteq Seq([who : STRING, platform : STRING, bps : Nat])

VARIABLES
    chain,      \* the accounts of the coin and of its callers
    call        \* the call under way: built and not yet landed

vars == <<chain, call>>

Dev == Wallet("dev")           \* creates the coin
Other == Wallet("wallet-1")    \* a trader, one of the bot's wallets, a later creator
Authority == Wallet("authority")
Users == {Dev, Other}
Config == feeSharingConfigPda(MINT)
NoCall == [op |-> "none"]

NoShares == [version |-> 2, revoked |-> FALSE, admin |-> Dev, holders |-> <<>>]
Unlaunched ==
  [phase |-> "none", token |-> TOKEN_2022_PROGRAM_ID, creator |-> Dev, pool |-> Dev,
   mayhem |-> FALSE, cashback |-> FALSE, size |-> "new", ata |-> {}, uva |-> {}, shares |-> NoShares,
   social |-> {}, fees |-> {}, ammVaults |-> {}]

Addresses(shares) == [i \in DOMAIN shares |-> shares[i].address]
HasShares(c) == c.shares.holders # <<>>
Graduated(c) == c.phase = "amm"

---------------------------------------------------------------------------
(***************************************************************************)
(* What a program demands of an instruction's accounts.                    *)
(***************************************************************************)
Accounts(ix, idl) ==
  [n \in {idl[i].name : i \in DOMAIN idl} |->
     ix.metas[CHOOSE i \in DOMAIN idl : idl[i].name = n].key]
Rest(ix, idl) == SubSeq(ix.metas, Len(idl) + 1, Len(ix.metas))

(* The programs see the accounts themselves. *)
SeedOnChain(seed, acc, c) ==
  IF seed = "bondingCurve.creator" THEN c.creator
  ELSE IF seed = "mint.owner" THEN c.token
  ELSE IF seed \in DOMAIN acc THEN acc[seed]
  ELSE Program(seed)

Incentives == {"claimTokenIncentives", "adminUpdateTokenIncentives"}
Wrapped == {"transferCreatorFeesToPump"}
TokenOf(op, c) == IF op \in Incentives THEN TOKEN_2022_PROGRAM_ID
                  ELSE IF op \in Wrapped THEN TOKEN_PROGRAM_ID ELSE c.token

(* What a program checks of the accounts the caller chooses. *)
ChoiceHolds(name, op, acc, c) ==
  CASE name = "mint" -> acc.mint = IF op \in Incentives THEN PUMP_TOKEN_MINT ELSE MINT
    [] name = "tokenProgram" -> acc.tokenProgram = TokenOf(op, c)
    [] name = "feeRecipient" -> acc.feeRecipient = getFeeRecipient(c.mayhem)
    [] name = "associatedUser" ->
         /\ acc.associatedUser = getAssociatedTokenAddressSync(MINT, acc.user, c.token)
         /\ acc.user \in c.ata
    [] name = "mayhemTokenVault" -> acc.mayhemTokenVault = getTokenVaultPda(MINT)
    [] name = "account" -> acc.account = bondingCurvePda(MINT)
    [] name = "pool" -> Graduated(c) => acc.pool = canonicalPumpPoolPda(MINT)
    [] name = "coinCreatorVaultAta" -> acc.coinCreatorVaultAta = ammVaultAta(Config)
    [] name = "authority" ->
         acc.authority = IF op = "updateFeeShares" THEN c.shares.admin ELSE Authority
    [] name \in {"withdrawAuthority", "setCreatorAuthority", "adminSetCreatorAuthority",
                  "adminSetCoinCreatorAuthority"} -> acc[name] = Authority
    [] name = "globalConfig" -> acc.globalConfig = ammGlobalConfigPda
    [] name = "wsolMint" -> acc.wsolMint = NATIVE_MINT
    [] OTHER -> acc[name] # Unresolved

RowHolds(row, op, acc, c) ==
  CASE row.rule = "given" -> ChoiceHolds(row.name, op, acc, c)
    [] row.rule = "fixed" -> acc[row.name] = Program(row.prog)
    [] row.rule = "derived" ->
         acc[row.name] = Pda(row.prog, row.tag,
                             [i \in DOMAIN row.seeds |-> SeedOnChain(row.seeds[i], acc, c)])

(* What follows the accounts of the IDL. *)
RestNeeded(op, acc, c) ==
  CASE op \in {"buy", "buyExactSolIn"} -> TradeRest
    [] op = "sell" ->
         IF c.cashback THEN << Meta(userVolumeAccumulatorPda(acc.user), W) >> \o TradeRest
         ELSE TradeRest
    [] op \in {"distributeCreatorFees", "getMinimumDistributableFee", "updateFeeShares"} ->
         Writable(Addresses(c.shares.holders))
    [] OTHER -> <<>>

Covers(metas, needed) ==
  /\ Len(metas) = Len(needed)
  /\ \A i \in DOMAIN needed : metas[i].key = needed[i].key /\ needed[i].flags \subseteq metas[i].flags

AccountsHold(ix, idl, acc, c) ==
  /\ Len(ix.metas) >= Len(idl)
  /\ \A i \in DOMAIN idl : /\ idl[i].flags \subseteq ix.metas[i].flags
                           /\ RowHolds(idl[i], ix.op, acc, c)
  /\ Covers(Rest(ix, idl), RestNeeded(ix.op, acc, c))

---------------------------------------------------------------------------
(***************************************************************************)
(* When a program runs an instruction, and what it leaves behind.          *)
(***************************************************************************)
Ready(ix, acc, c) ==
  CASE ix.op \in {"create", "createV2"} -> c.phase = "none"
    [] ix.op \in {"buy", "buyExactSolIn"} -> c.phase = "curve" /\ c.size = "new"
    [] ix.op = "sell" -> c.phase = "curve" /\ c.size = "new" /\ (c.cashback => acc.user \in c.uva)
    [] ix.op = "migrate" -> c.phase = "complete"
    [] ix.op = "setCreator" -> c.token = TOKEN_PROGRAM_ID /\ ~isCreatorUsingSharingConfig(c.creator)
    [] ix.op = "adminSetCreator" -> c.phase # "none" /\ ~isCreatorUsingSharingConfig(c.creator)
    [] ix.op = "adminSetCoinCreator" -> Graduated(c) /\ ~isCreatorUsingSharingConfig(c.pool)
    [] ix.op = "collectCreatorFee" -> ~isCreatorUsingSharingConfig(acc.creator)
    [] ix.op = "initUserVolumeAccumulator" -> acc.user \notin c.uva
    [] ix.op \in {"syncUserVolumeAccumulator", "closeUserVolumeAccumulator", "claimCashback",
                  "claimTokenIncentives"} -> acc.user \in c.uva
    [] ix.op = "createFeeSharingConfig" -> ~HasShares(c) /\ acc.payer = c.creator
    [] ix.op = "updateFeeShares" ->
         HasShares(c) /\ isSharingConfigEditable(c.shares) /\ ValidShares(ix.args.shares)
    [] ix.op \in {"distributeCreatorFees", "getMinimumDistributableFee"} -> HasShares(c)
    [] ix.op = "transferCreatorFeesToPump" -> acc.coinCreatorVaultAta \in c.ammVaults
    [] ix.op \in {"extendAccount", "createIdempotent"} -> c.phase # "none"
    [] OTHER -> TRUE

(* The fees of a vault of the AMM join those of the curve's. *)
Consolidated(acc, c) ==
  IF acc.coinCreatorVaultAta \in c.fees
  THEN (c.fees \ {acc.coinCreatorVaultAta}) \cup {acc.pumpCreatorVault}
  ELSE c.fees

(* A new sharing configuration: everything goes to the one who made it. *)
FirstShares(payer) ==
  [version |-> 2, revoked |-> FALSE, admin |-> payer,
   holders |-> <<[address |-> payer, bps |-> ShareTotal]>>]

Effect(ix, acc, c) ==
  CASE ix.op \in {"create", "createV2"} ->
         [c EXCEPT !.phase = "curve", !.token = acc.tokenProgram, !.creator = ix.args.creator,
                   !.mayhem = ix.args.mayhem, !.cashback = ix.args.cashback,
                   !.size = IF ix.op = "create" THEN "old" ELSE "new"]
    [] ix.op = "extendAccount" -> [c EXCEPT !.size = "new"]
    [] ix.op = "createIdempotent" -> [c EXCEPT !.ata = @ \cup {acc.wallet}]
    [] ix.op \in {"buy", "buyExactSolIn"} ->
         [c EXCEPT !.fees = @ \cup {acc.creatorVault}, !.uva = @ \cup {acc.user}]
    [] ix.op = "sell" -> [c EXCEPT !.fees = @ \cup {acc.creatorVault}]
    [] ix.op = "migrate" -> [c EXCEPT !.phase = "amm", !.pool = c.creator]
    [] ix.op \in {"setCreator", "adminSetCreator"} -> [c EXCEPT !.creator = ix.args.creator]
    [] ix.op = "adminSetCoinCreator" -> [c EXCEPT !.pool = ix.args.creator]
    [] ix.op = "collectCreatorFee" -> [c EXCEPT !.fees = @ \ {acc.creatorVault}]
    [] ix.op = "collectCoinCreatorFee" -> [c EXCEPT !.fees = @ \ {acc.coinCreatorVaultAta}]
    [] ix.op = "initUserVolumeAccumulator" -> [c EXCEPT !.uva = @ \cup {acc.user}]
    [] ix.op = "closeUserVolumeAccumulator" -> [c EXCEPT !.uva = @ \ {acc.user}]
    [] ix.op = "createFeeSharingConfig" ->
         [c EXCEPT !.creator = acc.sharingConfig, !.shares = FirstShares(acc.payer),
                   !.pool = IF Graduated(c) THEN acc.sharingConfig ELSE c.pool]
    [] ix.op = "createSocialFeePda" -> [c EXCEPT !.social = @ \cup {acc.socialFeePda}]
    [] ix.op = "updateFeeShares" ->
         [c EXCEPT !.fees = @ \ {acc.pumpCreatorVault, acc.coinCreatorVaultAta},
                   !.shares = [version |-> @.version, revoked |-> TRUE, admin |-> @.admin,
                               holders |-> ix.args.shares]]
    [] ix.op = "distributeCreatorFees" -> [c EXCEPT !.fees = @ \ {acc.creatorVault}]
    [] ix.op = "transferCreatorFeesToPump" -> [c EXCEPT !.fees = Consolidated(acc, c)]
    [] OTHER -> c

Refused == [phase |-> "refused"]
Executed(c, ix, idl, acc) ==
  IF AccountsHold(ix, idl, acc, c) /\ Ready(ix, acc, c) THEN Effect(ix, acc, c) ELSE Refused
Run(c, ix, idl) == IF c = Refused THEN Refused ELSE Executed(c, ix, idl, Accounts(ix, idl))
Landed(c, ixs) ==
  LET after[i \in 0..Len(ixs)] ==
        IF i = 0 THEN c ELSE Run(after[i - 1], ixs[i], IDL!Idl[ixs[i].op])
  IN after[Len(ixs)]

---------------------------------------------------------------------------
(***************************************************************************)
(* What a caller reads before it builds a call.  The bot reads nothing: it *)
(* takes the coin to be as its own launch made it.                         *)
(***************************************************************************)
Bot == {"botBuy", "botSell"}
AsLaunched == [token |-> TOKEN_2022_PROGRAM_ID, creator |-> Dev, mayhem |-> FALSE,
               cashback |-> FALSE, size |-> "new"]
FetchedConfig(c) == [holders |-> Addresses(c.shares.holders), graduated |-> Graduated(c),
                     ammVault |-> ammVaultAta(Config) \in c.ammVaults]
Look(op, user, c) ==
  CASE op \in {"buy", "sell"} ->
         [token |-> c.token, creator |-> c.creator, mayhem |-> c.mayhem, size |-> c.size,
          ata |-> user \in c.ata]
    [] op \in {"buyRaw", "sellRaw"} -> [token |-> c.token, creator |-> c.creator]
    [] op \in Bot -> [token |-> c.token, creator |-> c.creator, mayhem |-> c.mayhem,
                      cashback |-> c.cashback, size |-> c.size]
    [] op = "migrate" -> [token |-> c.token]
    [] op \in {"share", "shareAlone"} -> [graduated |-> Graduated(c)]
    [] op = "reshare" -> [holders |-> Addresses(c.shares.holders)]
    [] op \in {"distribute", "minimumFee"} -> FetchedConfig(c)
    [] op = "claimIncentives" -> [accumulator |-> user \in c.uva]
    [] OTHER -> [none |-> TRUE]

Pool(graduated) == IF graduated THEN canonicalPumpPoolPda(MINT) ELSE Program("pumpFees")
SdkCall(m) ==
  CASE m.op = "createAndBuy" -> createAndBuyInstructions(m.user, m.user)
    [] m.op = "createV2AndBuy" ->
         createV2AndBuyInstructions(m.user, m.user, m.opt.mayhem, m.opt.cashback)
    [] m.op = "buy" -> buyInstructions(m.user, m.seen)
    [] m.op = "sell" -> sellInstructions(m.user, m.seen, m.opt.mayhem, m.opt.cashback)
    [] m.op = "buyRaw" -> << getBuyInstructionRaw(m.user, m.seen.creator, m.seen.token) >>
    [] m.op = "sellRaw" ->
         << getSellInstructionRaw(m.user, m.seen.creator, m.seen.token, m.opt.cashback) >>
    [] m.op = "migrate" -> << migrateInstruction(Authority, m.user, m.seen.token) >>
    [] m.op = "initAccumulator" -> initUserVolumeAccumulator(m.user, m.user)
    [] m.op = "syncAccumulator" -> syncUserVolumeAccumulator(m.user)
    [] m.op = "closeAccumulator" -> closeUserVolumeAccumulator(m.user)
    [] m.op = "claimCashback" -> << claimCashbackInstruction(m.user) >>
    [] m.op = "claimIncentives" -> claimTokenIncentives(m.user, m.user, m.seen.accumulator)
    [] m.op = "adminIncentives" -> adminUpdateTokenIncentives(m.user)
    [] m.op = "setCreator" -> setCreator(m.user, Other)
    [] m.op = "adminSetCreator" -> adminSetCoinCreatorInstructions(m.user, Other)
    [] m.op = "collect" -> collectCoinCreatorFeeInstructions(m.user)
    [] m.op = "share" ->
         createSharingConfigWithSocialRecipients(m.user, Pool(m.seen.graduated), m.opt)
    [] m.op = "shareAlone" -> << createFeeSharingConfig(m.user, Pool(m.seen.graduated)) >>
    [] m.op = "reshare" -> updateSharingConfigWithSocialRecipients(m.user, m.seen.holders, m.opt)
    [] m.op = "distribute" -> buildDistributeCreatorFeesInstructions(m.seen)
    [] m.op = "minimumFee" -> minimumDistributableFeeInstructions(m.seen)
BotCall(m) ==
  CASE m.op = "botLaunch" -> LaunchMessage(m.user)
    [] m.op = "botBuy" -> BuyMessage(Dev, m.user)
    [] m.op = "botSell" -> SellMessage(Dev, m.user)
Built(m) ==
  IF m.op \in Bot \cup {"botLaunch"} THEN BotCall(m) ELSE Instructions(SdkCall(m))

---------------------------------------------------------------------------
(***************************************************************************)
(* One action per method: it throws, or hands over the call to be sent.    *)
(***************************************************************************)
NoOption == "none"
Send(op, user, opt, seen) ==
  /\ call = NoCall
  /\ call' = [op |-> op, user |-> user, opt |-> opt, seen |-> seen]
  /\ UNCHANGED chain
Issue(op, user, opt) == Send(op, user, opt, Look(op, user, chain))
Existing == chain.phase # "none"

CreateAndBuy == Issue("createAndBuy", Dev, NoOption)
CreateV2AndBuy == \E m \in Modes : Issue("createV2AndBuy", Dev, m)
Buy == Existing /\ Issue("buy", Other, NoOption)
Sell == Existing /\ Other \in chain.ata /\ \E m \in Modes : Issue("sell", Other, m)
BuyRaw == Existing /\ Issue("buyRaw", Other, NoOption)
SellRaw == Existing /\ \E m \in Modes : Issue("sellRaw", Other, m)
BotLaunch == Issue("botLaunch", Dev, NoOption)
BotBuy == Send("botBuy", Other, NoOption, AsLaunched)
BotSell == Send("botSell", Other, NoOption, AsLaunched)
Migrate == Existing /\ Issue("migrate", Other, NoOption)
InitAccumulator == Issue("initAccumulator", Other, NoOption)
SyncAccumulator == Issue("syncAccumulator", Other, NoOption)
CloseAccumulator == Issue("closeAccumulator", Other, NoOption)
ClaimCashback == Issue("claimCashback", Other, NoOption)
ClaimIncentives == Issue("claimIncentives", Other, NoOption)
AdminIncentives == Issue("adminIncentives", Authority, NoOption)
SetCreator == Existing /\ Issue("setCreator", Authority, NoOption)
AdminSetCreator == Existing /\ Issue("adminSetCreator", Authority, NoOption)
Collect == \E u \in Users : Issue("collect", u, NoOption)
ShareAlone == Existing /\ \E u \in Users : Issue("shareAlone", u, NoOption)
Share == /\ Existing
         /\ \E u \in Users, s \in ShareLists : ~ThrowsOn(s) /\ Issue("share", u, s)
Reshare ==
  /\ HasShares(chain)
  /\ \E u \in Users, s \in ShareLists : ~ThrowsOn(s) /\ Issue("reshare", u, s)
Distribute == HasShares(chain) /\ Issue("distribute", Other, NoOption)
MinimumFee == HasShares(chain) /\ Issue("minimumFee", Other, NoOption)

(* The call lands or is refused; the query of the minimum fee is only     *)
(* simulated.                                                             *)
Land ==
  /\ call # NoCall
  /\ LET after == Landed(chain, Built(call))
     IN chain' = IF after = Refused \/ call.op = "minimumFee" THEN chain ELSE after
  /\ call' = NoCall

(* Other people's trades fill the curve and, later, pay fees on the AMM. *)
Fill == chain.phase = "curve" /\ chain' = [chain EXCEPT !.phase = "complete"] /\ UNCHANGED call
AmmTrade ==
  /\ Graduated(chain)
  /\ chain' = [chain EXCEPT !.fees = @ \cup {ammVaultAta(chain.pool)},
                            !.ammVaults = @ \cup {ammVaultAta(chain.pool)}]
  /\ UNCHANGED call

Init == chain = Unlaunched /\ call = NoCall
Next ==
  \/ CreateAndBuy \/ CreateV2AndBuy \/ Buy \/ Sell \/ BuyRaw \/ SellRaw
  \/ BotLaunch \/ BotBuy \/ BotSell \/ Migrate
  \/ InitAccumulator \/ SyncAccumulator \/ CloseAccumulator \/ ClaimCashback
  \/ ClaimIncentives \/ AdminIncentives \/ SetCreator \/ AdminSetCreator \/ Collect
  \/ ShareAlone \/ Share \/ Reshare \/ Distribute \/ MinimumFee
  \/ Land \/ Fill \/ AmmTrade
Spec == Init /\ [][Next]_vars

---------------------------------------------------------------------------
(* What the caller answers for: that the call is one to make now. *)
Due(m, c) ==
  CASE m.op \in {"createAndBuy", "createV2AndBuy", "botLaunch"} -> c.phase = "none"
    [] m.op \in {"buy", "botBuy"} -> c.phase = "curve"
    [] m.op = "buyRaw" -> c.phase = "curve" /\ c.size = "new" /\ m.user \in c.ata /\ ~c.mayhem
    [] m.op = "sell" ->
         c.phase = "curve" /\ m.opt = [mayhem |-> c.mayhem, cashback |-> c.cashback]
           /\ (c.cashback => m.user \in c.uva)
    [] m.op = "sellRaw" ->
         c.phase = "curve" /\ c.size = "new" /\ m.user \in c.ata
           /\ ~c.mayhem /\ m.opt.cashback = c.cashback /\ (c.cashback => m.user \in c.uva)
    [] m.op = "botSell" -> c.phase = "curve" /\ m.user \in c.ata
    [] m.op = "migrate" -> c.phase = "complete"
    [] m.op = "initAccumulator" -> m.user \notin c.uva
    [] m.op \in {"syncAccumulator", "closeAccumulator", "claimCashback"} -> m.user \in c.uva
    [] m.op = "setCreator" -> c.token = TOKEN_PROGRAM_ID /\ ~isCreatorUsingSharingConfig(c.creator)
    [] m.op = "adminSetCreator" -> Graduated(c) /\ ~isCreatorUsingSharingConfig(c.creator)
    [] m.op \in {"share", "shareAlone"} -> ~HasShares(c) /\ m.user = c.creator
    [] m.op = "reshare" -> m.user = c.shares.admin /\ isSharingConfigEditable(c.shares)
    [] OTHER -> TRUE

---------------------------------------------------------------------------
(* Types, and how the accounts of the coin hang together: the curve, and  *)
(* the pool once there is one, name the sharing configuration as creator  *)
(* exactly when it exists, through every change of either (sdk.ts,        *)
(* isCreatorUsingSharingConfig), and the shares set in it are whole.      *)
Owners == Users \cup {Config}
Vaults(owner) == {creatorVaultPda(owner), ammVaultAta(owner)}
TypeOK ==
  /\ chain.phase \in {"none", "curve", "complete", "amm"}
  /\ chain.token \in {TOKEN_PROGRAM_ID, TOKEN_2022_PROGRAM_ID} /\ chain.size \in {"old", "new"}
  /\ {chain.creator, chain.pool} \subseteq Owners
  /\ {chain.mayhem, chain.cashback} \subseteq BOOLEAN
  /\ chain.ata \cup chain.uva \subseteq Users
  /\ chain.fees \subseteq UNION {Vaults(o) : o \in Owners}
  /\ chain.ammVaults \subseteq {ammVaultAta(o) : o \in Owners}
  /\ chain.ammVaults # {} => Graduated(chain)
  /\ HasShares(chain) <=> chain.creator = Config
  /\ Graduated(chain) /\ HasShares(chain) <=> chain.pool = Config
  /\ HasShares(chain) => ValidShares(chain.shares.holders)

(* A call that is due, and built from a chain that has not changed in     *)
(* what the caller read, lands: the addresses, their order and their      *)
(* flags are those the programs demand, for every method of the SDK and   *)
(* for the three messages the bot writes itself.                          *)
FreshCallsLand ==
  call # NoCall /\ Due(call, chain) /\ call.seen = Look(call.op, call.user, chain)
    => Landed(chain, Built(call)) # Refused

(* Creator fees are never stranded: whatever sequence of creators, of     *)
(* sharing configurations and of phases the coin went through, every      *)
(* vault that holds fees is emptied by the method its owner would call    *)
(* now (onlineSdk.ts, collectCoinCreatorFeeInstructions and               *)
(* buildDistributeCreatorFeesInstructions).                               *)
PayOut(owner) ==
  Instructions(IF owner = Config THEN buildDistributeCreatorFeesInstructions(FetchedConfig(chain))
               ELSE collectCoinCreatorFeeInstructions(owner))
NoFeeStranded ==
  \A owner \in Owners :
    Vaults(owner) \cap chain.fees # {} =>
      LET after == Landed(chain, PayOut(owner))
      IN after # Refused /\ Vaults(owner) \cap after.fees = {}

(* Every shareholder can be paid: it is a wallet, or the account of a     *)
(* user of a supported platform and that account exists.  Shares are set  *)
(* once, so one that cannot be paid is lost for good (sdk.ts,             *)
(* updateSharingConfigWithSocialRecipients).                              *)
SharesPayable ==
  \A i \in DOMAIN chain.shares.holders :
    LET holder == chain.shares.holders[i].address
    IN \/ holder.p = "wallet"
       \/ /\ holder \in chain.social
          /\ \E p \in SUPPORTED_SOCIAL_PLATFORMS : holder.s[2] = Wallet(p)
=============================================================================
