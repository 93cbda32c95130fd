---- MODULE Treasuries ----
(***************************************************************************)
(* pallet_encointer_treasuries: the treasury of a community pays native    *)
(* tokens, or an asset on another chain, to those who hold a swap option   *)
(* and give community currency for it at the rate of the option.           *)
(* Democracy grants the options and spends from the treasury.  The times   *)
(* of validity that an option carries are not modelled: no code reads them.*)
(***************************************************************************)
EXTENDS Balances, NativeCurrency

CONSTANTS
    SwapHolder,           \* bound: accounts that are granted options
    TreasuryAccount,      \* get_community_treasury_account_unchecked: [Community -> Account]
    Kinds,                \* {"native", "asset"}: the two kinds of options
    Allowances,           \* bound: allowances that are granted
    SwapRates,            \* bound: exchange rates
    RateUndefined,        \* None, for a rate derived on the spot
    SwapAmounts           \* bound: amounts that are swapped or spent

VARIABLES
    SwapOptions,          \* SwapNativeOptions, SwapAssetOptions: [kind -> <<cid, who>> -> option]
    assetPaid,            \* history: [Account -> amount of the asset paid out]
    granted,              \* history: [kind -> sum of the allowances granted]
    swapped               \* history: [kind -> sum of the amounts swapped]

treasuryVars == <<SwapOptions, assetPaid, granted, swapped>>

ASSUME TreasuriesAssumption ==
    /\ SwapHolder \subseteq Holder
    /\ TreasuryAccount \in [Community -> Holder]
    /\ Kinds = {"native", "asset"}
    /\ Allowances \subseteq Nat
    /\ SwapAmounts \subseteq Nat

HasOption(kind, cid, who) == <<cid, who>> \in DOMAIN SwapOptions[kind]

\* cc_amount, with the community currency in units of the rate
CcAmount(amount, rate) == amount * rate

\* Community currency for the swap: burned, or moved into the treasury.
GiveCc(cid, who, amount, option) ==
    /\ CcAmount(amount, option.rate) <= MaxBalance
    /\ IF option.do_burn THEN Burn(cid, who, CcAmount(amount, option.rate))
       ELSE /\ DoTransfer(cid, who, TreasuryAccount[cid], CcAmount(amount, option.rate))
            /\ UNCHANGED TotalIssuance

\* Mutant: the allowance is what was asked for.
UsedUpNothing(option, amount) == option

\* The option with what is left of its allowance.
UsedUp(option, amount) == [option EXCEPT !.allowance = @ - amount]

\* What swap_native and swap_asset have in common, but for the payout.
Swap(kind, cid, who, amount) ==
    /\ HasOption(kind, cid, who)
    /\ LET option == SwapOptions[kind][<<cid, who>>]
       IN  /\ option.allowance >= amount
           /\ option.rate # RateUndefined
           /\ GiveCc(cid, who, amount, option)
           /\ SwapOptions' = [SwapOptions EXCEPT ![kind] =
                                 Insert(@, <<cid, who>>, UsedUp(option, amount))]
    /\ swapped' = [swapped EXCEPT ![kind] = @ + amount]
    /\ UNCHANGED granted

\* do_spend_native
SpendNative(cid, beneficiary, amount) ==
    /\ MayPay(free, TreasuryAccount[cid], beneficiary, amount, TRUE)
    /\ free' = Paid(free, TreasuryAccount[cid], beneficiary, amount)
    /\ UNCHANGED reserves

swap_native(cid, who, amount) ==
    /\ free[TreasuryAccount[cid]] - MinimumBalance >= amount
    /\ Swap("native", cid, who, amount)
    /\ SpendNative(cid, who, amount)
    /\ UNCHANGED assetPaid

\* do_spend_asset hands the payment over to the Paymaster, on another chain;
\* when that fails the whole call fails.
SpendAsset(beneficiary, amount) ==
    assetPaid' = [assetPaid EXCEPT ![beneficiary] = @ + amount]

swap_asset(cid, who, amount) ==
    /\ Swap("asset", cid, who, amount)
    /\ SpendAsset(who, amount)
    /\ UNCHANGED nativeVars

balancesUnchanged == UNCHANGED <<Balance, TotalIssuance, sufficients>>

\* do_spend_native and do_spend_asset on behalf of a proposal
spend_native(cid, beneficiary, amount) ==
    /\ SpendNative(cid, beneficiary, amount)
    /\ balancesUnchanged
    /\ UNCHANGED treasuryVars

spend_asset(beneficiary, amount) ==
    /\ SpendAsset(beneficiary, amount)
    /\ balancesUnchanged
    /\ UNCHANGED <<nativeVars, SwapOptions, granted, swapped>>

\* do_issue_swap_native_option and do_issue_swap_asset_option: an option that
\* the account holds already is replaced
do_issue_swap_option(kind, cid, who, option) ==
    /\ SwapOptions' = [SwapOptions EXCEPT ![kind] = Insert(@, <<cid, who>>, option)]
    /\ granted' = [granted EXCEPT ![kind] = @ + option.allowance]
    /\ balancesUnchanged
    /\ UNCHANGED <<nativeVars, assetPaid, swapped>>

SwapOption == [allowance : Allowances, rate : SwapRates \cup {RateUndefined}, do_burn : BOOLEAN]

TreasuriesInit ==
    /\ SwapOptions = [k \in Kinds |-> [x \in {} |-> 0]]
    /\ assetPaid = [a \in Account |-> 0]
    /\ granted = [k \in Kinds |-> 0]
    /\ swapped = [k \in Kinds |-> 0]

TreasuriesNext ==
    \E cid \in Community, who \in SwapHolder :
        \/ \E kind \in Kinds, option \in SwapOption : do_issue_swap_option(kind, cid, who, option)
        \/ \E amount \in SwapAmounts :
               \/ swap_native(cid, who, amount)
               \/ swap_asset(cid, who, amount)
               \/ spend_native(cid, who, amount)
               \/ spend_asset(who, amount)

-----------------------------------------------------------------------------
\* Properties

\* Everything swapped so far, and all that the options still allow, was
\* granted: options that are used in parts, replaced while they are used, or
\* held by several accounts never give more than the proposals that granted
\* them said.
SwapsWithinGrants ==
    \A kind \in Kinds :
        LET options == SwapOptions[kind]
            open    == SumFunctionOnSet([x \in DOMAIN options |-> options[x].allowance], DOMAIN options)
        IN  swapped[kind] + open <= granted[kind]

====
