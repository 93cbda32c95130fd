---- MODULE Payments ----
(***************************************************************************)
(* The pallets that pay people, on one chain: faucets, treasuries and      *)
(* offline payments, which share the native currency and the accounts of   *)
(* the community currencies.  All happens within one block, so that no     *)
(* demurrage is due.                                                       *)
(***************************************************************************)
EXTENDS Faucet, Treasuries, OfflinePayment

CONSTANTS
    InitialFree,      \* bound: native tokens at genesis, [Holder -> Nat]
    InitialCc,        \* bound: community currency that SwapHolder has
    MaxSteps          \* bound: number of calls

VARIABLE steps        \* history: number of calls so far

\* No account exists with less than the existential deposit.
ASSUME PaymentsAssumption ==
    /\ InitialFree \in [Holder -> Nat]
    /\ \A h \in Holder : InitialFree[h] = 0 \/ InitialFree[h] >= MinimumBalance

fixedVars == <<block, DemurragePerBlock, FeeConversionFactor, charge, history>>
ccVars == <<Balance, TotalIssuance, sufficients>>
paymentVars == <<fixedVars, ccVars, nativeVars, faucetVars, treasuryVars, offlineVars, steps>>

PaymentsInit ==
    /\ block = 0
    /\ Balance = [c \in Community |-> [a \in SwapHolder |-> Entry(InitialCc)]]
    /\ TotalIssuance = [c \in Community |-> Entry(InitialCc * Cardinality(SwapHolder))]
    /\ DemurragePerBlock = [c \in Community |-> NoRate]
    /\ FeeConversionFactor \in Factors
    /\ sufficients = [a \in Account |-> IF a \in SwapHolder THEN Cardinality(Community) ELSE 0]
    /\ charge = NoCharge
    /\ settled = 0
    /\ events = 0
    /\ revalued = FALSE
    /\ irregular = {}
    /\ free = InitialFree
    /\ reserves = [x \in FaucetName \X Person |-> 0]
    /\ FaucetInit
    /\ TreasuriesInit
    /\ OfflineInit
    /\ steps = 0

FaucetStep == FaucetNext /\ UNCHANGED <<ccVars, treasuryVars, offlineVars>>

TreasuryStep == TreasuriesNext /\ UNCHANGED <<faucetVars, offlineVars>>

OfflineStep ==
    /\ \/ OfflineSetup /\ UNCHANGED <<ccVars, nativeVars>>
       \/ OfflineSubmissions
    /\ UNCHANGED <<faucetVars, treasuryVars>>

\* Somebody pays into the account of a faucet or of a treasury.
FundingStep ==
    /\ \E who \in Person, to \in Holder \ Person, amount \in Fundings : native_transfer(who, to, amount)
    /\ UNCHANGED <<ccVars, faucetVars, treasuryVars, offlineVars>>

\* The setup is no part of the chain; it goes on in between.
SetupStep ==
    /\ \E d \in Scalars : ceremony_contribute(d)
    /\ UNCHANGED <<ccVars, nativeVars, faucetVars, treasuryVars, steps>>

ChainStep ==
    /\ steps < MaxSteps
    /\ steps' = steps + 1
    /\ FaucetStep \/ TreasuryStep \/ OfflineStep \/ FundingStep

PaymentsNext == (ChainStep \/ SetupStep) /\ UNCHANGED fixedVars

PaymentsSpec == PaymentsInit /\ [][PaymentsNext]_paymentVars

====
