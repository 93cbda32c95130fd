---- MODULE Balances ----
(***************************************************************************)
(* pallet_encointer_balances: the accounts of community currencies.  An    *)
(* account stores the amount at its last change and the block of that      *)
(* change; the demurrage since then is applied when the entry is read.     *)
(* With it, the fees of transactions that are paid in community currency   *)
(* (pallet_encointer_balances_tx_payment and the fungibles interface).     *)
(*                                                                         *)
(* The demurrage is a number of halvings per block, so that the decay is   *)
(* exact: amounts are in units of the last bit of the fixpoint type.       *)
(* Fungible amounts are coarser, Granularity units each.                   *)
(***************************************************************************)
EXTENDS Decay, FiniteSets, FiniteSetsExt

CONSTANTS
    Account,
    Community,
    DefaultRate,          \* T::DefaultDemurrage
    Rates,                \* demurrages that pass validate_demurrage
    NoRate,               \* no entry in DemurragePerBlock
    ExistentialDeposit,   \* T::ExistentialDeposit
    Granularity,          \* units per fungible unit
    MaxBalance,           \* largest BalanceType
    MaxFungible,          \* largest u128
    Income,               \* nominal_income of a community, in fungible units
    KiloKsm,              \* ONE_KILO_KSM
    Factors,              \* bound: fee conversion factors that are set
    NativeFees,           \* bound: fees of transactions, in native tokens
    Rewards,              \* bound: amounts that are issued
    Amounts,              \* bound: amounts that are transferred or burned
    MaxBlock,             \* bound: last block
    MaxEvents             \* bound: number of fees, purges and new demurrages

VARIABLES
    block,                \* frame_system's block number
    Balance,              \* [Community -> accounts with an entry -> entry]
    TotalIssuance,        \* communities with an entry -> entry
    DemurragePerBlock,    \* [Community -> Rates \cup {NoRate}]
    FeeConversionFactor,
    sufficients,          \* frame_system's count of reasons to keep an account
    charge,               \* the fee withdrawn by the transaction in progress
    settled,              \* history: number of fees charged so far
    events,               \* history: number of fees, purges, new demurrages so far
    revalued,             \* history: a demurrage changed after money was issued
    irregular             \* history: entries made or removed without a count

stored  == <<Balance, TotalIssuance, DemurragePerBlock, sufficients>>
history == <<settled, events, revalued, irregular>>
balanceVars == <<block, stored, FeeConversionFactor, charge, history>>

NoCharge == [credit |-> 0]

ASSUME BalancesAssumption ==
    /\ IsFiniteSet(Account)
    /\ IsFiniteSet(Community)
    /\ Rates \subseteq Nat
    /\ DefaultRate \in Rates
    /\ NoRate \notin Rates
    /\ ExistentialDeposit \in Nat
    /\ Granularity \in Nat \ {0}
    /\ MaxBalance \in Nat
    /\ MaxFungible \in Nat
    /\ Income \in Nat
    /\ KiloKsm \in Nat \ {0}
    /\ Factors \subseteq Nat
    /\ NativeFees \subseteq Nat
    /\ Rewards \subseteq Nat
    /\ Amounts \subseteq Nat
    /\ MaxBlock \in Nat

-----------------------------------------------------------------------------
\* Entries

\* demurrage_factor and apply_demurrage
ApplyDemurrage(entry, rate) ==
    [principal   |-> Left(entry.principal, rate * (block - entry.last_update)),
     last_update |-> block]

Demurrage(c) == IF DemurragePerBlock[c] = NoRate THEN DefaultRate ELSE DemurragePerBlock[c]

HasAccount(c, a) == a \in DOMAIN Balance[c]

\* The default of a missing entry.
NoEntry == [principal |-> 0, last_update |-> 0]

BalanceEntryUpdated(c, a) ==
    ApplyDemurrage(IF HasAccount(c, a) THEN Balance[c][a] ELSE NoEntry, Demurrage(c))

IssuanceEntryUpdated(c) ==
    ApplyDemurrage(IF c \in DOMAIN TotalIssuance THEN TotalIssuance[c] ELSE NoEntry, Demurrage(c))

BalanceOf(c, a) == BalanceEntryUpdated(c, a).principal

IssuanceOf(c) == IssuanceEntryUpdated(c).principal

\* An entry written in this block.
Entry(amount) == [principal |-> amount, last_update |-> block]

Insert(f, x, e) == [y \in DOMAIN f \cup {x} |-> IF y = x THEN e ELSE f[y]]

Remove(f, xs) == [y \in DOMAIN f \ xs |-> f[y]]

AtMost(x, n) == IF x > n THEN n ELSE x

Minus(x, y) == IF y > x THEN 0 ELSE x - y

-----------------------------------------------------------------------------
\* do_transfer, which other pallets call too

CanTransfer(c, source, dest, amount) ==
    \/ amount = 0
    \/ /\ HasAccount(c, source)
       /\ BalanceOf(c, source) >= amount
       /\ source = dest \/ HasAccount(c, dest) \/ amount > ExistentialDeposit

\* remove_account: the payer is left with less than the existential deposit.
Emptied(c, source, amount) == BalanceOf(c, source) - amount < ExistentialDeposit

\* Mutant: the payee's entry is taken as it is stored, with a new date.
MovedUndated(c, source, dest, amount) ==
    LET from == Entry(Minus(BalanceOf(c, source), amount))
        old  == IF HasAccount(c, dest) THEN Balance[c][dest] ELSE NoEntry
        to   == Entry(AtMost(old.principal + amount, MaxBalance))
        both == Insert(Insert(Balance[c], source, from), dest, to)
    IN  IF Emptied(c, source, amount) THEN Remove(both, {source}) ELSE both

\* The entries after a transfer to another account.
Moved(c, source, dest, amount) ==
    LET from == Entry(Minus(BalanceOf(c, source), amount))
        to   == Entry(AtMost(BalanceOf(c, dest) + amount, MaxBalance))
        both == Insert(Insert(Balance[c], source, from), dest, to)
    IN  IF Emptied(c, source, amount) THEN Remove(both, {source}) ELSE both

\* Mutant: the reference of a removed account is not released.
ReleasedNever(c, source, amount) == 0

\* dec_sufficients in remove_account
Released(c, source, amount) == IF Emptied(c, source, amount) THEN 1 ELSE 0

DoTransfer(c, source, dest, amount) ==
    /\ CanTransfer(c, source, dest, amount)
    /\ Balance' = IF amount = 0 THEN Balance
                  ELSE [Balance EXCEPT ![c] =
                           IF source = dest THEN Insert(@, source, BalanceEntryUpdated(c, source))
                                            ELSE Moved(c, source, dest, amount)]
    /\ sufficients' =
           IF amount = 0 \/ source = dest THEN sufficients
           ELSE [sufficients EXCEPT
                    ![dest]   = IF HasAccount(c, dest) THEN @ ELSE @ + 1,
                    ![source] = Minus(@, Released(c, source, amount))]

\* Mutant: the amount is added to the account alone.
IssueUncounted(c, who, amount) ==
    /\ IssuanceOf(c) + amount <= MaxBalance
    /\ BalanceOf(c, who) + amount <= MaxBalance
    /\ sufficients' = [sufficients EXCEPT ![who] = IF HasAccount(c, who) THEN @ ELSE @ + 1]
    /\ Balance' = [Balance EXCEPT ![c] = Insert(@, who, Entry(BalanceOf(c, who) + amount))]
    /\ TotalIssuance' = Insert(TotalIssuance, c, IssuanceEntryUpdated(c))

\* issue, called by the ceremonies pallet.  The sum of the account is not
\* checked by the code; sums that do not fit the type are out of scope.
Issue(c, who, amount) ==
    /\ IssuanceOf(c) + amount <= MaxBalance
    /\ BalanceOf(c, who) + amount <= MaxBalance
    /\ sufficients' = [sufficients EXCEPT ![who] = IF HasAccount(c, who) THEN @ ELSE @ + 1]
    /\ Balance' = [Balance EXCEPT ![c] = Insert(@, who, Entry(BalanceOf(c, who) + amount))]
    /\ TotalIssuance' = Insert(TotalIssuance, c, Entry(IssuanceOf(c) + amount))

\* burn, called by the treasuries pallet: an account that has no entry gets one
\* when nothing is burned.
Burn(c, who, amount) ==
    /\ BalanceOf(c, who) >= amount
    /\ Balance' = [Balance EXCEPT ![c] = Insert(@, who, Entry(BalanceOf(c, who) - amount))]
    /\ TotalIssuance' = Insert(TotalIssuance, c, Entry(Minus(IssuanceOf(c), amount)))
    /\ UNCHANGED sufficients

-----------------------------------------------------------------------------
\* Calls

\* No transaction is between the withdrawal of its fee and its settlement.
Idle == charge = NoCharge

\* The account that may act now: any, or the one whose fee is withdrawn.
MayAct(a) == ~Idle => charge.who = a

transfer(c, source, dest, amount) ==
    /\ MayAct(source)
    /\ DoTransfer(c, source, dest, amount)
    /\ UNCHANGED <<block, TotalIssuance, DemurragePerBlock, FeeConversionFactor, charge, history>>

transfer_all(c, source, dest) == transfer(c, source, dest, BalanceOf(c, source))

issue(c, who, amount) ==
    /\ Idle
    /\ Issue(c, who, amount)
    /\ UNCHANGED <<block, DemurragePerBlock, FeeConversionFactor, charge, history>>

burn(c, who, amount) ==
    /\ Idle
    /\ Burn(c, who, amount)
    /\ irregular' = irregular \cup (IF HasAccount(c, who) THEN {} ELSE {who})
    /\ UNCHANGED <<block, DemurragePerBlock, FeeConversionFactor, charge, settled, events, revalued>>

set_fee_conversion_factor(f) ==
    /\ Idle
    /\ FeeConversionFactor' = f
    /\ UNCHANGED <<block, stored, charge, history>>

\* One of the steps whose number is bounded.
Event == events < MaxEvents /\ events' = events + 1

\* set_demurrage, called by the communities pallet
set_demurrage(c, rate) ==
    /\ Idle
    /\ DemurragePerBlock' = [DemurragePerBlock EXCEPT ![c] = rate]
    /\ Event
    /\ revalued' = (revalued \/ (rate # Demurrage(c) /\ c \in DOMAIN TotalIssuance))
    /\ UNCHANGED <<block, Balance, TotalIssuance, sufficients, FeeConversionFactor, charge,
                   settled, irregular>>

\* purge_balances, called when a community is removed: the accounts keep the
\* sufficient reference that their entry was.
purge_balances(c) ==
    /\ Idle
    /\ Balance' = [Balance EXCEPT ![c] = Remove(@, DOMAIN @)]
    /\ TotalIssuance' = Remove(TotalIssuance, {c})
    /\ DemurragePerBlock' = [DemurragePerBlock EXCEPT ![c] = NoRate]
    /\ irregular' = irregular \cup DOMAIN Balance[c]
    /\ Event
    /\ UNCHANGED <<block, sufficients, FeeConversionFactor, charge, settled, revalued>>

NextBlock ==
    /\ Idle
    /\ block < MaxBlock
    /\ block' = block + 1
    /\ UNCHANGED <<stored, FeeConversionFactor, charge, history>>

-----------------------------------------------------------------------------
\* Fees in community currency

\* EncointerBalanceConverter, in both directions
Fungible(amount) == amount \div Granularity
BalanceType(fungible) == fungible * Granularity

\* The currency as fungibles::Inspect shows it
FungibleBalance(c, a) == Fungible(BalanceOf(c, a))
FungibleIssuance(c) == Fungible(IssuanceOf(c))

\* apply_fee_conversion_factor
ApplyFeeConversionFactor(balance, reward, factor) ==
    AtMost(AtMost(balance * reward, MaxFungible) * factor, MaxFungible) \div KiloKsm

\* to_asset_balance; a fee that is not zero is charged at least one unit by
\* the transaction extension
AssetFee(native) ==
    LET converted == ApplyFeeConversionFactor(native, Income, FeeConversionFactor)
    IN  IF native > 0 /\ converted = 0 THEN 1 ELSE converted

\* can_withdraw compares with the issuance as it is stored, without demurrage.
CanWithdraw(c, a, fee) ==
    /\ c \in DOMAIN TotalIssuance
    /\ Fungible(TotalIssuance[c].principal) >= fee
    /\ fee = 0 \/ FungibleBalance(c, a) >= fee

\* Before the call: the fee is withdrawn (decrease_balance, write_balance).
WithdrawFee(c, a, native) ==
    /\ Idle
    /\ Event
    /\ AssetFee(native) > 0
    /\ CanWithdraw(c, a, AssetFee(native))
    /\ charge' = [who |-> a, cid |-> c, credit |-> AssetFee(native)]
    /\ Balance' = [Balance EXCEPT ![c] =
                      Insert(@, a, Entry(BalanceType(FungibleBalance(c, a) - AssetFee(native))))]
    /\ UNCHANGED <<block, TotalIssuance, DemurragePerBlock, sufficients, FeeConversionFactor,
                   settled, revalued, irregular>>

\* After the call: what was withdrawn in excess is written back, which may
\* bring back an entry that the call removed, and the rest is dropped:
\* BurnCredit leaves it to DecreaseIssuance (set_total_issuance).
SettleFee(refund) ==
    LET c   == charge.cid
        a   == charge.who
        fee == charge.credit - refund
    IN  /\ ~Idle
        /\ refund <= charge.credit
        /\ charge' = NoCharge
        /\ settled' = settled + 1
        /\ Balance' = IF refund = 0 THEN Balance
                      ELSE [Balance EXCEPT ![c] =
                               Insert(@, a, Entry(BalanceType(FungibleBalance(c, a) + refund)))]
        /\ TotalIssuance' = IF fee = 0 THEN TotalIssuance
                            ELSE Insert(TotalIssuance, c,
                                        Entry(BalanceType(Minus(FungibleIssuance(c), fee))))
        /\ irregular' = irregular \cup (IF refund > 0 /\ ~HasAccount(c, a) THEN {a} ELSE {})
        /\ UNCHANGED <<block, DemurragePerBlock, sufficients, FeeConversionFactor, events, revalued>>

-----------------------------------------------------------------------------
BalancesInit ==
    /\ block = 0
    /\ Balance = [c \in Community |-> Remove([a \in Account |-> NoEntry], Account)]
    /\ TotalIssuance = Remove([c \in Community |-> NoEntry], Community)
    /\ DemurragePerBlock = [c \in Community |-> NoRate]
    /\ FeeConversionFactor \in Factors
    /\ sufficients = [a \in Account |-> 0]
    /\ charge = NoCharge
    /\ settled = 0
    /\ events = 0
    /\ revalued = FALSE
    /\ irregular = {}

BalancesNext ==
    \/ NextBlock
    \/ \E f \in Factors : set_fee_conversion_factor(f)
    \/ \E refund \in 0 .. charge.credit : SettleFee(refund)
    \/ \E c \in Community :
           \/ purge_balances(c)
           \/ \E rate \in Rates : set_demurrage(c, rate)
           \/ \E a \in Account :
                  \/ \E native \in NativeFees : WithdrawFee(c, a, native)
                  \/ \E n \in Rewards : issue(c, a, n)
                  \/ \E n \in Amounts : burn(c, a, n)
                  \/ \E b \in Account : transfer_all(c, a, b) \/ \E n \in Amounts : transfer(c, a, b, n)

BalancesSpec == BalancesInit /\ [][BalancesNext]_balanceVars

-----------------------------------------------------------------------------
\* Properties

\* The entries hold natural numbers and are never from the future, so that
\* the elapsed time in apply_demurrage is not negative.
BalancesTypeOK ==
    /\ block \in 0 .. MaxBlock
    /\ \A c \in Community : \A a \in DOMAIN Balance[c] :
           /\ a \in Account
           /\ Balance[c][a].principal \in Nat
           /\ Balance[c][a].last_update \in 0 .. block
    /\ \A c \in DOMAIN TotalIssuance : TotalIssuance[c].principal \in Nat /\
                                       TotalIssuance[c].last_update \in 0 .. block
    /\ DemurragePerBlock \in [Community -> Rates \cup {NoRate}]
    /\ sufficients \in [Account -> Nat]

Held(c) == IF ~Idle /\ charge.cid = c THEN charge.credit ELSE 0

\* What the accounts of a community can spend, together with a fee in
\* transit, never exceeds its total issuance, but for the fractions that fees
\* round away: entries decay at different times, dust and burnt money leave,
\* and issue adds to an account without a check of its own because of this.
\* It holds as long as no demurrage changes: set_demurrage applies the new
\* rate to the past of every entry too, and the issuance and the accounts were
\* last written in different blocks.
SupplyCoversBalances ==
    ~revalued => \A c \in Community :
        SumFunctionOnSet([a \in Account |-> BalanceOf(c, a)], DOMAIN Balance[c]) + BalanceType(Held(c))
            <= IssuanceOf(c) + (Granularity - 1) * settled

\* An account is kept alive by one sufficient reference per community
\* currency it holds: no transfer, issue or fee leaves a reference behind or
\* an entry without one, except for the accounts of a purged community, and
\* those whose entry a refund or a burn of nothing brought back.
SufficientsCountAccounts ==
    \A a \in Account \ irregular :
        sufficients[a] = Cardinality({c \in Community : HasAccount(c, a)})

\* The lazy entries implement a ledger in which everybody's money decays with
\* every block.
Ledger == INSTANCE CommunityLedger WITH
    money  <- [c \in Community |-> [a \in Account |-> BalanceOf(c, a)]],
    supply <- [c \in Community |-> IssuanceOf(c)],
    rate   <- [c \in Community |-> Demurrage(c)],
    held   <- [c \in Community |-> BalanceType(Held(c))]

\* do_transfer, issue, burn, fees and the passing of blocks are steps of that
\* ledger: applying the demurrage late, account by account, is not visible.
ImplementsLedger == Ledger!Spec

====
