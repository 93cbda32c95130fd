---- MODULE NativeCurrency ----
(***************************************************************************)
(* The native currency of the chain (pallet_balances of the Polkadot SDK), *)
(* as the pallets use it: transfers that must keep the payer alive or may  *)
(* end its account, and named reserves.  External code.                    *)
(***************************************************************************)
EXTENDS Integers

CONSTANTS
    Holder,           \* every account that can hold native tokens
    MinimumBalance    \* existential deposit of the native currency

VARIABLES
    free,             \* [Holder -> Nat]
    reserves          \* [<<reserve id, holder>> -> Nat]

nativeVars == <<free, reserves>>

ASSUME NativeAssumption == MinimumBalance \in Nat \ {0}

\* Currency::transfer succeeds from the balances f; keep is KeepAlive.
MayPay(f, from, to, amount, keep) ==
    \/ amount = 0
    \/ from = to
    \/ /\ f[from] >= amount
       /\ keep => f[from] - amount >= MinimumBalance
       /\ f[to] + amount >= MinimumBalance

\* What is left of an account below the existential deposit is lost with it.
Paid(f, from, to, amount) ==
    IF amount = 0 \/ from = to THEN f
    ELSE [f EXCEPT ![from] = IF @ - amount < MinimumBalance THEN 0 ELSE @ - amount,
                   ![to]   = @ + amount]

\* reserve_named keeps the free part above the existential deposit.
MayReserve(f, who, amount) == amount = 0 \/ f[who] - amount >= MinimumBalance

\* Anybody pays into any account.
native_transfer(who, to, amount) ==
    /\ MayPay(free, who, to, amount, TRUE)
    /\ free' = Paid(free, who, to, amount)
    /\ UNCHANGED reserves

====
