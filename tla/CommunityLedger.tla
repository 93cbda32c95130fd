---- MODULE CommunityLedger ----
(***************************************************************************)
(* What pallet_encointer_balances promises the holders of a community      *)
(* currency, whatever it stores: money that loses the demurrage of its     *)
(* community with every block, moves in payments, is minted, destroyed and *)
(* spent on fees, and changes for no other reason.                         *)
(***************************************************************************)
EXTENDS Decay

CONSTANTS
    Account,
    Community,
    ExistentialDeposit,  \* less than this may be taken from a payer as dust
    Granularity,         \* money in the smallest unit that fees are counted in
    MaxBalance           \* the largest amount an account can hold

VARIABLES
    money,    \* [Community -> [Account -> Nat]], what an account can spend now
    supply,   \* [Community -> Nat]
    rate,     \* [Community -> Nat], the demurrage: halvings per block
    held      \* [Community -> Nat], fees taken whose final amount is not known

ledger == <<money, supply, rate, held>>

Init ==
    /\ money = [c \in Community |-> [a \in Account |-> 0]]
    /\ supply = [c \in Community |-> 0]
    /\ rate \in [Community -> Nat]
    /\ held = [c \in Community |-> 0]

\* x is n, up to what is lost when amounts are counted in whole fee units.
Rounded(x, n) == n - Granularity < x /\ x <= n

Elsewhere(c) == \A o \in Community \ {c} : money'[o] = money[o] /\ supply'[o] = supply[o]

Others(c, parties) == \A a \in Account \ parties : money'[c][a] = money[c][a]

NextBlock ==
    /\ money' = [c \in Community |-> [a \in Account |-> Left(money[c][a], rate[c])]]
    /\ supply' = [c \in Community |-> Left(supply[c], rate[c])]
    /\ UNCHANGED <<rate, held>>

\* The payee gets what the payer gives, up to the largest amount there is;
\* the payer keeps the rest unless it is dust.
Pay(c) ==
    \E a, b \in Account : \E paid \in 1 .. money[c][a] :
        LET rest == money[c][a] - paid
            sum  == money[c][b] + paid
        IN  /\ a # b
            /\ money' = [money EXCEPT ![c][a] = IF rest < ExistentialDeposit THEN 0 ELSE rest,
                                     ![c][b] = IF sum > MaxBalance THEN MaxBalance ELSE sum]
            /\ UNCHANGED <<supply, rate, held>>

Mint(c) ==
    \E a \in Account :
        /\ money'[c][a] >= money[c][a]
        /\ supply'[c] - supply[c] = money'[c][a] - money[c][a]
        /\ Others(c, {a})
        /\ Elsewhere(c)
        /\ UNCHANGED <<rate, held>>

Destroy(c) ==
    \E a \in Account :
        LET lost == money[c][a] - money'[c][a]
        IN  /\ lost >= 0
            /\ supply'[c] = IF lost > supply[c] THEN 0 ELSE supply[c] - lost
            /\ Others(c, {a})
            /\ Elsewhere(c)
            /\ UNCHANGED <<rate, held>>

Withhold(c) ==
    \E a \in Account :
        /\ held[c] = 0
        /\ held'[c] > 0
        /\ \A o \in Community \ {c} : held'[o] = held[o]
        /\ Rounded(money'[c][a], money[c][a] - held'[c])
        /\ money'[c][a] >= 0
        /\ Others(c, {a})
        /\ Elsewhere(c)
        /\ UNCHANGED <<supply, rate>>

\* Part of what is withheld returns, the rest leaves the supply.
Settle(c) ==
    \E a \in Account, back \in 0 .. held[c] :
        LET fee == held[c] - back
        IN  /\ held' = [held EXCEPT ![c] = 0]
            /\ IF back = 0 THEN money'[c][a] = money[c][a]
                           ELSE Rounded(money'[c][a], money[c][a] + back)
            /\ CASE fee = 0         -> supply'[c] = supply[c]
                 [] fee > supply[c] -> supply'[c] = 0
                 [] OTHER           -> Rounded(supply'[c], supply[c] - fee)
            /\ Others(c, {a})
            /\ Elsewhere(c)
            /\ UNCHANGED rate

\* A new demurrage revalues what is stored: a higher one never gives money to
\* anybody and a lower one never takes any.
Revalue(c) ==
    /\ \A o \in Community \ {c} : rate'[o] = rate[o]
    /\ \A a \in Account :
           /\ rate'[c] >= rate[c] => money'[c][a] <= money[c][a]
           /\ rate'[c] <= rate[c] => money'[c][a] >= money[c][a]
    /\ Elsewhere(c)
    /\ UNCHANGED held

Abolish(c) ==
    /\ money' = [money EXCEPT ![c] = [a \in Account |-> 0]]
    /\ supply' = [supply EXCEPT ![c] = 0]
    /\ \A o \in Community \ {c} : rate'[o] = rate[o]
    /\ UNCHANGED held

Next ==
    \/ NextBlock
    \/ \E c \in Community : \/ Pay(c) \/ Mint(c) \/ Destroy(c) \/ Withhold(c) \/ Settle(c)
                            \/ Revalue(c) \/ Abolish(c)

Spec == Init /\ [][Next]_ledger

====
