---- MODULE Faucet ----
(***************************************************************************)
(* pallet_encointer_faucet: faucets that drip native tokens to those who   *)
(* commit a reputation for the faucet's purpose.  The creator's deposit is *)
(* reserved while the faucet exists.  A call that fails changes nothing.   *)
(* The account of a faucet is derived from its name, and is the name here. *)
(***************************************************************************)
EXTENDS NativeCurrency, FiniteSets

CONSTANTS
    Person,               \* accounts that sign calls
    FaucetName,
    CatchBasin,           \* catch_basin_account_id
    CommunityIdentifiers, \* registered communities
    Reputation,           \* verified reputations <<account, cid, cindex>>
    Whitelists,           \* bound: whitelists that are proposed, sets of cids
    NoWhitelist,
    DripAmounts,          \* bound: amounts of a drip
    Fundings,             \* bound: amounts that a faucet starts with
    ReserveAmounts,       \* bound: values of set_reserve_amount
    MaxPurposes           \* bound: number of purposes

VARIABLES
    Faucets,              \* names of the faucets there are -> faucet
    ReserveAmount,
    CurrentPurposeId,
    Commitments,          \* <<purpose, account, cid, cindex>>
    drips                 \* history: [purpose -> number of drips]

faucetVars == <<Faucets, ReserveAmount, CurrentPurposeId, Commitments, drips>>

\* The account of a faucet is a hash: nobody signs with it.
ASSUME FaucetAssumption ==
    /\ Person \cup FaucetName \cup {CatchBasin} \subseteq Holder
    /\ Person \cap FaucetName = {}
    /\ \A r \in Reputation : r[1] \in Holder
    /\ DripAmounts \subseteq Nat
    /\ Fundings \subseteq Nat
    /\ ReserveAmounts \subseteq Nat
    /\ MaxPurposes \in Nat

\* Mutant: a reputation that is committed already is accepted.
MayCommitAgain(who, cid, cindex, purpose) ==
    /\ purpose < CurrentPurposeId
    /\ <<who, cid, cindex>> \in Reputation

\* What do_commit_reputation checks.
MayCommit(who, cid, cindex, purpose) ==
    /\ purpose < CurrentPurposeId
    /\ <<who, cid, cindex>> \in Reputation
    /\ <<purpose, who, cid, cindex>> \notin Commitments

\* Mutant: the drip amount is not compared with the existential deposit.
DripAmountPositive(drip_amount) == drip_amount > 0

\* DripAmountTooSmall
DripAmountSuffices(drip_amount) == drip_amount > MinimumBalance

\* The purpose is registered last, by do_register_purpose.
create_faucet(who, name, amount, whitelist, drip_amount) ==
    LET left == [free EXCEPT ![who] = @ - ReserveAmount]
    IN  /\ whitelist # NoWhitelist => whitelist \subseteq CommunityIdentifiers
        /\ DripAmountSuffices(drip_amount)
        /\ name \notin DOMAIN Faucets
        /\ MayReserve(free, who, ReserveAmount)
        /\ MayPay(left, who, name, amount, TRUE)
        /\ free' = Paid(left, who, name, amount)
        /\ reserves' = [reserves EXCEPT ![<<name, who>>] = @ + ReserveAmount]
        /\ CurrentPurposeId < MaxPurposes
        /\ CurrentPurposeId' = CurrentPurposeId + 1
        /\ Faucets' = [n \in DOMAIN Faucets \cup {name} |->
               IF n = name THEN [purpose_id |-> CurrentPurposeId, whitelist |-> whitelist,
                                 drip_amount |-> drip_amount, creator |-> who]
               ELSE Faucets[n]]
        /\ UNCHANGED <<ReserveAmount, Commitments, drips>>

drip(who, name, cid, cindex) ==
    /\ name \in DOMAIN Faucets
    /\ LET faucet == Faucets[name]
       IN  /\ faucet.whitelist # NoWhitelist => cid \in faucet.whitelist
           /\ MayCommit(who, cid, cindex, faucet.purpose_id)
           /\ Commitments' = Commitments \cup {<<faucet.purpose_id, who, cid, cindex>>}
           /\ MayPay(free, name, who, faucet.drip_amount, TRUE)
           /\ free' = Paid(free, name, who, faucet.drip_amount)
           /\ drips' = [drips EXCEPT ![faucet.purpose_id] = @ + 1]
    /\ UNCHANGED <<reserves, Faucets, ReserveAmount, CurrentPurposeId>>

\* commit_reputation of the reputation commitments pallet: the purpose of a
\* faucet can be committed for without a drip.
commit_reputation(who, cid, cindex, purpose) ==
    /\ MayCommit(who, cid, cindex, purpose)
    /\ Commitments' = Commitments \cup {<<purpose, who, cid, cindex>>}
    /\ UNCHANGED <<nativeVars, Faucets, ReserveAmount, CurrentPurposeId, drips>>

\* unreserve_all_named
Unreserved(name, who) == reserves[<<name, who>>]

\* The common end of dissolve_faucet and close_faucet: the deposit goes back
\* to the creator, and all that the faucet has to the beneficiary.
EndFaucet(name, beneficiary) ==
    LET creator == Faucets[name].creator
        given   == [free EXCEPT ![creator] = @ + Unreserved(name, creator)]
    IN  /\ reserves' = [reserves EXCEPT ![<<name, creator>>] = @ - Unreserved(name, creator)]
        /\ Faucets' = [n \in DOMAIN Faucets \ {name} |-> Faucets[n]]
        /\ MayPay(given, name, beneficiary, given[name], FALSE)
        /\ free' = Paid(given, name, beneficiary, given[name])
        /\ UNCHANGED <<ReserveAmount, CurrentPurposeId, Commitments, drips>>

dissolve_faucet(name, beneficiary) ==
    /\ name \in DOMAIN Faucets
    /\ EndFaucet(name, beneficiary)

\* A faucet is empty when it has less than two drips left.
MayClose(name) == free[name] < 2 * Faucets[name].drip_amount

close_faucet(who, name) ==
    /\ name \in DOMAIN Faucets
    /\ who = Faucets[name].creator
    /\ MayClose(name)
    /\ EndFaucet(name, CatchBasin)

set_reserve_amount(amount) ==
    /\ ReserveAmount' = amount
    /\ UNCHANGED <<nativeVars, Faucets, CurrentPurposeId, Commitments, drips>>

FaucetInit ==
    /\ Faucets = [n \in {} |-> 0]
    /\ ReserveAmount \in ReserveAmounts
    /\ CurrentPurposeId = 0
    /\ Commitments = {}
    /\ drips = [p \in 0 .. MaxPurposes - 1 |-> 0]

FaucetNext ==
    \/ \E amount \in ReserveAmounts : set_reserve_amount(amount)
    \/ \E who \in Person, name \in FaucetName :
           \/ \E amount \in Fundings, wl \in Whitelists \cup {NoWhitelist}, d \in DripAmounts :
                  create_faucet(who, name, amount, wl, d)
           \/ dissolve_faucet(name, who)
           \/ close_faucet(who, name)
    \/ \E r \in Reputation :
           \/ \E name \in FaucetName : drip(r[1], name, r[2], r[3])
           \/ \E p \in 0 .. MaxPurposes - 1 : commit_reputation(r[1], r[2], r[3], p)

-----------------------------------------------------------------------------
\* Properties

\* Every drip of a faucet used up a reputation of its own, in a faucet's
\* lifetime: no two faucets share a purpose, a drip that fails commits
\* nothing, and one that succeeds commits a reputation that was not yet.
DripsBacked ==
    /\ \A p \in DOMAIN drips : drips[p] <= Cardinality({c \in Commitments : c[1] = p})
    /\ \A f, g \in DOMAIN Faucets :
           f # g => Faucets[f].purpose_id # Faucets[g].purpose_id

\* A faucet never gets stuck: it can pay the next drip or its creator can
\* close it, and then the transfer of the remainder succeeds.
FaucetServesOrCloses ==
    \A n \in DOMAIN Faucets :
        \/ \A who \in Person : MayPay(free, n, who, Faucets[n].drip_amount, TRUE)
        \/ MayClose(n) /\ MayPay(free, n, CatchBasin, free[n], FALSE)

====
