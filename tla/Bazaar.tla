---- MODULE Bazaar ----
(***************************************************************************)
(* pallet_encointer_bazaar: the businesses of a community and what they    *)
(* offer.  Only the creation of a business asks whether the community is   *)
(* registered, and the removal of a community does not remove its          *)
(* businesses.  Urls are not modelled, nor the calls that only change one. *)
(***************************************************************************)
EXTENDS Communities

CONSTANTS
    Controller,       \* accounts that run a business
    MaxOid            \* bound: largest offering identifier

VARIABLES
    BusinessRegistry, \* businesses -> last_oid
    OfferingRegistry, \* <<business, oid>>
    retired           \* history: offerings that were deleted while their business lived

bazaarVars == <<BusinessRegistry, OfferingRegistry, retired>>

\* BusinessIdentifier
Business == Cid \X Controller

Registered(b) == b \in DOMAIN BusinessRegistry

\* BusinessData: the identifier of the next offering
create_business(b) ==
    /\ Call
    /\ Exists(b[1])
    /\ ~Registered(b)
    /\ BusinessRegistry' = [x \in DOMAIN BusinessRegistry \cup {b} |->
                               IF x = b THEN 1 ELSE BusinessRegistry[x]]
    /\ UNCHANGED <<OfferingRegistry, retired>>

\* Mutant: the offerings of a deleted business stay.
OfferingsKept(b) == OfferingRegistry

\* OfferingRegistry::remove_prefix
OfferingsRemoved(b) == {o \in OfferingRegistry : o[1] # b}

delete_business(b) ==
    /\ Call
    /\ Registered(b)
    /\ BusinessRegistry' = [x \in DOMAIN BusinessRegistry \ {b} |-> BusinessRegistry[x]]
    /\ OfferingRegistry' = OfferingsRemoved(b)
    /\ retired' = {o \in retired : o[1] # b}

create_offering(b) ==
    /\ Call
    /\ Registered(b)
    /\ BusinessRegistry[b] <= MaxOid
    /\ OfferingRegistry' = OfferingRegistry \cup {<<b, BusinessRegistry[b]>>}
    /\ BusinessRegistry' = [BusinessRegistry EXCEPT ![b] = @ + 1]
    /\ UNCHANGED retired

delete_offering(b, oid) ==
    /\ Call
    /\ <<b, oid>> \in OfferingRegistry
    /\ OfferingRegistry' = OfferingRegistry \ {<<b, oid>>}
    /\ retired' = retired \cup {<<b, oid>>}
    /\ UNCHANGED BusinessRegistry

BazaarInit ==
    /\ BusinessRegistry = [b \in {} |-> 0]
    /\ OfferingRegistry = {}
    /\ retired = {}

BazaarNext ==
    \E b \in Business :
        \/ create_business(b)
        \/ delete_business(b)
        \/ create_offering(b)
        \/ \E oid \in 1 .. MaxOid : delete_offering(b, oid)

BazaarStep == BazaarNext /\ UNCHANGED <<registering, registry, map, limits, offchain>>

MarketInit == CommunitiesInit /\ BazaarInit

\* The two pallets of one chain.
MarketNext == (CommunitiesNext /\ UNCHANGED bazaarVars) \/ BazaarStep

-----------------------------------------------------------------------------
\* Property

\* An offering belongs to a business that is registered, and the identifier
\* of an offering that was deleted is not given to another one while the
\* business lives: the next identifier is larger than all that were used.
OfferingsBelong ==
    \A o \in OfferingRegistry \cup retired :
        /\ Registered(o[1])
        /\ o[2] < BusinessRegistry[o[1]]
        /\ o \in retired => o \notin OfferingRegistry

====
