---- MODULE NodeRpcProofs ----
(***************************************************************************)
(* Proofs about the chain of Communities and Bazaar and about the cache of *)
(* NodeRpc, for any set of places, communities, businesses and requests in *)
(* progress: the index of communities by bucket is sound, the offerings    *)
(* belong to their businesses, a clean cache answers with the state of the *)
(* best block, and a location that is added is far enough from the others. *)
(***************************************************************************)
EXTENDS NodeRpc, NumberLemmas, FiniteSetTheorems, TLAPS

-----------------------------------------------------------------------------
(* Places and identifiers.                                                  *)

\* The bucket of a place is one of the buckets, and the community that is
\* founded there is one of the communities.
LEMMA PlacesType ==
    ASSUME NEW l \in Points
    PROVE  Geohash(l) \in Buckets /\ \A f \in Founders : CidOf(l, f) \in Cid
BY DEF Buckets, Cid

\* remove_location_intern: a removed location leaves the list of its bucket
\* empty exactly when locations_len says so.
LEMMA LocationsLenZero ==
    ASSUME NEW cid, NEW l \in Locations[cid], IsFiniteSet(Locations[cid])
    PROVE  LocationsLen(cid, l) = 0 <=> LocationsIn(cid, Geohash(l)) \ {l} = {}
<1> DEFINE rest == LocationsIn(cid, Geohash(l)) \ {l}
<1>1. IsFiniteSet(rest)
  BY FS_Subset DEF LocationsIn
<1>2. LocationsLen(cid, l) = Cardinality(rest)
  BY DEF LocationsLen
<1> QED BY <1>1, <1>2, FS_EmptySet

-----------------------------------------------------------------------------
(* The index by bucket.                                                     *)

\* What the calls keep of the storage maps of the communities pallet: the
\* soundness of the index needs that a community that is not registered has
\* left nothing behind, so that it can be registered again.
IndexInv ==
    /\ CommunityIdentifiers \subseteq Cid
    /\ Locations \in [Cid -> SUBSET Points]
    /\ \A c \in Cid : IsFiniteSet(Locations[c])
    /\ CidsByGeohash \in [Buckets -> SUBSET Cid]
    /\ \A c \in Cid : c \notin CommunityIdentifiers =>
           Locations[c] = {} /\ \A g \in Buckets : <<c, g>> \notin mislaid
    /\ IndexSound

LEMMA IndexInit == CommunitiesInit => IndexInv
BY FS_EmptySet DEF CommunitiesInit, IndexInv, IndexSound, LocationsIn

\* new_community
LEMMA NewCommunityIndex ==
    ASSUME IndexInv, NEW l \in Points, NEW f \in Founders, NEW n, NEW d, NEW i,
           new_community(l, f, n, d, i)
    PROVE  IndexInv'
<1> DEFINE cid == CidOf(l, f)
<1> DEFINE h == Geohash(l)
<1>1. cid \in Cid /\ h \in Buckets
  BY PlacesType
<1>2. /\ cid \notin CommunityIdentifiers
      /\ CommunityIdentifiers' = CommunityIdentifiers \cup {cid}
      /\ CidsByGeohash' = [CidsByGeohash EXCEPT ![h] = @ \cup {cid}]
      /\ Locations' = [Locations EXCEPT ![cid] = {o \in @ : Geohash(o) # h} \cup {l}]
      /\ mislaid' = mislaid
  BY DEF new_community, Exists, Listed
<1>3. Locations[cid] = {} /\ \A g \in Buckets : <<cid, g>> \notin mislaid
  BY <1>1, <1>2 DEF IndexInv
<1>4. Locations'[cid] = {l} /\ \A c \in Cid : c # cid => Locations'[c] = Locations[c]
  BY <1>1, <1>2, <1>3 DEF IndexInv
<1>5. /\ CommunityIdentifiers' \subseteq Cid
      /\ Locations' \in [Cid -> SUBSET Points]
      /\ CidsByGeohash' \in [Buckets -> SUBSET Cid]
  <2>1. Locations' = [Locations EXCEPT ![cid] = {l}]
    BY <1>1, <1>2, <1>3 DEF IndexInv
  <2> QED BY <2>1, <1>1, <1>2 DEF IndexInv
<1>6. \A c \in Cid : IsFiniteSet(Locations'[c])
  <2>1. IsFiniteSet({l})
    BY FS_Singleton, Zenon
  <2> QED BY <2>1, <1>4 DEF IndexInv
<1>7. \A c \in Cid : c \notin CommunityIdentifiers' =>
          Locations'[c] = {} /\ \A g \in Buckets : <<c, g>> \notin mislaid'
  BY <1>2, <1>4 DEF IndexInv
<1>8. ASSUME NEW g \in Buckets, NEW c \in Cid
      PROVE  c \in CidsByGeohash'[g] <=> {o \in Locations'[c] : Geohash(o) = g} # {} /\ <<c, g>> \notin mislaid'
  <2>1. c \in CidsByGeohash[g] <=> {o \in Locations[c] : Geohash(o) = g} # {} /\ <<c, g>> \notin mislaid
    BY DEF IndexInv, IndexSound, LocationsIn
  <2>2. CASE c = cid
    <3>1. c \in CidsByGeohash'[g] <=> g = h
      BY <2>1, <2>2, <1>1, <1>2, <1>3 DEF IndexInv
    <3>2. {o \in Locations'[c] : Geohash(o) = g} # {} <=> g = h
      BY <2>2, <1>4
    <3> QED BY <2>2, <3>1, <3>2, <1>2, <1>3
  <2>3. CASE c # cid
    <3>1. c \in CidsByGeohash'[g] <=> c \in CidsByGeohash[g]
      BY <2>3, <1>1, <1>2 DEF IndexInv
    <3> QED BY <2>1, <2>3, <3>1, <1>2, <1>4
  <2> QED BY <2>2, <2>3
<1> QED BY <1>5, <1>6, <1>7, <1>8 DEF IndexInv, IndexSound, LocationsIn

\* do_add_location
LEMMA AddLocationIndex ==
    ASSUME IndexInv, NEW cid \in Cid, NEW l \in Points, do_add_location(cid, l)
    PROVE  IndexInv'
<1> DEFINE h == Geohash(l)
<1>1. h \in Buckets
  BY PlacesType
<1>2. /\ cid \in CommunityIdentifiers
      /\ CommunityIdentifiers' = CommunityIdentifiers
      /\ CidsByGeohash' = [CidsByGeohash EXCEPT ![h] = @ \cup {cid}]
      /\ Locations' = [Locations EXCEPT ![cid] = @ \cup {l}]
      /\ mislaid' = mislaid \ {<<cid, h>>}
  BY DEF do_add_location, Exists, Listed, registry
<1>3. /\ Locations'[cid] = Locations[cid] \cup {l}
      /\ \A c \in Cid : c # cid => Locations'[c] = Locations[c]
  BY <1>2 DEF IndexInv
<1>4. /\ CommunityIdentifiers' \subseteq Cid
      /\ Locations' \in [Cid -> SUBSET Points]
      /\ CidsByGeohash' \in [Buckets -> SUBSET Cid]
  BY <1>1, <1>2 DEF IndexInv
<1>5. \A c \in Cid : IsFiniteSet(Locations'[c])
  BY <1>3, FS_AddElement DEF IndexInv
<1>6. \A c \in Cid : c \notin CommunityIdentifiers' =>
          Locations'[c] = {} /\ \A g \in Buckets : <<c, g>> \notin mislaid'
  BY <1>2, <1>3 DEF IndexInv
<1>7. ASSUME NEW g \in Buckets, NEW c \in Cid
      PROVE  c \in CidsByGeohash'[g] <=> {o \in Locations'[c] : Geohash(o) = g} # {} /\ <<c, g>> \notin mislaid'
  <2>1. c \in CidsByGeohash[g] <=> {o \in Locations[c] : Geohash(o) = g} # {} /\ <<c, g>> \notin mislaid
    BY DEF IndexInv, IndexSound, LocationsIn
  <2>2. CASE c = cid /\ g = h
    <3>1. c \in CidsByGeohash'[g] /\ l \in Locations'[c] /\ Geohash(l) = g
      BY <2>2, <1>1, <1>2, <1>3 DEF IndexInv
    <3> QED BY <2>2, <3>1, <1>2
  <2>3. CASE ~(c = cid /\ g = h)
    <3>1. c \in CidsByGeohash'[g] <=> c \in CidsByGeohash[g]
      BY <2>3, <1>1, <1>2 DEF IndexInv
    <3>2. {o \in Locations'[c] : Geohash(o) = g} = {o \in Locations[c] : Geohash(o) = g}
      BY <2>3, <1>3
    <3>3. <<c, g>> \notin mislaid' <=> <<c, g>> \notin mislaid
      BY <2>3, <1>2
    <3> QED BY <2>1, <3>1, <3>2, <3>3
  <2> QED BY <2>2, <2>3
<1> QED BY <1>4, <1>5, <1>6, <1>7 DEF IndexInv, IndexSound, LocationsIn

\* do_remove_location: when the community does not have the location, the
\* bucket loses the community although locations of it remain there.
LEMMA RemoveLocationIndex ==
    ASSUME IndexInv, NEW cid \in Cid, NEW l \in Points, do_remove_location(cid, l)
    PROVE  IndexInv'
<1> DEFINE h == Geohash(l)
<1> DEFINE here == {o \in Locations[cid] : Geohash(o) = h}
<1>1. h \in Buckets
  BY PlacesType
<1>2. /\ cid \in CommunityIdentifiers
      /\ CommunityIdentifiers' = CommunityIdentifiers
      /\ Locations' = [Locations EXCEPT ![cid] = @ \ {l}]
      /\ CidsByGeohash' = Delisted(cid, l)
      /\ mislaid' = IF l \notin Locations[cid] /\ here # {}
                    THEN mislaid \cup {<<cid, h>>}
                    ELSE {m \in mislaid : m[1] = cid /\ m[2] = h => here \ {l} # {}}
  BY DEF do_remove_location, Exists, registry, LocationsIn
<1>3. /\ Locations'[cid] = Locations[cid] \ {l}
      /\ \A c \in Cid : c # cid => Locations'[c] = Locations[c]
  BY <1>2 DEF IndexInv
<1>4. LocationsLen(cid, l) = 0 <=> l \notin Locations[cid] \/ here \ {l} = {}
  <2>1. CASE l \in Locations[cid]
    BY <2>1, LocationsLenZero DEF IndexInv, LocationsIn
  <2>2. CASE l \notin Locations[cid]
    BY <2>2 DEF LocationsLen
  <2> QED BY <2>1, <2>2
<1>5. /\ CidsByGeohash' \in [Buckets -> SUBSET Cid]
      /\ \A g \in Buckets, c \in Cid : ~(c = cid /\ g = h) =>
             (c \in CidsByGeohash'[g] <=> c \in CidsByGeohash[g])
      /\ cid \in CidsByGeohash'[h] <=>
             cid \in CidsByGeohash[h] /\ l \in Locations[cid] /\ here \ {l} # {}
  <2>1. CASE LocationsLen(cid, l) = 0
    <3>1. CidsByGeohash' = [CidsByGeohash EXCEPT ![h] = @ \ {cid}]
      BY <2>1, <1>2 DEF Delisted
    <3> QED BY <2>1, <3>1, <1>1, <1>4 DEF IndexInv
  <2>2. CASE LocationsLen(cid, l) # 0
    <3>1. CidsByGeohash' = CidsByGeohash
      BY <2>2, <1>2 DEF Delisted
    <3> QED BY <2>2, <3>1, <1>1, <1>4 DEF IndexInv
  <2> QED BY <2>1, <2>2
<1>6. /\ CommunityIdentifiers' \subseteq Cid
      /\ Locations' \in [Cid -> SUBSET Points]
  BY <1>2 DEF IndexInv
<1>7. \A c \in Cid : IsFiniteSet(Locations'[c])
  BY <1>3, FS_Subset DEF IndexInv
<1>8. /\ \A c \in Cid, g \in Buckets : ~(c = cid /\ g = h) =>
             (<<c, g>> \in mislaid' <=> <<c, g>> \in mislaid)
      /\ <<cid, h>> \in mislaid' <=> \/ l \notin Locations[cid] /\ here # {}
                                     \/ <<cid, h>> \in mislaid /\ here \ {l} # {}
  BY <1>2
<1>9. \A c \in Cid : c \notin CommunityIdentifiers' =>
          Locations'[c] = {} /\ \A g \in Buckets : <<c, g>> \notin mislaid'
  BY <1>2, <1>3, <1>8 DEF IndexInv
<1>10. ASSUME NEW g \in Buckets, NEW c \in Cid
       PROVE  c \in CidsByGeohash'[g] <=> {o \in Locations'[c] : Geohash(o) = g} # {} /\ <<c, g>> \notin mislaid'
  <2>1. c \in CidsByGeohash[g] <=> {o \in Locations[c] : Geohash(o) = g} # {} /\ <<c, g>> \notin mislaid
    BY DEF IndexInv, IndexSound, LocationsIn
  <2>2. CASE c = cid /\ g = h
    <3>1. {o \in Locations'[c] : Geohash(o) = g} = here \ {l}
      BY <2>2, <1>3
    <3>2. l \notin Locations[cid] => here \ {l} = here
      OBVIOUS
    <3>3. here \ {l} # {} => here # {}
      OBVIOUS
    <3> HIDE DEF here, h
    <3> QED BY <2>1, <2>2, <3>1, <3>2, <3>3, <1>5, <1>8 DEF here
  <2>3. CASE ~(c = cid /\ g = h)
    <3>1. {o \in Locations'[c] : Geohash(o) = g} = {o \in Locations[c] : Geohash(o) = g}
      BY <2>3, <1>3
    <3> QED BY <2>1, <2>3, <3>1, <1>5, <1>8
  <2> QED BY <2>2, <2>3
<1> QED BY <1>5, <1>6, <1>7, <1>9, <1>10 DEF IndexInv, IndexSound, LocationsIn

\* remove_community
LEMMA RemoveCommunityIndex ==
    ASSUME IndexInv, NEW cid \in Cid, remove_community(cid)
    PROVE  IndexInv'
<1>1. /\ CommunityIdentifiers' = CommunityIdentifiers \ {cid}
      /\ Locations' = [Locations EXCEPT ![cid] = {}]
      /\ mislaid' = {m \in mislaid : m[1] # cid}
      /\ CidsByGeohash' = [g \in Buckets |-> IF {o \in Locations[cid] : Geohash(o) = g} = {}
                                             THEN CidsByGeohash[g] ELSE CidsByGeohash[g] \ {cid}]
  BY DEF remove_community, LocationsRemoved, SettingsRemoved, LocationsIn
<1>2. Locations'[cid] = {} /\ \A c \in Cid : c # cid => Locations'[c] = Locations[c]
  BY <1>1 DEF IndexInv
<1>3. /\ CommunityIdentifiers' \subseteq Cid
      /\ Locations' \in [Cid -> SUBSET Points]
      /\ CidsByGeohash' \in [Buckets -> SUBSET Cid]
  BY <1>1 DEF IndexInv
<1>4. \A c \in Cid : IsFiniteSet(Locations'[c])
  BY <1>2, FS_EmptySet DEF IndexInv
<1>5. \A c \in Cid : c \notin CommunityIdentifiers' =>
          Locations'[c] = {} /\ \A g \in Buckets : <<c, g>> \notin mislaid'
  BY <1>1, <1>2 DEF IndexInv
<1>6. ASSUME NEW g \in Buckets, NEW c \in Cid
      PROVE  c \in CidsByGeohash'[g] <=> {o \in Locations'[c] : Geohash(o) = g} # {} /\ <<c, g>> \notin mislaid'
  <2>1. \A x \in Cid : x \in CidsByGeohash[g] <=> {o \in Locations[x] : Geohash(o) = g} # {} /\ <<x, g>> \notin mislaid
    BY DEF IndexInv, IndexSound, LocationsIn
  <2>2. CASE c = cid
    BY <2>1, <2>2, <1>1, <1>2
  <2>3. CASE c # cid
    <3>1. c \in CidsByGeohash'[g] <=> c \in CidsByGeohash[g]
      BY <2>3, <1>1
    <3>2. <<c, g>> \in mislaid' <=> <<c, g>> \in mislaid
      BY <2>3, <1>1
    <3> QED BY <2>1, <2>3, <3>1, <3>2, <1>2
  <2> QED BY <2>2, <2>3
<1> QED BY <1>3, <1>4, <1>5, <1>6 DEF IndexInv, IndexSound, LocationsIn

\* Every call of the communities pallet keeps the index.
LEMMA CommunitiesIndex ==
    ASSUME IndexInv, CommunitiesNext
    PROVE  IndexInv'
<1> DEFINE quiet == UNCHANGED <<CommunityIdentifiers, map>>
<1>1. ASSUME quiet PROVE IndexInv'
  BY <1>1 DEF IndexInv, IndexSound, LocationsIn, map
<1>2. CASE PhaseChange
  BY <1>1, <1>2 DEF PhaseChange, registry
<1>3. CASE \E t \in TripTimes : set_min_solar_trip_time_s(t)
  BY <1>1, <1>3 DEF set_min_solar_trip_time_s, registry
<1>4. CASE \E v \in Speeds : set_max_speed_mps(v)
  BY <1>1, <1>4 DEF set_max_speed_mps, registry
<1>5. ASSUME NEW l \in Points, NEW f \in Founders, NEW n \in Names,
             NEW d \in Demurrages \cup {NoDemurrage}, NEW i \in Incomes \cup {NoIncome},
             new_community(l, f, n, d, i)
      PROVE  IndexInv'
  BY <1>5, NewCommunityIndex
<1>6. ASSUME NEW cid \in Cid, purge_community(cid)
      PROVE  IndexInv'
  BY <1>6, RemoveCommunityIndex DEF purge_community
<1>7. ASSUME NEW cid \in Cid, NEW n \in Names, update_community_metadata(cid, n)
      PROVE  IndexInv'
  BY <1>1, <1>7 DEF update_community_metadata, do_update_community_metadata
<1>8. ASSUME NEW cid \in Cid, NEW d \in Demurrages, update_demurrage(cid, d)
      PROVE  IndexInv'
  BY <1>1, <1>8 DEF update_demurrage, do_update_demurrage
<1>9. ASSUME NEW cid \in Cid, NEW i \in Incomes, update_nominal_income(cid, i)
      PROVE  IndexInv'
  BY <1>1, <1>9 DEF update_nominal_income, do_update_nominal_income
<1>10. ASSUME NEW cid \in Cid, NEW l \in Points, add_location(cid, l)
       PROVE  IndexInv'
  BY <1>10, AddLocationIndex DEF add_location
<1>11. ASSUME NEW cid \in Cid, NEW l \in Points, remove_location(cid, l)
       PROVE  IndexInv'
  BY <1>11, RemoveLocationIndex DEF remove_location
<1> QED
  BY <1>2, <1>3, <1>4, <1>5, <1>6, <1>7, <1>8, <1>9, <1>10, <1>11 DEF CommunitiesNext

\* The index is kept by every step of the node: the bazaar and the requests
\* leave the communities alone.
LEMMA IndexStep ==
    ASSUME IndexInv, [NodeNext]_nodeVars
    PROVE  IndexInv'
<1>1. ASSUME UNCHANGED <<CommunityIdentifiers, map>> PROVE IndexInv'
  BY <1>1 DEF IndexInv, IndexSound, LocationsIn, map
<1>2. CASE ChainStep
  <2>1. CASE CommunitiesNext
    BY <2>1, CommunitiesIndex
  <2>2. CASE BazaarStep
    BY <2>2, <1>1 DEF BazaarStep, registry
  <2> QED BY <1>2, <2>1, <2>2 DEF ChainStep, MarketNext
<1>3. ASSUME NEW r \in Client, RefreshLocations(r)
      PROVE  IndexInv'
  BY <1>1, <1>3 DEF RefreshLocations, registry
<1>4. ASSUME NEW r \in Client, NEW at \in {Chain, older}, RefreshNames(r, at)
      PROVE  IndexInv'
  BY <1>1, <1>4 DEF RefreshNames, communityVars, registry
<1>5. CASE UNCHANGED nodeVars
  BY <1>1, <1>5 DEF nodeVars, communityVars, registry
<1> QED BY <1>2, <1>3, <1>4, <1>5 DEF NodeNext

\* In every reachable state the bucket lists of CidsByGeohash agree with the
\* locations, except where a removal of a location that the community does
\* not have took the community out of a bucket.
THEOREM IndexAlwaysSound == NodeSpec => []IndexSound
<1>1. NodeInit => IndexInv
  BY IndexInit DEF NodeInit, MarketInit
<1>2. IndexInv /\ [NodeNext]_nodeVars => IndexInv'
  BY IndexStep
<1>3. IndexInv => IndexSound
  BY DEF IndexInv
<1> QED BY <1>1, <1>2, <1>3, PTL DEF NodeSpec

-----------------------------------------------------------------------------
(* The bazaar.                                                              *)

\* The storage maps of the bazaar pallet, and OfferingsBelong.
BazaarInv ==
    /\ BusinessRegistry \in [DOMAIN BusinessRegistry -> Nat]
    /\ OfferingRegistry \subseteq Business \X Nat
    /\ retired \subseteq Business \X Nat
    /\ OfferingsBelong

\* create_business: the business is new, so no offering has its identifier.
LEMMA CreateBusinessBelongs ==
    ASSUME BazaarInv, NEW b \in Business, create_business(b)
    PROVE  BazaarInv'
<1>1. /\ b \notin DOMAIN BusinessRegistry
      /\ DOMAIN BusinessRegistry' = DOMAIN BusinessRegistry \cup {b}
      /\ \A x \in DOMAIN BusinessRegistry : BusinessRegistry'[x] = BusinessRegistry[x]
      /\ BusinessRegistry'[b] = 1
      /\ OfferingRegistry' = OfferingRegistry
      /\ retired' = retired
  BY DEF create_business, Registered
<1>2. BusinessRegistry' \in [DOMAIN BusinessRegistry' -> Nat]
  BY DEF BazaarInv, create_business
<1> QED BY <1>1, <1>2 DEF BazaarInv, OfferingsBelong, Registered

\* delete_business: its offerings go with it.
LEMMA DeleteBusinessBelongs ==
    ASSUME BazaarInv, NEW b \in Business, delete_business(b)
    PROVE  BazaarInv'
<1>1. /\ DOMAIN BusinessRegistry' = DOMAIN BusinessRegistry \ {b}
      /\ \A x \in DOMAIN BusinessRegistry' : BusinessRegistry'[x] = BusinessRegistry[x]
      /\ OfferingRegistry' = {o \in OfferingRegistry : o[1] # b}
      /\ retired' = {o \in retired : o[1] # b}
  BY DEF delete_business, OfferingsRemoved
<1>2. BusinessRegistry' \in [DOMAIN BusinessRegistry' -> Nat]
  BY DEF BazaarInv, delete_business
<1> QED BY <1>1, <1>2 DEF BazaarInv, OfferingsBelong, Registered

\* create_offering: the identifier is larger than all that were used.
LEMMA CreateOfferingBelongs ==
    ASSUME BazaarInv, NEW b \in Business, create_offering(b)
    PROVE  BazaarInv'
<1> DEFINE oid == BusinessRegistry[b]
<1>1. /\ b \in DOMAIN BusinessRegistry
      /\ oid \in Nat
      /\ OfferingRegistry' = OfferingRegistry \cup {<<b, oid>>}
      /\ BusinessRegistry' = [BusinessRegistry EXCEPT ![b] = oid + 1]
      /\ retired' = retired
  BY DEF create_offering, Registered, BazaarInv
<1>2. /\ DOMAIN BusinessRegistry' = DOMAIN BusinessRegistry
      /\ BusinessRegistry'[b] = oid + 1
      /\ \A x \in DOMAIN BusinessRegistry : x # b => BusinessRegistry'[x] = BusinessRegistry[x]
      /\ BusinessRegistry' \in [DOMAIN BusinessRegistry' -> Nat]
  BY <1>1 DEF BazaarInv
<1>3. <<b, oid>> \notin retired
  BY <1>1 DEF BazaarInv, OfferingsBelong
<1>4. OfferingRegistry' \subseteq Business \X Nat /\ retired' \subseteq Business \X Nat
  BY <1>1 DEF BazaarInv
<1>5. ASSUME NEW o \in OfferingRegistry' \cup retired'
      PROVE  /\ o[1] \in DOMAIN BusinessRegistry'
             /\ o[2] < BusinessRegistry'[o[1]]
             /\ o \in retired' => o \notin OfferingRegistry'
  <2>1. CASE o = <<b, oid>>
    BY <2>1, <1>1, <1>2, <1>3
  <2>2. CASE o \in OfferingRegistry \cup retired /\ o # <<b, oid>>
    <3>1. /\ o \in Business \X Nat
          /\ o[1] \in DOMAIN BusinessRegistry
          /\ o[2] < BusinessRegistry[o[1]]
          /\ o \in retired => o \notin OfferingRegistry
      BY <2>2 DEF BazaarInv, OfferingsBelong, Registered
    <3>2. BusinessRegistry'[o[1]] >= BusinessRegistry[o[1]]
      BY <3>1, <1>1, <1>2 DEF BazaarInv
    <3>3. BusinessRegistry[o[1]] \in Nat /\ BusinessRegistry'[o[1]] \in Nat /\ o[2] \in Nat
      BY <3>1, <1>2 DEF BazaarInv
    <3> QED BY <3>1, <3>2, <3>3, <2>2, <1>1, <1>2
  <2> QED BY <2>1, <2>2, <1>1
<1> QED BY <1>2, <1>4, <1>5 DEF BazaarInv, OfferingsBelong, Registered

\* delete_offering
LEMMA DeleteOfferingBelongs ==
    ASSUME BazaarInv, NEW b \in Business, NEW oid \in 1 .. MaxOid, delete_offering(b, oid)
    PROVE  BazaarInv'
<1>1. /\ <<b, oid>> \in OfferingRegistry
      /\ OfferingRegistry' = OfferingRegistry \ {<<b, oid>>}
      /\ retired' = retired \cup {<<b, oid>>}
      /\ BusinessRegistry' = BusinessRegistry
  BY DEF delete_offering
<1>2. retired' \subseteq Business \X Nat /\ OfferingRegistry' \subseteq Business \X Nat
  BY <1>1 DEF BazaarInv
<1> QED BY <1>1, <1>2 DEF BazaarInv, OfferingsBelong, Registered

\* An offering belongs to a registered business, and the identifier of a
\* deleted one is not used again while the business lives.
THEOREM OfferingsAlwaysBelong == NodeSpec => []OfferingsBelong
<1>1. NodeInit => BazaarInv
  BY DEF NodeInit, MarketInit, BazaarInit, BazaarInv, OfferingsBelong
<1>2. BazaarInv /\ [NodeNext]_nodeVars => BazaarInv'
  <2> SUFFICES ASSUME BazaarInv, [NodeNext]_nodeVars PROVE BazaarInv'
    OBVIOUS
  <2>1. CASE UNCHANGED bazaarVars
    BY <2>1 DEF BazaarInv, OfferingsBelong, Registered, bazaarVars
  <2>2. CASE BazaarNext
    BY <2>2, CreateBusinessBelongs, DeleteBusinessBelongs, CreateOfferingBelongs,
       DeleteOfferingBelongs DEF BazaarNext
  <2>3. UNCHANGED bazaarVars \/ BazaarNext
    BY DEF NodeNext, ChainStep, MarketNext, BazaarStep, RefreshLocations, RefreshNames, nodeVars
  <2> QED BY <2>1, <2>2, <2>3
<1>3. BazaarInv => OfferingsBelong
  BY DEF BazaarInv
<1> QED BY <1>1, <1>2, <1>3, PTL DEF NodeSpec

-----------------------------------------------------------------------------
(* The cache of the node.                                                   *)

\* A registered community has a name, and the off-chain index has the same.
NamesInv ==
    /\ CommunityMetadata \in [Cid -> Names \cup {NoName}]
    /\ offchainName \in [Cid -> Names \cup {NoName}]
    /\ offchainDirty \in BOOLEAN
    /\ \A c \in CommunityIdentifiers : CommunityMetadata[c] \in Names /\ offchainName[c] = CommunityMetadata[c]

\* The cached list has the communities and the names of the best block.
NamesCurrent == cachedNames = [c \in CommunityIdentifiers |-> CommunityMetadata[c]]

\* A request that is not late has read the best block, and written the list of
\* it; this is what makes the cache current when the request marks it clean.
CacheInv ==
    /\ older \in [cids : SUBSET Cid, locations : [Cid -> SUBSET Points]]
    /\ refresh \in [Client -> Request \cup {None}]
    /\ raced \in BOOLEAN
    /\ \A r \in Client : refresh[r] # None /\ ~refresh[r].late =>
           /\ refresh[r].cids = CommunityIdentifiers
           /\ refresh[r].locations = Locations
           /\ NamesCurrent
    /\ CleanCacheCurrent

NodeInv == IndexInv /\ NamesInv /\ CacheInv

\* What an import means for the cache: a call marks it dirty, or changes
\* nothing that is cached, or removes a community without locations.
Noticed ==
    \/ offchainDirty'
    \/ /\ UNCHANGED <<CommunityIdentifiers, Locations, offchainDirty>>
       /\ \A c \in CommunityIdentifiers : CommunityMetadata'[c] = CommunityMetadata[c]
    \/ \E c \in CommunityIdentifiers \ CommunityIdentifiers' : Locations[c] = {}

\* Every call of the communities pallet keeps the names and is noticed.
LEMMA CommunitiesNoticed ==
    ASSUME IndexInv, NamesInv, CommunitiesNext
    PROVE  NamesInv' /\ Noticed /\ (offchainDirty => offchainDirty')
<1> DEFINE goal == NamesInv' /\ Noticed /\ (offchainDirty => offchainDirty')
<1>1. ASSUME UNCHANGED <<CommunityIdentifiers, Locations, CommunityMetadata, offchain>>
      PROVE  goal
  BY <1>1 DEF NamesInv, Noticed, offchain
<1>2. CASE PhaseChange
  BY <1>1, <1>2 DEF PhaseChange, registry, map
<1>3. CASE \E t \in TripTimes : set_min_solar_trip_time_s(t)
  BY <1>1, <1>3 DEF set_min_solar_trip_time_s, registry, map
<1>4. CASE \E v \in Speeds : set_max_speed_mps(v)
  BY <1>1, <1>4 DEF set_max_speed_mps, registry, map
<1>5. ASSUME NEW l \in Points, NEW f \in Founders, NEW n \in Names,
             NEW d \in Demurrages \cup {NoDemurrage}, NEW i \in Incomes \cup {NoIncome},
             new_community(l, f, n, d, i)
      PROVE  goal
  <2> DEFINE cid == CidOf(l, f)
  <2>1. cid \in Cid
    BY PlacesType
  <2>2. /\ CommunityIdentifiers' = CommunityIdentifiers \cup {cid}
        /\ CommunityMetadata' = [CommunityMetadata EXCEPT ![cid] = n]
        /\ offchainName' = [offchainName EXCEPT ![cid] = n]
        /\ offchainDirty'
    BY <1>5 DEF new_community, MarkDirty
  <2>3. NamesInv'
    <3> HIDE DEF cid
    <3> QED BY <2>1, <2>2, <1>5 DEF NamesInv, IndexInv, MarkDirty, new_community
  <2> QED BY <2>2, <2>3 DEF Noticed
<1>6. ASSUME NEW cid \in Cid, purge_community(cid)
      PROVE  goal
  <2>1. /\ CommunityIdentifiers' = CommunityIdentifiers \ {cid}
        /\ CommunityMetadata' = [CommunityMetadata EXCEPT ![cid] = NoName]
        /\ offchainName' = offchainName
        /\ offchainDirty' = (offchainDirty \/ Locations[cid] # {})
        /\ Locations' = [Locations EXCEPT ![cid] = {}]
    BY <1>6 DEF purge_community, remove_community, LocationsRemoved, SettingsRemoved
  <2>2. NamesInv'
    BY <2>1 DEF NamesInv, IndexInv
  <2>3. CASE Locations[cid] # {} \/ offchainDirty
    BY <2>1, <2>2, <2>3 DEF Noticed
  <2>4. CASE Locations[cid] = {} /\ ~offchainDirty /\ cid \in CommunityIdentifiers
    BY <2>1, <2>2, <2>4 DEF Noticed
  <2>5. CASE Locations[cid] = {} /\ ~offchainDirty /\ cid \notin CommunityIdentifiers
    <3>1. UNCHANGED <<CommunityIdentifiers, Locations, offchainDirty>>
      BY <2>1, <2>5 DEF IndexInv, NamesInv
    <3>2. \A c \in CommunityIdentifiers : CommunityMetadata'[c] = CommunityMetadata[c]
      BY <2>1, <2>5 DEF IndexInv, NamesInv
    <3> QED BY <2>2, <2>5, <3>1, <3>2 DEF Noticed
  <2> QED BY <2>3, <2>4, <2>5
<1>7. ASSUME NEW cid \in Cid, NEW n \in Names, update_community_metadata(cid, n)
      PROVE  goal
  BY <1>7 DEF update_community_metadata, do_update_community_metadata, MarkDirty, NamesInv, IndexInv,
              Noticed
<1>8. ASSUME NEW cid \in Cid, NEW d \in Demurrages, update_demurrage(cid, d)
      PROVE  goal
  BY <1>1, <1>8 DEF update_demurrage, do_update_demurrage, map
<1>9. ASSUME NEW cid \in Cid, NEW i \in Incomes, update_nominal_income(cid, i)
      PROVE  goal
  BY <1>1, <1>9 DEF update_nominal_income, do_update_nominal_income, map
<1>10. ASSUME NEW cid \in Cid, NEW l \in Points, add_location(cid, l)
       PROVE  goal
  BY <1>10 DEF add_location, do_add_location, MarkDirty, registry, NamesInv, Noticed
<1>11. ASSUME NEW cid \in Cid, NEW l \in Points, remove_location(cid, l)
       PROVE  goal
  BY <1>11 DEF remove_location, do_remove_location, MarkDirty, registry, NamesInv, Noticed
<1> QED
  BY <1>2, <1>3, <1>4, <1>5, <1>6, <1>7, <1>8, <1>9, <1>10, <1>11 DEF CommunitiesNext

\* So is every step of the chain: the bazaar touches nothing that is cached.
LEMMA ChainNoticed ==
    ASSUME IndexInv, NamesInv, MarketNext
    PROVE  NamesInv' /\ Noticed /\ (offchainDirty => offchainDirty')
<1>1. CASE CommunitiesNext
  BY <1>1, CommunitiesNoticed
<1>2. CASE BazaarStep
  BY <1>2 DEF BazaarStep, registry, map, offchain, NamesInv, Noticed
<1> QED BY <1>1, <1>2 DEF MarketNext

\* Late marks every request in progress.
LEMMA LateRequests ==
    ASSUME NEW q \in [Client -> Request \cup {None}]
    PROVE  /\ Late(q) \in [Client -> Request \cup {None}]
           /\ \A r \in Client : Late(q)[r] # None => Late(q)[r].late
<1>1. \A r \in Client : q[r] # None => /\ [q[r] EXCEPT !.late = TRUE] \in Request
                                       /\ [q[r] EXCEPT !.late = TRUE].late
  BY DEF Request
<1> QED BY <1>1 DEF Late

\* A block is imported.
LEMMA ChainStepCache ==
    ASSUME NodeInv, ChainStep
    PROVE  CacheInv'
<1>1. /\ NamesInv' /\ Noticed /\ (offchainDirty => offchainDirty')
      /\ IndexInv'
      /\ offchainDirty \in BOOLEAN /\ offchainDirty' \in BOOLEAN
  BY ChainNoticed, IndexStep DEF NodeInv, ChainStep, NodeNext, NamesInv
<1>2. /\ older' = Chain
      /\ refresh' = IF <<Chain, offchainName>>' = <<Chain, offchainName>> THEN refresh
                    ELSE Late(refresh)
      /\ raced' = (raced \/ \E c \in CommunityIdentifiers \ CommunityIdentifiers' : Locations[c] = {})
      /\ cachedNames' = cachedNames /\ cachedLocations' = cachedLocations
  BY DEF ChainStep
<1>3. older' \in [cids : SUBSET Cid, locations : [Cid -> SUBSET Points]] /\ raced' \in BOOLEAN
  BY <1>2 DEF Chain, NodeInv, IndexInv, CacheInv
<1>4. /\ refresh' \in [Client -> Request \cup {None}]
      /\ \A r \in Client : refresh'[r] # None /\ ~refresh'[r].late =>
           /\ refresh'[r].cids = CommunityIdentifiers'
           /\ refresh'[r].locations = Locations'
           /\ NamesCurrent'
  <2>1. CASE <<Chain, offchainName>>' = <<Chain, offchainName>>
    <3>1. /\ CommunityIdentifiers' = CommunityIdentifiers
          /\ Locations' = Locations
          /\ offchainName' = offchainName
          /\ refresh' = refresh
      BY <2>1, <1>2 DEF Chain
    <3>2. \A c \in CommunityIdentifiers : CommunityMetadata'[c] = CommunityMetadata[c]
      BY <3>1, <1>1 DEF NodeInv, NamesInv
    <3>3. NamesCurrent' <=> NamesCurrent
      BY <3>1, <3>2, <1>2 DEF NamesCurrent
    <3> QED BY <3>1, <3>3 DEF NodeInv, CacheInv
  <2>2. CASE <<Chain, offchainName>>' # <<Chain, offchainName>>
    <3>1. refresh' = Late(refresh)
      BY <2>2, <1>2
    <3> QED BY <3>1, LateRequests DEF NodeInv, CacheInv
  <2> QED BY <2>1, <2>2
<1>5. CleanCacheCurrent'
  <2> SUFFICES ASSUME ~offchainDirty', ~raced'
               PROVE  /\ cachedNames' = [c \in CommunityIdentifiers' |-> CommunityMetadata'[c]]
                      /\ \A c \in CommunityIdentifiers' : cachedLocations'[c] = Locations'[c]
    BY DEF CleanCacheCurrent
  <2>1. ~offchainDirty /\ ~raced
    BY <1>1, <1>2
  <2>2. /\ UNCHANGED <<CommunityIdentifiers, Locations>>
        /\ \A c \in CommunityIdentifiers : CommunityMetadata'[c] = CommunityMetadata[c]
    BY <1>1, <1>2 DEF Noticed
  <2> QED BY <2>1, <2>2, <1>2 DEF NodeInv, CacheInv, CleanCacheCurrent
<1> QED BY <1>3, <1>4, <1>5 DEF CacheInv

\* refresh_cache reads: the list of a block that is not the best one makes
\* every request late.
LEMMA RefreshNamesCache ==
    ASSUME NodeInv, NEW r \in Client, NEW at \in {Chain, older}, RefreshNames(r, at)
    PROVE  CacheInv'
<1> DEFINE read == [cids |-> at.cids, locations |-> at.locations, late |-> FALSE]
<1> DEFINE begun == [refresh EXCEPT ![r] = read]
<1>1. /\ offchainDirty /\ offchainDirty' = offchainDirty
      /\ refresh' = IF at = Chain THEN begun ELSE Late(begun)
      /\ cachedNames' = [c \in {x \in at.cids : offchainName[x] # NoName} |-> offchainName[c]]
      /\ UNCHANGED <<CommunityIdentifiers, Locations, CommunityMetadata, offchainName, older, raced>>
  BY DEF RefreshNames, communityVars, registry, map, offchain
<1>2. read \in Request
  BY DEF NodeInv, IndexInv, CacheInv, Chain, Request
<1>3. begun \in [Client -> Request \cup {None}]
  BY <1>2 DEF NodeInv, CacheInv
<1>4. ASSUME at = Chain PROVE NamesCurrent'
  <2>1. at.cids = CommunityIdentifiers
    BY <1>4 DEF Chain
  <2>2. {x \in at.cids : offchainName[x] # NoName} = CommunityIdentifiers
    BY <2>1, CommunitiesAssumption DEF NodeInv, NamesInv
  <2> QED BY <2>2, <1>1 DEF NamesCurrent, NodeInv, NamesInv
<1>5. /\ refresh' \in [Client -> Request \cup {None}]
      /\ \A o \in Client : refresh'[o] # None /\ ~refresh'[o].late =>
           /\ refresh'[o].cids = CommunityIdentifiers'
           /\ refresh'[o].locations = Locations'
           /\ NamesCurrent'
  <2>1. CASE at = Chain
    <3>1. refresh' = begun
      BY <2>1, <1>1
    <3>2. read.cids = CommunityIdentifiers /\ read.locations = Locations
      BY <2>1 DEF Chain
    <3> HIDE DEF read
    <3>3. begun[r] = read /\ \A o \in Client : o # r => begun[o] = refresh[o]
      BY DEF NodeInv, CacheInv
    <3> QED BY <2>1, <3>1, <3>2, <3>3, <1>1, <1>3, <1>4 DEF NodeInv, CacheInv
  <2>2. CASE at # Chain
    <3>1. refresh' = Late(begun)
      BY <2>2, <1>1
    <3> HIDE DEF begun
    <3> QED BY <3>1, <1>3, LateRequests
  <2> QED BY <2>1, <2>2
<1>6. CleanCacheCurrent'
  BY <1>1 DEF CleanCacheCurrent
<1> QED BY <1>1, <1>5, <1>6 DEF NodeInv, CacheInv

\* refresh_cache writes the locations and marks the cache clean.
LEMMA RefreshLocationsCache ==
    ASSUME NodeInv, NEW r \in Client, RefreshLocations(r)
    PROVE  CacheInv'
<1> DEFINE left == [refresh EXCEPT ![r] = None]
<1>1. /\ refresh[r] # None
      /\ cachedLocations' = [c \in Cid |-> IF c \in refresh[r].cids THEN refresh[r].locations[c]
                                           ELSE cachedLocations[c]]
      /\ raced' = \E o \in Client : refresh[o] # None /\ refresh[o].late
      /\ refresh' = IF refresh[r].late THEN Late(left) ELSE left
      /\ UNCHANGED <<CommunityIdentifiers, Locations, CommunityMetadata, older, cachedNames>>
  BY DEF RefreshLocations, registry, map
<1>2. left \in [Client -> Request \cup {None}]
  BY DEF NodeInv, CacheInv
<1>3. /\ refresh' \in [Client -> Request \cup {None}]
      /\ \A o \in Client : refresh'[o] # None /\ ~refresh'[o].late =>
           /\ refresh'[o].cids = CommunityIdentifiers'
           /\ refresh'[o].locations = Locations'
           /\ NamesCurrent'
  <2>1. CASE refresh[r].late
    <3>1. refresh' = Late(left)
      BY <2>1, <1>1
    <3> HIDE DEF left
    <3> QED BY <3>1, <1>2, LateRequests
  <2>2. CASE ~refresh[r].late
    <3>1. refresh' = left /\ left[r] = None /\ \A o \in Client : o # r => left[o] = refresh[o]
      BY <2>2, <1>1 DEF NodeInv, CacheInv
    <3>2. NamesCurrent' <=> NamesCurrent
      BY <1>1 DEF NamesCurrent
    <3> HIDE DEF left
    <3> QED BY <3>1, <3>2, <1>1, <1>2 DEF NodeInv, CacheInv
  <2> QED BY <2>1, <2>2
<1>4. CleanCacheCurrent'
  <2> SUFFICES ASSUME ~raced'
               PROVE  /\ cachedNames' = [c \in CommunityIdentifiers' |-> CommunityMetadata'[c]]
                      /\ \A c \in CommunityIdentifiers' : cachedLocations'[c] = Locations'[c]
    BY DEF CleanCacheCurrent
  <2>1. ~refresh[r].late
    BY <1>1
  <2>2. refresh[r].cids = CommunityIdentifiers /\ refresh[r].locations = Locations /\ NamesCurrent
    BY <2>1, <1>1 DEF NodeInv, CacheInv
  <2> QED BY <2>2, <1>1 DEF NamesCurrent, NodeInv, IndexInv
<1>5. raced' \in BOOLEAN
  BY <1>1
<1> QED BY <1>1, <1>3, <1>4, <1>5 DEF NodeInv, CacheInv

\* In every reachable state, and for any number of concurrent requests, a
\* clean cache holds the communities, names and locations of the best block,
\* unless one of the three known exceptions has occurred since the last refresh.
THEOREM CleanCacheStaysCurrent == NodeSpec => []CleanCacheCurrent
<1>1. NodeInit => NodeInv
  <2> SUFFICES ASSUME NodeInit PROVE NodeInv
    OBVIOUS
  <2>1. IndexInv
    BY IndexInit DEF NodeInit, MarketInit
  <2>2. NamesInv
    BY DEF NodeInit, MarketInit, CommunitiesInit, NamesInv
  <2>3. CacheInv
    BY <2>1 DEF NodeInit, MarketInit, CommunitiesInit, CacheInv, CleanCacheCurrent, Chain, IndexInv
  <2> QED BY <2>1, <2>2, <2>3 DEF NodeInv
<1>2. NodeInv /\ [NodeNext]_nodeVars => NodeInv'
  <2> SUFFICES ASSUME NodeInv, [NodeNext]_nodeVars PROVE NodeInv'
    OBVIOUS
  <2>1. IndexInv'
    BY IndexStep DEF NodeInv
  <2>2. NamesInv'
    <3>1. CASE ChainStep
      BY <3>1, ChainNoticed DEF NodeInv, ChainStep
    <3>2. CASE UNCHANGED <<CommunityIdentifiers, CommunityMetadata, offchainName>> /\ offchainDirty' \in BOOLEAN
      BY <3>2 DEF NodeInv, NamesInv
    <3>3. ASSUME NEW r \in Client, RefreshLocations(r)
          PROVE  UNCHANGED <<CommunityIdentifiers, CommunityMetadata, offchainName>> /\ offchainDirty' \in BOOLEAN
      BY <3>3 DEF RefreshLocations, registry
    <3>4. ASSUME NEW r \in Client, NEW at \in {Chain, older}, RefreshNames(r, at)
          PROVE  UNCHANGED <<CommunityIdentifiers, CommunityMetadata, offchainName>> /\ offchainDirty' \in BOOLEAN
      BY <3>4 DEF RefreshNames, communityVars, registry, offchain, NodeInv, NamesInv
    <3>5. ASSUME UNCHANGED nodeVars
          PROVE  UNCHANGED <<CommunityIdentifiers, CommunityMetadata, offchainName>> /\ offchainDirty' \in BOOLEAN
      BY <3>5 DEF nodeVars, communityVars, registry, offchain, NodeInv, NamesInv
    <3> QED BY <3>1, <3>2, <3>3, <3>4, <3>5 DEF NodeNext
  <2>3. CacheInv'
    <3>1. CASE UNCHANGED nodeVars
      BY <3>1 DEF nodeVars, communityVars, registry, map, offchain, cacheVars, NodeInv, CacheInv,
                  NamesCurrent, CleanCacheCurrent
    <3> QED BY <3>1, ChainStepCache, RefreshNamesCache, RefreshLocationsCache DEF NodeNext
  <2> QED BY <2>1, <2>2, <2>3 DEF NodeInv
<1>3. NodeInv => CleanCacheCurrent
  BY DEF NodeInv, CacheInv
<1> QED BY <1>1, <1>2, <1>3, PTL DEF NodeSpec

-----------------------------------------------------------------------------
(* Distances.                                                               *)

\* Squares grow with their roots.
LEMMA SquareGrows ==
    ASSUME NEW a \in Nat, NEW b \in Nat
    PROVE  /\ a * a \in Nat
           /\ a <= b => a * a <= b * b
           /\ a * a < b * b => a < b
<1>1. ASSUME NEW x \in Nat, NEW y \in Nat, x <= y
      PROVE  x * x \in Nat /\ y * y \in Nat /\ x * x <= y * y
  <2>1. PICK c \in Nat : y = x + c
    <3>1. y - x \in Nat /\ y = x + (y - x)
      BY <1>1
    <3> QED BY <3>1
  <2>2. y * y = x * x + 2 * (x * c) + c * c
    BY <2>1, SMTT(30)
  <2>3. x * x \in Nat /\ x * c \in Nat /\ c * c \in Nat
    BY SMTT(30)
  <2> DEFINE p == x * x
  <2> DEFINE q == x * c
  <2> DEFINE r == c * c
  <2>4. p \in Nat /\ q \in Nat /\ r \in Nat /\ y * y = p + 2 * q + r
    BY <2>2, <2>3
  <2> HIDE DEF p, q, r
  <2>5. y * y \in Nat /\ p <= y * y
    BY <2>4
  <2> QED BY <2>4, <2>5 DEF p
<1>2. a * a \in Nat /\ (a <= b => a * a <= b * b)
  BY <1>1
<1>3. b <= a => b * b \in Nat /\ a * a \in Nat /\ b * b <= a * a
  BY <1>1
<1> DEFINE p == a * a
<1> DEFINE q == b * b
<1>4. p \in Nat /\ (b <= a => q \in Nat /\ q <= p)
  BY <1>2, <1>3
<1> HIDE DEF p, q
<1>5. p < q => a < b
  BY <1>4
<1> QED BY <1>2, <1>5 DEF p, q

\* Every number has a root, rounded down.
LEMMA RootExists ==
    ASSUME NEW n \in Nat
    PROVE  \E d \in Nat : d * d <= n /\ n < (d + 1) * (d + 1)
<1> DEFINE B == {b \in Nat : n < (b + 1) * (b + 1)}
<1>1. n \in B
  <2>1. (n + 1) * (n + 1) = n * n + 2 * n + 1
    BY SMTT(30)
  <2>2. n * n \in Nat
    BY SquareGrows
  <2> DEFINE p == n * n
  <2>3. p \in Nat /\ (n + 1) * (n + 1) = p + 2 * n + 1
    BY <2>1, <2>2
  <2> HIDE DEF p
  <2> QED BY <2>3
<1>2. PICK d \in B : \A b \in B : d <= b
  <2>1. B \subseteq Nat /\ B # {}
    BY <1>1
  <2> HIDE DEF B
  <2> QED BY <2>1, LeastNumber
<1>3. d * d <= n
  <2>1. CASE d = 0
    BY <2>1
  <2>2. CASE d # 0
    <3> DEFINE c == d - 1
    <3>1. c \in Nat /\ c < d /\ c + 1 = d
      BY <2>2
    <3>2. c \notin B
      <4> HIDE DEF B, c
      <4> QED BY <1>2, <3>1
    <3>3. ~ (n < (c + 1) * (c + 1))
      <4> HIDE DEF c
      <4> QED BY <3>1, <3>2
    <3>4. ~ (n < d * d) /\ d * d \in Nat
      <4> HIDE DEF c
      <4> QED BY <3>1, <3>3, SquareGrows
    <3> DEFINE p == d * d
    <3> HIDE DEF p, B
    <3> QED BY <3>4 DEF p
  <2> QED BY <2>1, <2>2
<1> QED BY <1>2, <1>3

\* How far two places are apart in one direction,
DX(a, b) == Abs(a.lon - b.lon)

\* and in the other one
DY(a, b) == Abs(a.lat - b.lat)

\* Points of the plane.
Place == [lon : Int, lat : Int]

\* These are numbers.
LEMMA Apart ==
    ASSUME NEW a \in Place, NEW b \in Place
    PROVE  DX(a, b) \in Nat /\ DY(a, b) \in Nat
BY DEF DX, DY, Abs, Place

\* haversine_distance is the root of the sum of the squares.
LEMMA DistanceIs ==
    ASSUME NEW a \in Place, NEW b \in Place
    PROVE  LET d == Distance(a, b)
               n == DX(a, b) * DX(a, b) + DY(a, b) * DY(a, b)
           IN  d \in Nat /\ n \in Nat /\ d * d <= n /\ n < (d + 1) * (d + 1)
<1> DEFINE dx == DX(a, b)
<1> DEFINE dy == DY(a, b)
<1> DEFINE n == dx * dx + dy * dy
<1>1. dx \in Nat /\ dy \in Nat
  BY Apart
<1>2. Distance(a, b) = CHOOSE d \in 0 .. dx + dy : d * d <= n /\ n < (d + 1) * (d + 1)
  BY DEF Distance, DX, DY
<1> HIDE DEF dx, dy
<1>3. dx * dx \in Nat /\ dy * dy \in Nat /\ dx * dy \in Nat
  BY <1>1, SMTT(30)
<1>4. n \in Nat
  <2> DEFINE p == dx * dx
  <2> DEFINE q == dy * dy
  <2>1. p \in Nat /\ q \in Nat /\ n = p + q
    BY <1>3
  <2> HIDE DEF p, q, n
  <2> QED BY <2>1
<1>5. PICK d \in Nat : d * d <= n /\ n < (d + 1) * (d + 1)
  <2> HIDE DEF n
  <2> QED BY <1>4, RootExists
<1>6. d \in 0 .. dx + dy
  <2> DEFINE e == dx + dy + 1
  <2>1. e * e = dx * dx + dy * dy + 2 * (dx * dy) + 2 * dx + 2 * dy + 1
    BY <1>1, SMTT(30)
  <2> DEFINE p == dx * dx
  <2> DEFINE q == dy * dy
  <2> DEFINE r == dx * dy
  <2>2. /\ p \in Nat /\ q \in Nat /\ r \in Nat /\ n = p + q
        /\ e * e = p + q + 2 * r + 2 * dx + 2 * dy + 1
    BY <1>3, <2>1
  <2>3. e \in Nat /\ (d \in 0 .. dx + dy <=> d < e)
    BY <1>1
  <2> HIDE DEF p, q, r, e, n
  <2>4. n < e * e
    BY <1>1, <2>2
  <2>5. d * d \in Nat /\ e * e \in Nat
    BY <2>3, SquareGrows
  <2> DEFINE dd == d * d
  <2> DEFINE ee == e * e
  <2>6. dd \in Nat /\ ee \in Nat /\ dd <= n /\ n < ee
    BY <1>5, <2>4, <2>5
  <2> HIDE DEF dd, ee
  <2>7. dd < ee
    BY <1>4, <2>6
  <2>8. d < e
    BY <2>3, <2>7, SquareGrows DEF dd, ee
  <2> QED BY <2>3, <2>8
<1> HIDE DEF n
<1>7. \E c \in 0 .. dx + dy : c * c <= n /\ n < (c + 1) * (c + 1)
  BY <1>5, <1>6
<1>8. PICK c : c = Distance(a, b)
  OBVIOUS
<1>9. c \in 0 .. dx + dy /\ c * c <= n /\ n < (c + 1) * (c + 1)
  BY <1>2, <1>7, <1>8, Zenon
<1>10. c \in Nat
  BY <1>1, <1>9
<1> QED BY <1>4, <1>8, <1>9, <1>10 DEF n, dx, dy

\* Places that are farther apart in both directions are farther apart.
LEMMA DistanceGrows ==
    ASSUME NEW a \in Place, NEW b \in Place, NEW c \in Place, NEW e \in Place,
           DX(a, b) <= DX(c, e), DY(a, b) <= DY(c, e)
    PROVE  Distance(a, b) <= Distance(c, e)
<1> DEFINE x == DX(a, b) * DX(a, b)
<1> DEFINE y == DY(a, b) * DY(a, b)
<1> DEFINE u == DX(c, e) * DX(c, e)
<1> DEFINE w == DY(c, e) * DY(c, e)
<1>1. PICK p, q : p = Distance(a, b) /\ q = Distance(c, e)
  OBVIOUS
<1>2. /\ p \in Nat /\ q \in Nat
      /\ p * p <= x + y /\ u + w < (q + 1) * (q + 1)
  BY <1>1, DistanceIs
<1>3. x \in Nat /\ y \in Nat /\ u \in Nat /\ w \in Nat /\ x <= u /\ y <= w
  BY Apart, SquareGrows
<1> HIDE DEF x, y, u, w
<1> DEFINE r == q + 1
<1> DEFINE pp == p * p
<1> DEFINE rr == r * r
<1>4. r \in Nat /\ pp \in Nat /\ rr \in Nat /\ pp <= x + y /\ u + w < rr
  BY <1>2, SquareGrows
<1> HIDE DEF pp, rr
<1>5. pp < rr
  BY <1>3, <1>4
<1>6. p < r
  <2> HIDE DEF r
  <2> QED BY <1>2, <1>4, <1>5, SquareGrows DEF pp, rr
<1> QED BY <1>1, <1>2, <1>6

\* The distance spans either direction.
LEMMA DistanceSpans ==
    ASSUME NEW a \in Place, NEW b \in Place
    PROVE  DX(a, b) <= Distance(a, b) /\ DY(a, b) <= Distance(a, b)
<1> DEFINE x == DX(a, b)
<1> DEFINE y == DY(a, b)
<1>1. PICK q : q = Distance(a, b)
  OBVIOUS
<1>2. q \in Nat /\ x * x + y * y < (q + 1) * (q + 1)
  BY <1>1, DistanceIs
<1>3. x \in Nat /\ y \in Nat
  BY Apart
<1> HIDE DEF x, y
<1> DEFINE r == q + 1
<1> DEFINE xx == x * x
<1> DEFINE yy == y * y
<1> DEFINE rr == r * r
<1>4. r \in Nat /\ xx \in Nat /\ yy \in Nat /\ rr \in Nat /\ xx + yy < rr
  BY <1>2, <1>3, SquareGrows
<1> HIDE DEF xx, yy, rr
<1>5. xx < rr /\ yy < rr
  BY <1>4
<1>6. x < r /\ y < r
  <2> HIDE DEF r
  <2> QED BY <1>3, <1>4, <1>5, SquareGrows DEF xx, yy, rr
<1> QED BY <1>1, <1>2, <1>3, <1>6 DEF x, y

-----------------------------------------------------------------------------
(* Trip times.                                                              *)

\* solar_trip_time takes off what the sun needs.
LEMMA TripAtMostFlight ==
    ASSUME NEW a \in Place, NEW b \in Place, MaxSpeed \in Nat \ {0}
    PROVE  /\ Distance(a, b) \div MaxSpeed \in Nat
           /\ SolarTripTime(a, b) <= Distance(a, b) \div MaxSpeed
<1> DEFINE f == Distance(a, b) \div MaxSpeed
<1> DEFINE x == Abs(a.lon - b.lon)
<1> DEFINE t == x \div SunStep
<1>1. f \in Nat
  BY DistanceIs, QuotientBounds
<1>2. t \in Nat
  <2>1. x \in Nat
    BY Apart DEF DX
  <2> HIDE DEF x
  <2> QED BY <2>1, CommunitiesAssumption, QuotientBounds
<1>3. SolarTripTime(a, b) = IF t > f THEN 0 ELSE f - t
  BY DEF SolarTripTime
<1> HIDE DEF f, t
<1> QED BY <1>1, <1>2, <1>3 DEF f

\* If the sun outruns the traveller, it does not bring a trip that is long
\* enough below the minimum.
LEMMA FlightSuffices ==
    ASSUME NEW a \in Place, NEW b \in Place, MaxSpeed \in Nat \ {0}, NEW t \in Nat,
           (t + 1) * MaxSpeed <= SunStep, t <= Distance(a, b) \div MaxSpeed
    PROVE  SolarTripTime(a, b) >= t
<1> DEFINE D == Distance(a, b)
<1> DEFINE v == MaxSpeed
<1> DEFINE f == D \div v
<1> DEFINE x == DX(a, b)
<1> DEFINE k == x \div SunStep
<1> DEFINE s == SunStep
<1>1. D \in Nat /\ x \in Nat /\ x <= D /\ v \in Nat \ {0} /\ s \in Nat \ {0}
  BY DistanceIs, Apart, DistanceSpans, CommunitiesAssumption
<1>2. SolarTripTime(a, b) = IF k > f THEN 0 ELSE f - k
  BY DEF SolarTripTime, DX
<1>3. (t + 1) * v <= s
  OBVIOUS
<1>4. t <= f
  OBVIOUS
<1> HIDE DEF D, x, v, s
<1>5. f \in Nat /\ k \in Nat /\ s * k \in Nat /\ s * k <= x
  BY <1>1, QuotientBounds DEF s
<1>6. CASE k = 0
  <2> HIDE DEF f, k
  <2> QED BY <1>2, <1>4, <1>5, <1>6
<1>7. CASE k # 0
  <2> DEFINE m == (t + 1) * k
  <2>1. PICK j \in Nat : k = 1 + j
    <3>1. k - 1 \in Nat /\ k = 1 + (k - 1)
      BY <1>5, <1>7
    <3> QED BY <3>1
  <2> HIDE DEF f, k
  <2>2. m = t + k + t * j /\ t * j \in Nat
    <3>1. m = t + k + t * j
      BY <2>1, SMTT(30)
    <3>2. t * j \in Nat
      BY SMTT(30)
    <3> QED BY <3>1, <3>2
  <2>3. m \in Nat /\ t + k <= m
    <3> DEFINE tj == t * j
    <3>1. tj \in Nat /\ m = t + k + tj
      BY <2>2
    <3> HIDE DEF tj, m
    <3> QED BY <1>5, <3>1
  <2>4. v * m <= s * k
    <3>1. PICK c \in Nat : s = (t + 1) * v + c
      <4> DEFINE w == (t + 1) * v
      <4>1. w \in Nat
        BY <1>1, SMTT(30)
      <4>2. w <= s
        BY <1>3
      <4> HIDE DEF w
      <4>3. s - w \in Nat /\ s = w + (s - w)
        BY <1>1, <4>1, <4>2
      <4> QED BY <4>3 DEF w
    <3>2. s * k = v * m + c * k
      BY <1>1, <1>5, <3>1, SMTT(30)
    <3>3. c * k \in Nat /\ v * m \in Nat
      <4>1. c * k \in Nat
        BY <1>5, SMTT(30)
      <4>2. v * m \in Nat
        <5> HIDE DEF m
        <5> QED BY <1>1, <2>3, SMTT(30)
      <4> QED BY <4>1, <4>2
    <3> DEFINE p == v * m
    <3> DEFINE q == c * k
    <3>4. p \in Nat /\ q \in Nat /\ s * k = p + q
      BY <3>2, <3>3
    <3> HIDE DEF p, q
    <3>5. p <= s * k
      BY <3>4
    <3> QED BY <3>5 DEF p
  <2>5. v * m <= D
    <3> DEFINE p == v * m
    <3> DEFINE q == s * k
    <3>1. p \in Nat
      <4> HIDE DEF m
      <4> QED BY <1>1, <2>3, SMTT(30)
    <3>2. q \in Nat /\ q <= x /\ p <= q
      BY <1>5, <2>4
    <3> HIDE DEF p, q
    <3>3. p <= D
      BY <1>1, <3>1, <3>2
    <3> QED BY <3>3 DEF p
  <2>6. m <= f
    <3> HIDE DEF m
    <3> QED BY <1>1, <2>3, <2>5, QuotientAtLeast DEF f
  <2> HIDE DEF m
  <2> QED BY <1>2, <1>4, <1>5, <2>3, <2>6
<1> QED BY <1>6, <1>7

\* What is beyond the nearest edge of a neighbor is farther away than the edge.
LEMMA EdgeBetween ==
    ASSUME NEW c \in Nat \ {0}, NEW x \in Int, NEW y \in Int, NEW i \in {-1, 0, 1},
           y \div c = x \div c + i, NEW e,
           i = 0 => e = x, i = 1 => e = (x \div c + 1) * c, i = -1 => e = (x \div c) * c
    PROVE  e \in Int /\ Abs(e - x) <= Abs(x - y)
<1> DEFINE q == x \div c
<1> DEFINE r == x % c
<1> DEFINE s == y % c
<1>1. q \in Int /\ r \in 0 .. c - 1 /\ x = c * q + r
  BY IntDivision
<1>2. s \in 0 .. c - 1 /\ y = c * (q + i) + s
  BY IntDivision
<1>3. c * q \in Int /\ q * c = c * q /\ (q + 1) * c = c * q + c
  <2> HIDE DEF q
  <2> QED BY <1>1, SMTT(30)
<1>4. c * (q + i) = c * q + c * i /\ c * i = (IF i = 0 THEN 0 ELSE IF i = 1 THEN c ELSE - c)
  <2> HIDE DEF q
  <2>1. c * (q + i) = c * q + c * i
    BY <1>1, SMTT(30)
  <2>2. c * i = (IF i = 0 THEN 0 ELSE IF i = 1 THEN c ELSE - c)
    BY SMTT(30)
  <2> QED BY <2>1, <2>2
<1> DEFINE p == c * q
<1>5. /\ p \in Int /\ x = p + r
      /\ i = 0 => y = p + s /\ e = x
      /\ i = 1 => y = p + c + s /\ e = p + c
      /\ i = -1 => y = p - c + s /\ e = p
  <2>1. p \in Int /\ x = p + r
    BY <1>1, <1>3
  <2> DEFINE ci == c * i
  <2>2. y = p + ci + s /\ ci = (IF i = 0 THEN 0 ELSE IF i = 1 THEN c ELSE - c)
    BY <1>2, <1>4
  <2>3. (i = 1 => e = p + c) /\ (i = -1 => e = p)
    BY <1>3
  <2> HIDE DEF p, ci, r, s
  <2> QED BY <1>2, <2>1, <2>2, <2>3
<1> HIDE DEF p, q, r, s
<1>6. CASE i = 0
  BY <1>1, <1>2, <1>5, <1>6 DEF Abs
<1>7. CASE i = 1
  BY <1>1, <1>2, <1>5, <1>7 DEF Abs
<1>8. CASE i = -1
  BY <1>1, <1>2, <1>5, <1>8 DEF Abs
<1> QED BY <1>6, <1>7, <1>8

\* Beyond the neighbors a whole bucket lies in between.
LEMMA BucketBetween ==
    ASSUME NEW c \in Nat \ {0}, NEW x \in Int, NEW y \in Int,
           y \div c - x \div c \notin -1 .. 1
    PROVE  c <= Abs(x - y)
<1> DEFINE q == x \div c
<1> DEFINE r == x % c
<1> DEFINE u == y \div c
<1> DEFINE s == y % c
<1>1. q \in Int /\ r \in 0 .. c - 1 /\ x = c * q + r
  BY IntDivision
<1>2. u \in Int /\ s \in 0 .. c - 1 /\ y = c * u + s
  BY IntDivision
<1>3. u - q \notin -1 .. 1
  OBVIOUS
<1> HIDE DEF q, r, u, s
<1>4. ASSUME NEW a \in Int, NEW b \in Int, b >= a + 2
      PROVE  c * a \in Int /\ c * b \in Int /\ c * b >= c * a + 2 * c
  <2>1. PICK k \in Nat : b = a + 2 + k
    <3>1. b - a - 2 \in Nat /\ b = a + 2 + (b - a - 2)
      BY <1>4
    <3> QED BY <3>1
  <2>2. c * b = c * a + 2 * c + c * k
    BY <2>1, SMTT(30)
  <2>3. c * a \in Int /\ c * k \in Nat
    <3>1. c * a \in Int
      BY SMTT(30)
    <3>2. c * k \in Nat
      BY SMTT(30)
    <3> QED BY <3>1, <3>2
  <2> DEFINE p == c * a
  <2> DEFINE w == c * k
  <2>4. p \in Int /\ w \in Nat /\ c * b = p + 2 * c + w
    BY <2>2, <2>3
  <2> HIDE DEF p, w
  <2>5. c * b \in Int /\ c * b >= p + 2 * c
    BY <2>4
  <2> QED BY <2>4, <2>5 DEF p
<1>5. u >= q + 2 \/ q >= u + 2
  BY <1>1, <1>2, <1>3
<1> DEFINE cq == c * q
<1> DEFINE cu == c * u
<1>6. /\ x = cq + r /\ y = cu + s /\ cq \in Int /\ cu \in Int
      /\ cu >= cq + 2 * c \/ cq >= cu + 2 * c
  BY <1>1, <1>2, <1>4, <1>5
<1> HIDE DEF cq, cu
<1> QED BY <1>1, <1>2, <1>6 DEF Abs

\* The limits that the CeremonyMaster sets.
LimitsInv == MinSolarTripTime \in TripTimes /\ MaxSpeed \in Speeds

\* A place in a neighbor whose edge is far enough away is far enough away.
LEMMA NeighborFarEnough ==
    ASSUME LimitsInv, SunOutruns, NEW l \in Place, NEW n \in Place, NEW d \in Directions,
           Geohash(n) = Neighbor(Geohash(l), d),
           ~ (SolarTripTime(EdgePoint(Geohash(l), l, d), l) < MinSolarTripTime)
    PROVE  SolarTripTime(l, n) >= MinSolarTripTime
<1> DEFINE e == EdgePoint(Geohash(l), l, d)
<1> DEFINE t == MinSolarTripTime
<1>1. /\ t \in Nat /\ MaxSpeed \in Nat \ {0} /\ (t + 1) * MaxSpeed <= SunStep
      /\ BucketSize \in Nat \ {0}
  BY CommunitiesAssumption DEF LimitsInv, SunOutruns
<1>2. /\ l.lon \in Int /\ l.lat \in Int /\ n.lon \in Int /\ n.lat \in Int
      /\ d[1] \in {-1, 0, 1} /\ d[2] \in {-1, 0, 1}
  BY DEF Place, Directions
<1>3. /\ n.lon \div BucketSize = l.lon \div BucketSize + d[1]
      /\ n.lat \div BucketSize = l.lat \div BucketSize + d[2]
  BY DEF Geohash, Neighbor
<1>4. PICK u, w : e = [lon |-> u, lat |-> w]
                  /\ u = (CASE d[1] = 0  -> l.lon
                            [] d[1] = 1  -> (l.lon \div BucketSize + 1) * BucketSize
                            [] d[1] = -1 -> (l.lon \div BucketSize) * BucketSize)
                  /\ w = (CASE d[2] = 0  -> l.lat
                            [] d[2] = 1  -> (l.lat \div BucketSize + 1) * BucketSize
                            [] d[2] = -1 -> (l.lat \div BucketSize) * BucketSize)
  BY DEF EdgePoint, Geohash
<1>5. u \in Int /\ Abs(u - l.lon) <= Abs(l.lon - n.lon)
  <2>1. /\ d[1] = 0 => u = l.lon
        /\ d[1] = 1 => u = (l.lon \div BucketSize + 1) * BucketSize
        /\ d[1] = -1 => u = (l.lon \div BucketSize) * BucketSize
    BY <1>2, <1>4
  <2> QED BY <1>1, <1>2, <1>3, <2>1, EdgeBetween
<1>6. w \in Int /\ Abs(w - l.lat) <= Abs(l.lat - n.lat)
  <2>1. /\ d[2] = 0 => w = l.lat
        /\ d[2] = 1 => w = (l.lat \div BucketSize + 1) * BucketSize
        /\ d[2] = -1 => w = (l.lat \div BucketSize) * BucketSize
    BY <1>2, <1>4
  <2> QED BY <1>1, <1>2, <1>3, <2>1, EdgeBetween
<1>7. ~ (SolarTripTime(e, l) < t)
  OBVIOUS
<1> HIDE DEF e
<1>8. e \in Place /\ DX(e, l) <= DX(l, n) /\ DY(e, l) <= DY(l, n)
  <2>1. e = [lon |-> u, lat |-> w]
    BY <1>4
  <2>2. e \in Place /\ e.lon = u /\ e.lat = w
    BY <1>5, <1>6, <2>1 DEF Place
  <2> QED BY <1>5, <1>6, <2>2 DEF DX, DY
<1> DEFINE D1 == Distance(e, l)
<1> DEFINE D2 == Distance(l, n)
<1>9. D1 \in Nat /\ D2 \in Nat /\ D1 <= D2
  BY <1>8, DistanceIs, DistanceGrows
<1>10. D1 \div MaxSpeed \in Nat /\ SolarTripTime(e, l) <= D1 \div MaxSpeed
  BY <1>1, <1>8, TripAtMostFlight
<1> HIDE DEF D1, D2
<1>11. D1 \div MaxSpeed <= D2 \div MaxSpeed /\ D2 \div MaxSpeed \in Nat
  BY <1>1, <1>9, QuotientMonotone, QuotientBounds
<1>12. SolarTripTime(e, l) \in Nat
  <2> DEFINE f == D1 \div MaxSpeed
  <2> DEFINE x == Abs(e.lon - l.lon)
  <2> DEFINE k == x \div SunStep
  <2>1. SolarTripTime(e, l) = IF k > f THEN 0 ELSE f - k
    BY DEF SolarTripTime, D1
  <2>2. k \in Nat
    <3>1. x \in Nat
      BY <1>8, Apart DEF DX
    <3> HIDE DEF x
    <3> QED BY <3>1, CommunitiesAssumption, QuotientBounds
  <2> HIDE DEF k
  <2> QED BY <1>10, <2>1, <2>2
<1>13. t <= D2 \div MaxSpeed
  <2> HIDE DEF t
  <2> QED BY <1>1, <1>7, <1>10, <1>11, <1>12
<1> HIDE DEF t
<1>14. SolarTripTime(l, n) >= t
  BY <1>1, <1>13, FlightSuffices DEF D2
<1> QED BY <1>14 DEF t

\* And so is a place beyond the neighbors.
LEMMA BeyondFarEnough ==
    ASSUME LimitsInv, SunOutruns, NEW l \in Place, NEW n \in Place, Geohash(n) # Geohash(l),
           \A d \in Directions : Geohash(n) # Neighbor(Geohash(l), d)
    PROVE  SolarTripTime(l, n) >= MinSolarTripTime
<1> DEFINE t == MinSolarTripTime
<1> DEFINE v == MaxSpeed
<1> DEFINE D == Distance(l, n)
<1>1. /\ t \in Nat /\ v \in Nat \ {0} /\ (t + 1) * v <= SunStep /\ t * v <= BucketSize
      /\ BucketSize \in Nat \ {0}
  BY CommunitiesAssumption DEF LimitsInv, SunOutruns
<1>2. l.lon \in Int /\ l.lat \in Int /\ n.lon \in Int /\ n.lat \in Int
  BY DEF Place
<1> DEFINE a == n.lon \div BucketSize
<1> DEFINE b == n.lat \div BucketSize
<1> DEFINE f == l.lon \div BucketSize
<1> DEFINE g == l.lat \div BucketSize
<1>3. a \in Int /\ b \in Int /\ f \in Int /\ g \in Int
  BY <1>1, <1>2, IntDivision
<1>4. Geohash(n) = <<a, b>> /\ Geohash(l) = <<f, g>>
  BY DEF Geohash
<1> HIDE DEF a, b, f, g
<1>5. a - f \notin -1 .. 1 \/ b - g \notin -1 .. 1
  <2> SUFFICES ASSUME a - f \in -1 .. 1, b - g \in -1 .. 1 PROVE FALSE
    OBVIOUS
  <2> DEFINE d == <<a - f, b - g>>
  <2>1. d # <<0, 0>>
    BY <1>3, <1>4
  <2>2. d \in Directions
    BY <2>1 DEF Directions
  <2>3. Neighbor(<<f, g>>, d) = <<a, b>>
    BY <1>3 DEF Neighbor
  <2> QED BY <1>4, <2>2, <2>3
<1>6. BucketSize <= DX(l, n) \/ BucketSize <= DY(l, n)
  BY <1>1, <1>2, <1>5, BucketBetween DEF DX, DY, a, b, f, g
<1>7. D \in Nat /\ DX(l, n) <= D /\ DY(l, n) <= D /\ DX(l, n) \in Nat /\ DY(l, n) \in Nat
  BY DistanceIs, DistanceSpans, Apart
<1> HIDE DEF D, t, v
<1>8. v * t <= D
  <2>1. v * t = t * v /\ t * v \in Nat
    BY <1>1, SMTT(30)
  <2> DEFINE p == t * v
  <2>2. p \in Nat /\ p <= BucketSize /\ v * t = p
    BY <1>1, <2>1
  <2> HIDE DEF p
  <2> QED BY <1>1, <1>6, <1>7, <2>2
<1>9. t <= D \div v
  BY <1>1, <1>7, <1>8, QuotientAtLeast
<1>10. SolarTripTime(l, n) >= t
  BY <1>1, <1>9, FlightSuffices DEF D, v
<1> QED BY <1>10 DEF t

\* So validate_location looks at enough.
LEMMA ValidatedApart ==
    ASSUME IndexInv, LimitsInv, SunOutruns, NEW l \in Points, ValidateLocation(l),
           NEW o \in Cid, NEW n \in Locations[o], <<o, Geohash(n)>> \notin mislaid
    PROVE  SolarTripTime(l, n) >= MinSolarTripTime
<1> DEFINE h == Geohash(n)
<1> DEFINE g == Geohash(l)
<1>1. n \in Points /\ l \in Place /\ n \in Place
  BY CommunitiesAssumption DEF IndexInv, Place
<1>2. h \in Buckets /\ n \in LocationsIn(o, h)
  BY <1>1, PlacesType DEF LocationsIn
<1>3. o \in CidsByGeohash[h]
  BY <1>2 DEF IndexInv, IndexSound
<1>4. CASE h \in {g} \cup RelevantNeighbors(g, l)
  <2> DEFINE N == {x \in Cid \X (Buckets \cap ({g} \cup RelevantNeighbors(g, l))) :
                       x[1] \in CidsByGeohash[x[2]]}
  <2>1. <<o, h>> \in N
    BY <1>2, <1>3, <1>4
  <2>2. NearbyLocations(l) = UNION {LocationsIn(cg[1], cg[2]) : cg \in N}
    BY DEF NearbyLocations
  <2> HIDE DEF N
  <2>3. n \in NearbyLocations(l)
    BY <1>2, <2>1, <2>2
  <2> QED BY <2>3 DEF ValidateLocation
<1>5. CASE h # g /\ \E d \in Directions : h = Neighbor(g, d) /\ h \notin RelevantNeighbors(g, l)
  <2>1. PICK d \in Directions : h = Neighbor(g, d) /\ h \notin RelevantNeighbors(g, l)
    BY <1>5
  <2>2. ~ (SolarTripTime(EdgePoint(g, l, d), l) < MinSolarTripTime)
    BY <2>1 DEF RelevantNeighbors
  <2> QED BY <1>1, <2>1, <2>2, NeighborFarEnough
<1>6. CASE h # g /\ \A d \in Directions : h # Neighbor(g, d)
  BY <1>1, <1>6, BeyondFarEnough
<1> QED BY <1>4, <1>5, <1>6

\* The limits stay what they may be.
LEMMA LimitsStep ==
    ASSUME LimitsInv, [NodeNext]_nodeVars
    PROVE  LimitsInv'
<1>1. CASE UNCHANGED limits
  BY <1>1 DEF limits, LimitsInv
<1>2. CASE CommunitiesNext
  BY <1>2 DEF CommunitiesNext, PhaseChange, set_min_solar_trip_time_s, set_max_speed_mps,
     new_community, purge_community, remove_community, update_community_metadata,
     do_update_community_metadata, update_demurrage, do_update_demurrage, update_nominal_income,
     do_update_nominal_income, add_location, do_add_location, remove_location,
     do_remove_location, limits, LimitsInv
<1>3. CASE BazaarStep
  BY <1>1, <1>3 DEF BazaarStep, communityVars
<1>4. CASE ChainStep
  BY <1>2, <1>3, <1>4 DEF ChainStep, MarketNext
<1>5. ASSUME NEW r \in Client, RefreshLocations(r)
      PROVE  UNCHANGED limits
  BY <1>5 DEF RefreshLocations, communityVars
<1>6. ASSUME NEW r \in Client, NEW at \in {Chain, older}, RefreshNames(r, at)
      PROVE  UNCHANGED limits
  BY <1>6 DEF RefreshNames, communityVars
<1>7. CASE UNCHANGED nodeVars
  BY <1>1, <1>7 DEF nodeVars, communityVars
<1> QED BY <1>1, <1>4, <1>5, <1>6, <1>7 DEF NodeNext

\* Locations are added by new_community and do_add_location, which validate them.
LEMMA AddedAreValidated ==
    ASSUME IndexInv, [NodeNext]_nodeVars, NEW c \in Cid, NEW l \in Locations'[c] \ Locations[c]
    PROVE  l \in Points /\ ValidateLocation(l)
<1> DEFINE goal == l \in Points /\ ValidateLocation(l)
<1>1. ASSUME Locations' = Locations PROVE goal
  BY <1>1
<1>2. CASE CommunitiesNext
  <2>1. ASSUME NEW o \in Points, NEW f \in Founders, NEW n, NEW d, NEW i,
               new_community(o, f, n, d, i)
        PROVE  goal
    <3>1. /\ Locations' = [Locations EXCEPT ![CidOf(o, f)] =
                               {x \in @ : Geohash(x) # Geohash(o)} \cup {o}]
          /\ ValidateLocation(o)
      BY <2>1 DEF new_community
    <3>2. l = o
      BY <3>1 DEF IndexInv
    <3> QED BY <3>1, <3>2
  <2>2. ASSUME NEW cid \in Cid, NEW o \in Points, add_location(cid, o)
        PROVE  goal
    <3>1. Locations' = [Locations EXCEPT ![cid] = @ \cup {o}] /\ ValidateLocation(o)
      BY <2>2 DEF add_location, do_add_location
    <3>2. l = o
      BY <3>1 DEF IndexInv
    <3> QED BY <3>1, <3>2
  <2>3. ASSUME NEW cid \in Cid, NEW o \in Points, remove_location(cid, o)
        PROVE  goal
    BY <2>3 DEF remove_location, do_remove_location, IndexInv
  <2>4. ASSUME NEW cid \in Cid, purge_community(cid)
        PROVE  goal
    BY <2>4 DEF purge_community, remove_community, LocationsRemoved, IndexInv
  <2>5. ASSUME NEW cid \in Cid, \/ \E n \in Names : update_community_metadata(cid, n)
                                \/ \E d \in Demurrages : update_demurrage(cid, d)
                                \/ \E i \in Incomes : update_nominal_income(cid, i)
        PROVE  goal
    BY <1>1, <2>5 DEF update_community_metadata, do_update_community_metadata, update_demurrage,
       do_update_demurrage, update_nominal_income, do_update_nominal_income, map
  <2>6. CASE \/ PhaseChange \/ \E t \in TripTimes : set_min_solar_trip_time_s(t)
             \/ \E v \in Speeds : set_max_speed_mps(v)
    BY <1>1, <2>6 DEF PhaseChange, set_min_solar_trip_time_s, set_max_speed_mps, map
  <2> QED BY <1>2, <2>1, <2>2, <2>3, <2>4, <2>5, <2>6 DEF CommunitiesNext
<1>3. CASE BazaarStep
  BY <1>1, <1>3 DEF BazaarStep, map
<1>4. CASE ChainStep
  BY <1>2, <1>3, <1>4 DEF ChainStep, MarketNext
<1>5. ASSUME NEW r \in Client, RefreshLocations(r)
      PROVE  goal
  BY <1>1, <1>5 DEF RefreshLocations, map
<1>6. ASSUME NEW r \in Client, NEW at \in {Chain, older}, RefreshNames(r, at)
      PROVE  goal
  BY <1>1, <1>6 DEF RefreshNames, communityVars, map
<1>7. CASE UNCHANGED nodeVars
  BY <1>1, <1>7 DEF nodeVars, communityVars, map
<1> QED BY <1>4, <1>5, <1>6, <1>7 DEF NodeNext

\* If the sun outruns whoever travels, looking into the buckets next to a new
\* location is enough, for any places, buckets and limits: a location that is
\* added is far enough from all there are, but for those whose community was
\* taken out of their bucket.
THEOREM NewLocationsStayApart ==
    ASSUME SunOutruns
    PROVE  NodeSpec => NewLocationApart
<1> DEFINE apart == \A c \in Cid : \A l \in Locations'[c] \ Locations[c] :
                        \A o \in Cid : \A n \in Locations[o] :
                            <<o, Geohash(n)>> \notin mislaid
                                => SolarTripTime(l, n) >= MinSolarTripTime
<1>1. NodeInit => IndexInv /\ LimitsInv
  BY IndexInit DEF NodeInit, MarketInit, CommunitiesInit, LimitsInv
<1>2. IndexInv /\ LimitsInv /\ [NodeNext]_nodeVars => IndexInv' /\ LimitsInv'
  BY IndexStep, LimitsStep
<1>3. IndexInv /\ LimitsInv /\ [NodeNext]_nodeVars => [apart]_Locations
  BY AddedAreValidated, ValidatedApart
<1> QED BY <1>1, <1>2, <1>3, PTL DEF NodeSpec, NewLocationApart

====
