---- MODULE Communities ----
(***************************************************************************)
(* pallet_encointer_communities: the registry of communities and of their  *)
(* meetup locations, the index of communities by geohash bucket that the   *)
(* distance rule of locations relies on, and what the pallet writes into   *)
(* the off-chain index of a node for its RPC.                              *)
(*                                                                         *)
(* Locations are points of a plane, a small part of the globe: distances   *)
(* are Euclidean, in units, and the sun moves SunStep units a second       *)
(* along the first coordinate.  A bucket is a square of BucketSize units.  *)
(* A community is identified, as in the code, by the bucket of its first   *)
(* location and its bootstrappers, so it can be registered again after it  *)
(* was removed.                                                            *)
(***************************************************************************)
EXTENDS Integers, FiniteSets, FiniteSetsExt

CONSTANTS
    Points,            \* bound: places that are ever proposed, [lon, lat]
    Founders,          \* bound: groups of bootstrappers, valid in size
    Names,             \* valid community metadata
    NoName,
    Incomes,           \* nominal incomes
    NoIncome,
    Demurrages,        \* demurrages that pass validate_demurrage
    NoDemurrage,
    BucketSize,        \* width and height of a geohash bucket
    SunStep,           \* units the sun moves in a second
    MaxAbsLatitude,    \* MAX_ABS_LATITUDE
    DatelineLon,       \* DATELINE_LON
    DatelineDistance,  \* DATELINE_DISTANCE_M
    TripTimes,         \* values of set_min_solar_trip_time_s
    Speeds,            \* values of set_max_speed_mps
    MaxCommunityIdentifiers,
    MaxCommunityIdentifiersPerGeohash,
    MaxLocationsPerGeohash,
    MaxCalls           \* bound: number of calls that change the chain

VARIABLES
    registering,          \* the scheduler is in the registering phase
    CommunityIdentifiers,
    Locations,            \* [Cid -> SUBSET Points]
    CidsByGeohash,        \* [Bucket -> SUBSET Cid]
    Bootstrappers,        \* identifiers with an entry
    CommunityMetadata,    \* [Cid -> Names \cup {NoName}]
    NominalIncome,        \* [Cid -> Incomes \cup {NoIncome}]
    DemurragePerBlock,    \* [Cid -> Demurrages \cup {NoDemurrage}], in the balances pallet
    MinSolarTripTime,     \* MinSolarTripTimeS
    MaxSpeed,             \* MaxSpeedMps
    offchainName,         \* off-chain index: [Cid -> Names \cup {NoName}]
    offchainDirty,        \* off-chain index: CACHE_DIRTY_KEY, TRUE while missing
    mislaid,              \* history: communities taken out of a bucket they have locations in
    calls                 \* history: number of calls so far

registry  == <<CommunityIdentifiers, Bootstrappers, CommunityMetadata, NominalIncome, DemurragePerBlock>>
map       == <<Locations, CidsByGeohash, mislaid>>
limits    == <<MinSolarTripTime, MaxSpeed>>
offchain  == <<offchainName, offchainDirty>>
communityVars == <<registering, registry, map, limits, offchain, calls>>

ASSUME CommunitiesAssumption ==
    /\ Points \subseteq [lon : Int, lat : Int]
    /\ BucketSize \in Nat \ {0}
    /\ SunStep \in Nat \ {0}
    /\ TripTimes \subseteq Nat
    /\ Speeds \subseteq Nat \ {0}
    /\ NoName \notin Names

-----------------------------------------------------------------------------
\* Places

Abs(x) == IF x < 0 THEN -x ELSE x

\* GeoHash::try_from_params
Geohash(l) == <<l.lon \div BucketSize, l.lat \div BucketSize>>

\* geo_hash.neighbors
Neighbor(g, d) == <<g[1] + d[1], g[2] + d[2]>>

Directions == ((-1 .. 1) \X (-1 .. 1)) \ {<<0, 0>>}

\* The buckets that can hold something.
Buckets == {Geohash(l) : l \in Points}

\* CommunityIdentifier::new
CidOf(l, founders) == <<Geohash(l), founders>>

Cid == {CidOf(l, f) : l \in Points, f \in Founders}

\* haversine_distance, rounded down
Distance(a, b) ==
    LET dx == Abs(a.lon - b.lon)
        dy == Abs(a.lat - b.lat)
    IN  CHOOSE d \in 0 .. dx + dy : d * d <= dx * dx + dy * dy /\ dx * dx + dy * dy < (d + 1) * (d + 1)

\* solar_trip_time: the time of a flight less the time the sun needs
SolarTripTime(from, to) ==
    LET flight == Distance(from, to) \div MaxSpeed
        dt     == Abs(from.lon - to.lon) \div SunStep
    IN  IF dt > flight THEN 0 ELSE flight - dt

IsValidLocation(l) == Abs(l.lat) < MaxAbsLatitude /\ Abs(l.lon) < DatelineLon

AwayFromDateline(l) == Distance(l, [lon |-> DatelineLon, lat |-> l.lat]) >= DatelineDistance

\* The point of a bucket's edge or corner in direction d that stands for the
\* neighbor bucket; on an edge, the one that is level with the location.
EdgePoint(g, l, d) ==
    LET edge(i, own) == CASE d[i] = 0  -> own
                          [] d[i] = 1  -> (g[i] + 1) * BucketSize
                          [] d[i] = -1 -> g[i] * BucketSize
    IN  [lon |-> edge(1, l.lon), lat |-> edge(2, l.lat)]

\* Mutant: the corners are not looked at.
RelevantNeighborsStraight(g, l) ==
    {Neighbor(g, d) : d \in {e \in Directions :
        (e[1] = 0 \/ e[2] = 0) /\ SolarTripTime(EdgePoint(g, l, e), l) < MinSolarTripTime}}

\* get_relevant_neighbor_buckets
RelevantNeighbors(g, l) ==
    {Neighbor(g, d) : d \in {e \in Directions :
        SolarTripTime(EdgePoint(g, l, e), l) < MinSolarTripTime}}

LocationsIn(cid, g) == {l \in Locations[cid] : Geohash(l) = g}

\* get_nearby_locations
NearbyLocations(l) ==
    UNION {LocationsIn(cg[1], cg[2]) :
           cg \in {x \in Cid \X (Buckets \cap ({Geohash(l)} \cup RelevantNeighbors(Geohash(l), l))) :
                       x[1] \in CidsByGeohash[x[2]]}}

\* validate_location
ValidateLocation(l) ==
    /\ IsValidLocation(l)
    /\ AwayFromDateline(l)
    /\ \A n \in NearbyLocations(l) : SolarTripTime(l, n) >= MinSolarTripTime

-----------------------------------------------------------------------------
\* Calls

Call == calls < MaxCalls /\ calls' = calls + 1

\* ensure_cid_exists
Exists(cid) == cid \in CommunityIdentifiers

\* sp_io::offchain_index::set(CACHE_DIRTY_KEY, true)
MarkDirty == offchainDirty' = TRUE

\* The bucket lists the community, as long as there is room.
Listed(cid, g) ==
    /\ Cardinality(CidsByGeohash[g] \cup {cid}) <= MaxCommunityIdentifiersPerGeohash
    /\ CidsByGeohash' = [CidsByGeohash EXCEPT ![g] = @ \cup {cid}]

OptionSet(f, cid, choice, none) == IF choice = none THEN f ELSE [f EXCEPT ![cid] = choice]

new_community(l, founders, name, demurrage, income) ==
    LET cid == CidOf(l, founders)
    IN  /\ Call
        /\ ~Exists(cid)
        /\ ValidateLocation(l)
        /\ MaxLocationsPerGeohash >= 1
        /\ Listed(cid, Geohash(l))
        /\ Locations' = [Locations EXCEPT ![cid] =
                            {o \in @ : Geohash(o) # Geohash(l)} \cup {l}]
        /\ Cardinality(CommunityIdentifiers) < MaxCommunityIdentifiers
        /\ CommunityIdentifiers' = CommunityIdentifiers \cup {cid}
        /\ Bootstrappers' = Bootstrappers \cup {cid}
        /\ CommunityMetadata' = [CommunityMetadata EXCEPT ![cid] = name]
        /\ DemurragePerBlock' = OptionSet(DemurragePerBlock, cid, demurrage, NoDemurrage)
        /\ NominalIncome' = OptionSet(NominalIncome, cid, income, NoIncome)
        /\ offchainName' = [offchainName EXCEPT ![cid] = name]
        /\ MarkDirty
        /\ UNCHANGED <<registering, limits, mislaid>>

do_add_location(cid, l) ==
    /\ Exists(cid)
    /\ ValidateLocation(l)
    /\ Cardinality(LocationsIn(cid, Geohash(l)) \cup {l}) <= MaxLocationsPerGeohash
    /\ Locations' = [Locations EXCEPT ![cid] = @ \cup {l}]
    /\ Listed(cid, Geohash(l))
    /\ mislaid' = mislaid \ {<<cid, Geohash(l)>>}
    /\ MarkDirty
    /\ UNCHANGED <<registering, registry, limits, offchainName>>

add_location(cid, l) == Call /\ registering /\ do_add_location(cid, l)

\* remove_location_intern takes the community out of the bucket when the list
\* is empty after the removal, and also when the location was not in it:
\* locations_len is 0 then, whatever the list holds.
LocationsLen(cid, l) ==
    IF l \in Locations[cid] THEN Cardinality(LocationsIn(cid, Geohash(l)) \ {l}) ELSE 0

\* Mutant: the community stays in the bucket.
DelistedNever(cid, l) == CidsByGeohash

Delisted(cid, l) ==
    IF LocationsLen(cid, l) = 0
    THEN [CidsByGeohash EXCEPT ![Geohash(l)] = @ \ {cid}]
    ELSE CidsByGeohash

do_remove_location(cid, l) ==
    /\ Exists(cid)
    /\ Locations' = [Locations EXCEPT ![cid] = @ \ {l}]
    /\ CidsByGeohash' = Delisted(cid, l)
    /\ mislaid' = IF l \notin Locations[cid] /\ LocationsIn(cid, Geohash(l)) # {}
                  THEN mislaid \cup {<<cid, Geohash(l)>>}
                  ELSE {m \in mislaid : m[1] = cid /\ m[2] = Geohash(l)
                                            => LocationsIn(cid, Geohash(l)) \ {l} # {}}
    /\ MarkDirty
    /\ UNCHANGED <<registering, registry, limits, offchainName>>

remove_location(cid, l) == Call /\ registering /\ do_remove_location(cid, l)

\* Mutant: the cache of a node does not learn of the new name.
do_update_community_metadata_quietly(cid, name) ==
    /\ Exists(cid)
    /\ CommunityMetadata' = [CommunityMetadata EXCEPT ![cid] = name]
    /\ offchainName' = [offchainName EXCEPT ![cid] = name]
    /\ UNCHANGED <<registering, CommunityIdentifiers, Bootstrappers, NominalIncome,
                   DemurragePerBlock, map, limits, offchainDirty>>

do_update_community_metadata(cid, name) ==
    /\ Exists(cid)
    /\ CommunityMetadata' = [CommunityMetadata EXCEPT ![cid] = name]
    /\ offchainName' = [offchainName EXCEPT ![cid] = name]
    /\ MarkDirty
    /\ UNCHANGED <<registering, CommunityIdentifiers, Bootstrappers, NominalIncome,
                   DemurragePerBlock, map, limits>>

update_community_metadata(cid, name) == Call /\ do_update_community_metadata(cid, name)

do_update_demurrage(cid, demurrage) ==
    /\ Exists(cid)
    /\ DemurragePerBlock' = [DemurragePerBlock EXCEPT ![cid] = demurrage]
    /\ UNCHANGED <<registering, CommunityIdentifiers, Bootstrappers, CommunityMetadata,
                   NominalIncome, map, limits, offchain>>

update_demurrage(cid, demurrage) == Call /\ do_update_demurrage(cid, demurrage)

do_update_nominal_income(cid, income) ==
    /\ Exists(cid)
    /\ NominalIncome' = [NominalIncome EXCEPT ![cid] = income]
    /\ UNCHANGED <<registering, CommunityIdentifiers, Bootstrappers, CommunityMetadata,
                   DemurragePerBlock, map, limits, offchain>>

update_nominal_income(cid, income) == Call /\ do_update_nominal_income(cid, income)

set_min_solar_trip_time_s(t) ==
    /\ Call
    /\ MinSolarTripTime' = t
    /\ UNCHANGED <<registering, registry, map, MaxSpeed, offchain>>

set_max_speed_mps(v) ==
    /\ Call
    /\ MaxSpeed' = v
    /\ UNCHANGED <<registering, registry, map, MinSolarTripTime, offchain>>

\* remove_community takes away the locations one by one, with
\* remove_location_intern: a community that has none marks nothing dirty.
LocationsRemoved(cid) ==
    /\ CidsByGeohash' = [g \in Buckets |-> IF LocationsIn(cid, g) = {} THEN CidsByGeohash[g]
                                           ELSE CidsByGeohash[g] \ {cid}]
    /\ offchainDirty' = (offchainDirty \/ Locations[cid] # {})
    /\ Locations' = [Locations EXCEPT ![cid] = {}]

\* The demurrage goes with purge_balances.
SettingsRemoved(cid) ==
    /\ Bootstrappers' = Bootstrappers \ {cid}
    /\ CommunityIdentifiers' = CommunityIdentifiers \ {cid}
    /\ CommunityMetadata' = [CommunityMetadata EXCEPT ![cid] = NoName]
    /\ DemurragePerBlock' = [DemurragePerBlock EXCEPT ![cid] = NoDemurrage]
    /\ NominalIncome' = [NominalIncome EXCEPT ![cid] = NoIncome]

remove_community(cid) ==
    /\ LocationsRemoved(cid)
    /\ SettingsRemoved(cid)
    /\ mislaid' = {m \in mislaid : m[1] # cid}
    /\ UNCHANGED <<registering, limits, offchainName>>

\* The ceremonies pallet does the same for an inactive community.  An
\* identifier that is not registered is accepted, too.
purge_community(cid) == Call /\ remove_community(cid)

\* The scheduler changes the phase.
PhaseChange ==
    /\ Call
    /\ registering' = ~registering
    /\ UNCHANGED <<registry, map, limits, offchain>>

-----------------------------------------------------------------------------
CommunitiesInit ==
    /\ registering = TRUE
    /\ CommunityIdentifiers = {}
    /\ Locations = [c \in Cid |-> {}]
    /\ CidsByGeohash = [g \in Buckets |-> {}]
    /\ Bootstrappers = {}
    /\ CommunityMetadata = [c \in Cid |-> NoName]
    /\ NominalIncome = [c \in Cid |-> NoIncome]
    /\ DemurragePerBlock = [c \in Cid |-> NoDemurrage]
    /\ MinSolarTripTime \in TripTimes
    /\ MaxSpeed \in Speeds
    /\ offchainName = [c \in Cid |-> NoName]
    /\ offchainDirty = TRUE
    /\ mislaid = {}
    /\ calls = 0

CommunitiesNext ==
    \/ PhaseChange
    \/ \E t \in TripTimes : set_min_solar_trip_time_s(t)
    \/ \E v \in Speeds : set_max_speed_mps(v)
    \/ \E l \in Points, f \in Founders, n \in Names, d \in Demurrages \cup {NoDemurrage},
          i \in Incomes \cup {NoIncome} : new_community(l, f, n, d, i)
    \/ \E cid \in Cid :
           \/ purge_community(cid)
           \/ \E n \in Names : update_community_metadata(cid, n)
           \/ \E d \in Demurrages : update_demurrage(cid, d)
           \/ \E i \in Incomes : update_nominal_income(cid, i)
           \/ \E l \in Points : add_location(cid, l) \/ remove_location(cid, l)

-----------------------------------------------------------------------------
\* Properties

\* The comment of get_relevant_neighbor_buckets assumes a minimum trip time of
\* a second and a speed of 83 m/s, at which the sun is the faster one.  What
\* it takes is that the sun does in a second what somebody travels in one more
\* than the minimum trip time, so that the sun never makes up for a distance
\* that is large enough, and that a bucket is wider than the latter.  At the
\* speed above that is so for latitudes up to 69 degrees.  Nothing in
\* set_max_speed_mps and set_min_solar_trip_time_s sees to it.
SunOutruns ==
    \A t \in TripTimes, v \in Speeds : (t + 1) * v <= SunStep /\ t * v <= BucketSize

\* A location that a call adds is at least the minimum solar trip time away
\* from every location there is, of any community: looking into the bucket
\* of the location and into those neighbors whose nearest edge is close
\* enough misses none, but for locations whose community a removal of a
\* location it does not have took out of their bucket.  This takes SunOutruns.
NewLocationApart ==
    [][\A c \in Cid : \A l \in Locations'[c] \ Locations[c] :
           \A o \in Cid : \A n \in Locations[o] :
               <<o, Geohash(n)>> \notin mislaid => SolarTripTime(l, n) >= MinSolarTripTime]_Locations

\* Only the removal of a location that the community does not have breaks the
\* index, and in one way: the community is missing from that bucket.
IndexSound ==
    \A g \in Buckets, c \in Cid :
        c \in CidsByGeohash[g] <=> LocationsIn(c, g) # {} /\ <<c, g>> \notin mislaid

====
