---- MODULE NodeRpc ----
(***************************************************************************)
(* A node that serves the list of communities from a cache in its          *)
(* off-chain storage (communities/rpc).  The runtime marks the cache dirty *)
(* when it imports a block that changes what is cached; the RPC handlers   *)
(* refresh a cache they find dirty, in several reads and writes that       *)
(* imported blocks and other requests come between, and mark it clean at   *)
(* the end.  The chain is the composition of Communities and Bazaar.       *)
(***************************************************************************)
EXTENDS Bazaar

CONSTANTS
    Client,               \* requests that may be in progress at a time
    None

VARIABLES
    older,                \* the state of the parent of the best block
    refresh,              \* [Client -> what the request has read, or None]
    cachedNames,          \* CIDS_KEY: communities -> names
    cachedLocations,      \* (CIDS_KEY, cid): [Cid -> SUBSET Points \cup {None}]
    raced                 \* history: a change may be missing in a clean cache

cacheVars == <<refresh, cachedNames, cachedLocations, raced>>
nodeVars == <<communityVars, bazaarVars, older, cacheVars>>

\* What a request has read, and whether the chain has moved on since.
Request == [cids : SUBSET Cid, locations : [Cid -> SUBSET Points], late : BOOLEAN]

ASSUME NodeRpcAssumption == None \notin Request

\* What a block has of what is cached.
Chain == [cids |-> CommunityIdentifiers, locations |-> Locations]

-----------------------------------------------------------------------------
\* The list of communities

\* The requests in progress, among which is one that works on an older block.
Late(requests) ==
    [r \in Client |-> IF requests[r] = None THEN None ELSE [requests[r] EXCEPT !.late = TRUE]]

\* A block is imported.  A change that comes after the reads of a request is
\* lost when the request marks the cache clean; so is the removal of a
\* community without locations, which marks nothing.
ChainStep ==
    /\ MarketNext
    /\ older' = Chain
    /\ refresh' = IF <<Chain, offchainName>>' = <<Chain, offchainName>> THEN refresh
                  ELSE Late(refresh)
    /\ raced' = (raced \/ \E c \in CommunityIdentifiers \ CommunityIdentifiers' : Locations[c] = {})
    /\ UNCHANGED <<cachedNames, cachedLocations>>

\* refresh_cache, up to the list: the communities of the block asked for, with
\* the names that the off-chain storage holds now
RefreshNames(r, at) ==
    /\ refresh[r] = None
    /\ offchainDirty
    /\ LET begun == [refresh EXCEPT ![r] = [cids |-> at.cids, locations |-> at.locations,
                                            late |-> FALSE]]
       IN  refresh' = IF at = Chain THEN begun ELSE Late(begun)
    /\ cachedNames' = [c \in {x \in at.cids : offchainName[x] # NoName} |-> offchainName[c]]
    /\ UNCHANGED <<communityVars, bazaarVars, older, cachedLocations, raced>>

\* refresh_cache, the locations of each community and the flag
RefreshLocations(r) ==
    /\ refresh[r] # None
    /\ cachedLocations' = [c \in Cid |-> IF c \in refresh[r].cids THEN refresh[r].locations[c]
                                         ELSE cachedLocations[c]]
    /\ offchainDirty' = FALSE
    /\ raced' = \E o \in Client : refresh[o] # None /\ refresh[o].late
    /\ refresh' = LET left == [refresh EXCEPT ![r] = None]
                  IN  IF refresh[r].late THEN Late(left) ELSE left
    /\ UNCHANGED <<registering, registry, map, limits, offchainName, calls, bazaarVars,
                   older, cachedNames>>

-----------------------------------------------------------------------------
NodeInit ==
    /\ MarketInit
    /\ older = Chain
    /\ refresh = [r \in Client |-> None]
    /\ cachedNames = [c \in {} |-> NoName]
    /\ cachedLocations = [c \in Cid |-> None]
    /\ raced = FALSE

NodeNext ==
    \/ ChainStep
    \/ \E r \in Client : RefreshLocations(r) \/ \E at \in {Chain, older} : RefreshNames(r, at)

NodeSpec == NodeInit /\ [][NodeNext]_nodeVars

-----------------------------------------------------------------------------
\* Properties

\* A cache that is clean answers with the communities, the names and the
\* locations of the best block: every call that changes them marks it dirty.
\* The exceptions are a change imported while a request refreshes the cache,
\* a refresh at an older block, and the removal of a community that has no
\* locations, each until the next refresh.
CleanCacheCurrent ==
    ~offchainDirty /\ ~raced =>
        /\ cachedNames = [c \in CommunityIdentifiers |-> CommunityMetadata[c]]
        /\ \A c \in CommunityIdentifiers : cachedLocations[c] = Locations[c]

====
