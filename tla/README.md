# A TLA+ verification of the Encointer pallets

Encointer is a community currency on a Substrate chain. People prove that they
are distinct by attending simultaneous physical meetups ("ceremonies"); who
attends is paid an income in the currency of the community and gains
reputation. This directory models the pallets that decide who is registered,
who meets whom, who is paid and whose reputation counts, and those that keep and move
money, checks them with TLC on small instances, and proves most of their safety properties with TLAPS.

Source paths below are relative to the root of the repository.

## 1. The system

All pallets live in one runtime. A block first runs its timestamp inherent
(which drives the scheduler, which calls the phase-change hooks of the others),
then its extrinsics one at a time, then `on_idle` if weight is left. Extrinsics
are transactional: one that returns an error changes nothing. Hooks are not: what
they wrote before a failure stays. Concurrency is therefore the *order* of
extrinsics of different accounts, of phase changes and of block hooks, never a
race inside a handler; what makes the system hard are long-lived records that are
written in one phase and used in another, computations spread over many blocks,
windows of ceremonies that slide, and the retention of old ceremonies.

| component | state | operations | interacts with |
| --- | --- | --- | --- |
| `scheduler` | ceremony index, phase, time of the next phase change, phase durations | `on_timestamp_set`, `next_phase`, `push_by_one_day`, `set_phase_duration`, `set_next_phase_timestamp` | calls `on_ceremony_phase_change` of ceremonies, rings, commitments, democracy |
| `ceremonies` | four registries per community and ceremony (account to index and back, with a count), reputations, endorsements and tickets, assignment parameters and counts, attestations, votes, issued rewards, inactivity counters | `register_participant`, `upgrade_registration`, `unregister_participant`, `attest_attendees`, `endorse_newcomer`, `claim_rewards`, purges, parameters; phase-change hook | reads scheduler and communities, issues balances, removes communities |
| `ceremonies/meetup-validation` | none | judgement of one meetup from its votes and attestations | used by `claim_rewards` |
| `ceremonies/assignment` | none | permutation of participants over meetups, meetup places and times | used by ceremonies |
| `reputation-rings` | keys, rings per community, ceremony and level, one pending computation, a queue of communities | key registration, `initiate_rings`, `continue_ring_computation`, `on_idle`, phase-change hook | reads reputation of ceremonies |
| `communities` | communities, locations per community and geohash, communities per geohash, bootstrappers, metadata, income, demurrage, limits; a dirty flag and names in the off-chain index of the node | creation, locations, metadata, limits, purge | read by all; purged by ceremonies |
| `balances`, `balances-tx-payment` | an amount and its date per account and for the issuance of each community, demurrage, sufficient references of accounts, fee conversion factor | transfer, issue, burn, purge, fees with refunds | used by ceremonies, treasuries, offline payments and the transaction payment pallet |
| `reputation-commitments` | purposes, commitment of a reputation to a purpose | register a purpose, commit, purge | reads ceremonies; used by faucet and democracy |
| `democracy` | proposals, tallies, enactment queue | submit, vote, update, enact at a phase change | commits reputation; its electorate is the reputation counts of ceremonies |
| `faucet` | faucets, deposits reserved for them | create, drip, dissolve, close | native currency, commitments |
| `treasuries` | swap options of two kinds | swap, spend, grant an option | native currency, balances; driven by democracy |
| `offline-payment` | identities (commitments), used nullifiers, verification key; off chain: keys of the trusted setup | register, settle, rotate the key; contribute to the setup | balances, native currency |
| `bazaar`, `vouches` | businesses and their offerings; vouches | create, delete | communities |
| RPC crates | caches in the off-chain storage of a node | queries that refresh a dirty cache | read the chain |

What makes the modelled components correct:

* **scheduler** - phases come in order, and the index advances once per cycle,
  whatever gaps there are between blocks and whatever the CeremonyMaster sets;
  no backlog of phase changes, no phase much longer than planned, and the time
  of day of each phase is kept; the clock never stops.
* **ceremonies** - registries are continuous and disjoint in every order of
  registrations, upgrades, endorsements and removals; an assigned seat has an
  occupant, and always the same one; reputation and its count agree; history is
  neither dropped while it counts nor kept when it does not; only idle
  communities are purged.
* **meetup validation** - an honest majority decides whatever the others submit
  and in whatever order; an early payout is the final one.
* **reputation rings** - only attendance that happened puts a key into a ring,
  all settled attendance does, levels are nested, sub-rings are bounded, and the
  queue drains although phases, keys and claims change during a computation.
* **democracy and commitments** - a reputation votes once on a proposal; those who may
  vote are the ones the threshold was computed from, whatever is claimed or expires
  in the meantime; a proposal is approved only after it was passing for the whole
  confirmation period; what is queued is settled at the next Assigning phase.

* **meetup assignment** - the meetup of a participant and the participants of a meetup are
  computed by two functions that must mean the same; every meetup has somebody trusted.
* **balances** - demurrage that is applied late, account by account, is not visible: all
  money decays with every block; the issuance covers the accounts; an account lives as long
  as it holds a currency.
* **communities** - locations keep their distance across bucket borders, and the index by
  geohash agrees with the locations.
* **node cache** - a clean cache answers what the chain says.
* **bazaar** - offerings belong to a business, and an identifier is used once.
* **faucet, treasuries, offline payment** - a reputation drips once per faucet and a faucet
  is never stuck; swaps stay within what was granted; a proven payment should be settled once,
  however often and by whomever it is submitted; contributions leave usable keys.

`PROJECT.json` lists all hazards with their lines, the ones without a property
included.

## 2. Modules

| module | what it is |
| --- | --- |
| `PhaseCycle` | abstract specification of the ceremony clock: what the scheduler promises and what the other modules use as their clock |
| `Scheduler` | the scheduler pallet: timestamps, resynchronisation, calls of the CeremonyMaster |
| `SchedulerProofs` | theorems about `Scheduler`, refinement of `PhaseCycle` included |
| `ParticipantRegistry` | one registry of the ceremonies pallet: enlist, and removal by swapping in the last one |
| `Ceremonies` | the ceremonies pallet on four registries per community and ceremony, with `PhaseCycle` as clock |
| `CeremoniesProofs` | theorems about `Ceremonies`: registries, seats, rewards, inactivity and history |
| `Meetup` | attestation, votes, judgement and payout of a single meetup |
| `MeetupProofs` | theorems about `Meetup`, what the judgement promises in meetups of every size, and about `MeetupAssignment`, how any number of participants is seated |
| `ReputationRings` | the rings pallet, with `PhaseCycle` as clock and ceremonies reduced to the reputation it issues |
| `ReputationRingsProofs` | theorems about `ReputationRings`: sound, nested and complete rings |
| `MeetupAssignment` | the seating function, its inverse, the draw of parameters and the number of seats, as the code computes them |
| `Democracy` | the democracy and reputation-commitments pallets, with `PhaseCycle` as clock and ceremonies reduced to reputation, its counts and purges |
| `DemocracyProofs` | theorems about `Democracy` |
| `Decay` | how an amount of a community currency is halved, for the next two |
| `CommunityLedger` | abstract specification of a community currency: what its holders see |
| `Balances` | the balances pallet with lazy demurrage, and fees paid in community currency |
| `Communities` | the communities pallet and what it writes into the off-chain index |
| `Bazaar` | the bazaar pallet, on `Communities` |
| `NodeRpc` | a node whose communities RPC serves from a cache, composed with the chain of `Communities` and `Bazaar` |
| `NodeRpcProofs` | theorems about `Communities` (index and distance rule), `Bazaar` and the cache of `NodeRpc` |
| `NativeCurrency` | transfers and named reserves of the native currency (external) |
| `Faucet`, `Treasuries`, `OfflinePayment` | the three pallets that pay people, the last one with its trusted setup |
| `Payments` | their composition on one chain, on shared native and community currencies |
| `MoneyProofs` | theorems about `Balances`, refinement of `CommunityLedger` included, and about `Payments` |
| `NumberLemmas` | sums over finite sets, quotients and remainders, inverses, divisors and primes, for the proofs |
| `MC*` | the instances TLC checks |

Storage items keep their names as variables, handlers theirs as actions.
`PROJECT.json` maps each definition to its lines. An action is the successful
path of a handler with the handler's checks as its guard; a failing extrinsic is
a stuttering step. Where a failure is *not* rolled back (the scheduler's hook,
a meetup that fails validation), it is an action of its own
(`ProgressPhaseFails`, `claim_fails`).

**Scheduler.** `OnTimestampSet` is the inherent of a block: a new timestamp with an
arbitrary gap, and one of `Bootstrap`, `AutoProgress` and `QuietBlock`. Moments
are numbers that saturate at `MaxMoment`, as the code's `saturating_add` does.
`progress_phase` writes the index before the resynchronisation can fail with
`DivisionByZero`; `WriteIndex` and `ProgressPhaseFails` keep that order.

**Ceremonies.** `Registries[<<cid, cindex>>][type]` is a registry with its map from
index to account, the inverse, and the count. `Target` is the ceremony that a call
refers to in the current phase. `register_participant` with and without a proof,
and `unregister_participant` with and without a reputation to refund, are separate
actions. The assignment decides the numbers of seats (`Allowance`, with
`FindPrimeBelow`) and gives each seat a meetup by a nondeterministic choice in
place of the code's pseudo-random permutation. `MeetupParticipants` recomputes the
participants of a meetup from the registries, as the code does at every
attestation and claim. `claim_rewards` takes any judgement: `Meetup` is about which
one it is. Phase changes are `EnterAssigning` (inactive communities are purged, then
seats assigned), `EnterAttesting` and `EnterRegistering` (one old ceremony is purged). The
inactivity timeout and the numbers of endorsement tickets are state, set at any time.

**Meetup.** An attestation list is the number of times it names each participant:
order does not matter to the code, repetitions do. `Exclude` is one round of
the exclusion loop, with the code's two peculiarities: repeated names count as
outgoing attestations, and lists of excluded participants still count as incoming
ones. `Prevails` is the order of `find_majority_vote`, ties included.

**ReputationRings.** `PendingRingComputation` is the state machine
Collecting, Building, done; each step is one action, so that everything else can
happen between two of them. Two history variables, `attended` and `eligible`, keep
what the code forgets, to state what the rings must contain.

**Democracy.** `Verified`, `ReputationCount` and `GlobalReputationCount` are what the pallet
reads of ceremonies; `Purge` removes them as `purge_community_ceremony_internal` does, the
global count with any community's part of a ceremony. An action of a proposal is its
identifier, the name of the action and the community it is about; `Policy`, `Supersedes` and
`Fallible` read it off. Enacting a fallible action may fail or not. Square roots are
compared by their squares; whether a tie passes is the constant `TieApproves`, since it
depends on the last bit of the fixed-point roots. `vote` contains both updates of the
proposal's state: when the first one ends the proposal, the second one fails and the
call is rolled back, so it is part of the guard. The history variables are the reputations
that voted (`cast`), the last moment at which a proposal was not passing
(`failing`) and the reported failures (`failed`).

**MeetupAssignment.** What `Ceremonies` leaves open: `Allowance` counts seats from the registries and
the locations, `Draws` are the parameters that the random draws can give (all those the
code accepts, including the ones kept after the attempts at validation are used up, recorded
in `skipped`), and `AssignmentFn` and `AssignmentFnInverse` compute the seating. The greatest
common divisor and the modular inverse are the loops of the code, as tables of the states after each iteration. `validate_equal_mapping` looks only at the participants
beyond the prime, and those below it are spread evenly in any case, so that a meetup can have one more of them and on
top of that its share of the others (`ShareBeyondPrime`).

**Balances.** An entry is an amount with the block of its last change. The demurrage is a number
of halvings per block: rounding down, applying it in one go or block by block gives the same
amount, as the exponential of the code does up to its last bits. Amounts of the fungibles
interface are coarser by `Granularity`. A fee is withdrawn (`WithdrawFee`) before a
call and settled (`SettleFee`) after it, with the payer's own transactions as the steps in between.
`ImplementsLedger` maps every entry to its present value and shows each step to be one of
`CommunityLedger`: blocks in which everything decays, payments with dust,
minting, destroying, fees, a purge, and the revaluation by a new demurrage. Three history variables record
known irregularities, so that the invariants show that there are no others: `revalued`, `irregular` and `settled`.

**Communities, Bazaar, NodeRpc.** Locations are points of a plane with square buckets, distances
are Euclidean and the sun moves along one axis. `RelevantNeighbors` decides as the code
does, edge by edge and corner by corner, which neighbouring buckets a new location is compared with. An identifier
is made of a bucket and the founders, so a removed community can come back with its
businesses. The runtime's writes into the off-chain index (`MarkDirty`, names) are part of the
calls. A request to the node refreshes the cache in two steps, `RefreshNames` and
`RefreshLocations`, at the best block or an older one, with blocks imported in between.

**Payments.** `Faucet` works on native balances with the existential deposit and reserves;
`Treasuries` on both currencies; `OfflinePayment` has proofs that bind the public inputs of
the circuit and verify under the key they were made for. Commitments and nullifiers are 32 bytes, given by the field element they
encode (the remainder modulo the order of the field) and the quotient (`Bytes`): `UsedNullifiers` has the bytes, the circuit sees the element (`BytesToField`).
A Groth16 key is reduced to the scalar
that a contribution multiplies, over a small prime field, and its inverse in the proving
part: this is what decides whether the parts match. Any proof made so far can be submitted
at any time, by anybody, in either currency, with any bytes for its nullifier.

## 3. Runs

| run | expectation | distinct states | what it shows |
| --- | --- | --- | --- |
| `scheduler` | pass | 216,216 | `TypeOK`, `NoBacklogAfterBlock`, `NoIdlePhase`, `RhythmKept`, `ImplementsPhaseCycle` (refinement) under all calls of the CeremonyMaster; `PhasesKeepChanging` (liveness) from every state he leaves the clock in |
| `ceremonies` | pass | 127 thousand | `RegistriesContinuous`, `OneRegistration`, `SeatsResolve` with three accounts while reputation lifetime and tickets change |
| `ceremonies_life` | pass | 356 thousand | `CountsVerified`, `NoStaleHistory`, `MeetupsFrozen`, `WindowKept`, `IdlePurge` from genesis over four ceremonies, with a changing inactivity timeout |
| `meetup` | pass | 204,800 | `HonestMajorityDecides`, `EarlyPayoutIsFinal`, `PaidHaveMet` for seven participants, four of them honest |
| `assignment` | pass | 187 thousand | `SeatingConsistent`, `MeetupsTrusted` for all numbers of registrations up to 21, up to four locations, and all draws |
| `rings` | pass | 1,253,919 | `RingsNested`, `RingsSound`, `RingsComplete`, `QueueDrains` |
| `democracy` | pass | 146,928 | `OneVotePerReputation`, `TurnoutWithinElectorate`, `ElectorateConstant`, `ApprovalConfirmed`, `QueuedSettles` for two proposals |
| `democracy_global` | violation | | the purge of one community removes the electorate of all |
| `balances` | pass | 83,734 | `SupplyCoversBalances`, `SufficientsCountAccounts`, and `ImplementsLedger` (refinement) |
| `communities` | pass | 316,408 | `IndexSound`, `NewLocationApart`, `OfferingsBelong`, `CleanCacheCurrent` with a request in progress |
| `payments` | pass | 576,324 | `DripsBacked`, `FaucetServesOrCloses`, `SwapsWithinGrants`, `SettledPerEncoding`, `SetupUsable` |
| `payments_encodings` | violation | | `PaymentSettledOnce`: a proof is settled again with another encoding of its nullifier |

Every property of a passing run has a mutant of the code in `PROJECT.json` (an
operator marked "Mutant" in the modules) that breaks it.

### Bounds, and why they are enough

* `Scheduler`: `MaxNow` and `MaxGap` allow gaps of several whole cycles, so that the
  resynchronisation moves by zero, one and more cycles in both directions;
  `MaxMoment` is near enough to be reached, so that saturation happens. Durations
  include zero, hence the empty cycle and the swallowed error. `MCScheduler` lets the
  CeremonyMaster stop to interfere at any moment (`Attended`).
* `Ceremonies`: a registry of up to three members has all the cases of the removal (the only,
  the last, an inner one). `EstablishedSpec` starts in a community that already
  met, so that reputables, endorsees and newbies coexist within few steps; its
  states are those in which everybody of some set of accounts had attended the
  ceremony before. `ceremonies_life` starts from genesis and is long enough
  (`MaxIndex = 4`) for the lifetime window of two to slide and for a community to be
  purged for inactivity. The two newcomers of `ceremonies` are symmetric. `MaxIndex`,
  `Endorsable` and `PurgeIndices` are bounds on inputs.
* `Meetup`: seven participants is the smallest number in which a majority of four
  has three opponents who can form a block, and both branches of the threshold for more than
  five and for fewer are used as the exclusion proceeds. The others choose from
  five lists and three votes, again and again.
* `ReputationRings`: two levels and a lifetime of two over four ceremonies give
  computations that overlap a purge, recomputation of an old ceremony
  (`Initiable`), and a level split into sub-rings of different size (three members, `MaxRingSize = 2`).
  Each account has one key: with a key that is replaced between two levels the rings are
  not nested (see "Divergences").
* `Democracy`: a cycle from the Attesting phase of the fourth ceremony to that of the fifth: a
  ceremony's rewards become final, one expires and the community can be purged, all while
  proposals are open. A proposal can be superseded, rejected for its
  age, confirmed after its lifetime, dropped by a full queue (`QueueLimit = 1`),
  enacted, or fail. `Ballots` has every reputation: what is not eligible is skipped. Meetups are settled
  with an attendee or as failed, which counts as activity all the same.
  `Committable` and `MaxPurposes` bound the commitments made outside of votes.
* `MeetupAssignment`: meetups of three, with up to 13 trusted participants, 5 endorsees and 3 newbies: groups that
  are empty, smaller and larger than the number of meetups, and several primes on either side.
* `Balances`: amounts up to 6 with a demurrage of one halving per block or none over two blocks, an existential deposit of 2
  and fees in units of 2: dust, rounding, overflow of the balance type, refunds to an account
  that is gone. The two accounts are symmetric. `MaxEvents` bounds fees, purges and new demurrages together.
* `Communities`: three places of which two are diagonal neighbours across a bucket's corner and one lies far
  off in the first bucket, and a minimum trip time that changes within `SunOutruns` (see "Divergences"). Four calls, of any kind, suffice to register, extend,
  shrink and remove a community; requests to the node are not counted among them. The run has one request in progress at a time; the same
  instance with two overlapping requests (2.7 million states) passes as well, but takes longer than is
  convenient for a regular check.
* `Payments`: five calls in all, of any of the three pallets and of transfers of native tokens. Two faucets and two purposes let a faucet be
  dissolved and created again; an allowance of 2 is swapped in parts; two accounts may share a secret and both
  currencies a nonce. Of the five or six encodings of a field element there are two (`Quotients`). The setup has up to two
  contributions in a field of order five. The two faucets and the two secrets are symmetric.

`CHECK_DEADLOCK FALSE` stands where the bounds (the last ceremony, the last moment)
stop the model.

### Fairness

* `MCSpec` of the scheduler has weak fairness of the timestamp inherent, which is mandatory in
  every block. The CeremonyMaster can postpone a phase for ever, so `PhasesKeepChanging` is about the
  time after his last call, and needs a cycle that is not empty and room within the model's last moment.
* `FairSpec` of the rings has weak fairness of `on_idle`, since blocks keep having
  weight to spare, and of phase changes, which `PhasesKeepChanging` shows of the
  scheduler. Extrinsics of accounts have none: nobody has to act.
* `FairSpec` of democracy has weak fairness of `Block`, the mandatory inherent with the
  hooks it causes. Nothing makes anybody vote or update a proposal.

### Divergences

`democracy_global` contradicts a comment of the repository: "a constant electorate"
(`democracy/src/lib.rs:366`). A community purged for inactivity takes the global reputation
counts of its ceremonies along, also the part of other communities.

`payments_encodings` contradicts another: the set of nullifiers "prevents double-submission of the same proof"
(`offline-payment/src/lib.rs:212`). It holds the bytes as they were submitted, whereas the proof is verified for their
remainder modulo the order of the field, so that a proof is settled again with other bytes of the same
nullifier. What holds instead is `SettledPerEncoding`, and with it one settlement as long as everybody submits a nullifier as the
prover writes it.

`PROJECT.json` has the details of both under `findings`.

Other irregularities met while modelling are conditions of the properties above, with
the reason in the hazard they belong to:

* with durations that are all zero the scheduler's bootstrap branch runs with every block
  (`scheduler/src/lib.rs:262`), or, if a timestamp is scheduled, the index advances with every block in the Attesting phase (`scheduler/src/lib.rs:209`);
* a refund may release the reputation that a registration in another community rests on
  (`ceremonies/src/lib.rs:281`);
* a name that is repeated in an attestation list counts repeatedly (`meetup-validation/src/lib.rs:306`);
* a key replaced between two steps of a ring computation breaks the nesting of the rings
  (`reputation-rings/src/lib.rs:540`);
* the removal of a location that a community does not have takes the community out of that
  bucket (`communities/src/lib.rs:523`), recorded in `mislaid`;
* a new demurrage applies to the past of every entry (`balances/src/lib.rs:376`), a purge of
  balances keeps references, and a refund of a fee makes an entry without one, recorded in `revalued` and `irregular`;
* a change imported while a request refreshes the node's cache is lost until the next one
  (`communities/rpc/src/lib.rs:111`), as is the removal of a community without locations, recorded in `raced`;
* the meetups do not share a group evenly: with 27 reputables in three meetups, one has three more than another (those below the prime
  and those beyond it are spread separately, `assignment/src/lib.rs:62`);
* with a single trusted participant there may be two meetups (`ceremonies/src/lib.rs:1478`);
* the distance rule looks into the neighbours whose nearest edge is less than the minimum trip time away
  (`communities/src/lib.rs:636`), and the comment there calls that safe for the default limits up to 78 degrees. What the proof takes is
  `SunOutruns`: in a second the sun gets as far as somebody does in the minimum trip time and one second more. With
  the default 83 m/s and one second that is so up to 69 degrees only. Where it is not, trip times rounded to seconds do not grow with the
  distance, and a location across an edge can be missed: on the plane of the model, with a sun of 3 and a speed of 2 for example. Nothing in
  `set_min_solar_trip_time_s` and `set_max_speed_mps` prevents such limits;
* the local `verify_proof` of the offline-payment library asks whether verification ran,
  not what it found (`offline-payment/core/src/prover.rs:166`), so the self-test of a key says nothing; the chain's
  verifier does look at the result, and `SetupUsable` is about that one.

## 4. Proofs

TLAPS proves for all values of the constants, under their assumptions and the hypotheses a theorem names, every safety
invariant, action property and refinement that the passing runs check. Liveness stays with TLC.

* `SchedulerProofs` - `TypeCorrect`, `BacklogFree`, `IdlePhaseBound`,
  `RhythmPreserved`, `KeepsPhaseCycle` and `RefinesPhaseCycle`. The type invariant is inductive; the
  rest is arithmetic. `ResyncWindow` is the key lemma: whatever the old timestamp,
  the resynchronised one lies within one cycle from now. `RhythmPreserved` needs that
  it differs from the old one by a multiple of the cycle. `KeepsPhaseCycle` is about the steps taken while the
  cycle is not empty: with an empty cycle the index can advance alone, which is
  what the code does. `RefinesPhaseCycle` is the full refinement, for durations without zero.
* `CeremoniesProofs` - `RegistriesStayContinuous`, `RegisteredOnce`,
  `SeatsAlwaysResolve`, `MeetupsStayFrozen`, each of `Spec`, for any number of accounts,
  communities, ceremonies and lifetimes. None of these invariants is inductive alone: removal
  keeps a registry continuous only if the account is in it exactly once, an upgrade registers
  anew only if no other registry has the account, and seats stay occupied only because
  registries change for ceremonies that have no seats yet. The inductive
  invariant `Inv` is the conjunction of `Good(Registries)`
  (each registry continuous, no account in two of them) and `Seated` (seats are counted by the
  registries, and a ceremony that can still be registered for has none). `StepInv` shows in
  one step per action that `Inv` is kept and that no registry with seats
  is touched (`Untouched`); `MeetupsStayFrozen` follows from the latter.

  `CountIsVerified`, `WindowIsKept`, `OnlyIdleArePurged` and `HistoryStaysBounded` are about what claims leave behind.
  A claim adds to the count exactly the newly verified only because nobody sits in two
  meetups of a ceremony and each meetup is settled once: `Rewarded` says that only meetups
  are settled and only participants of settled meetups are verified. `IdleInv` relates the inactivity
  counter, which is updated one phase after a claim is possible, to the ceremonies without a
  settled meetup; it needs no assumption on the timeouts. `HistoryInv` adds that nothing
  is stored about ceremonies which are not open yet. `WindowIsKept` has the hypothesis that the CeremonyMaster
  purges nothing by hand (`PurgeIndices = {}`), since that call drops whatever it is told to;
  `HistoryStaysBounded` that the reputation lifetime is never changed (`Lifetimes = {l}`), since a
  ceremony is purged only at the moment it leaves the lifetime, and one that a shorter lifetime skips stays.
* `ReputationRingsProofs` - `RingsStaySound`, `LevelsAreCovered`, `RingsStayNested`,
  `RingsLeaveNobodyOut`, for any number of accounts, levels and ceremonies, any size of sub-rings and any
  interleaving of the steps of a computation with keys, rewards, phases and purges. The first
  half of the module is about the split: `RankBound` and `PlaceFound` show that sorting by key and
  splitting evenly puts each member into one of the sub-rings, so that a level that was built has exactly
  the keys of its members (`OverwriteCovers`, `BuildStep`), also where an older and larger set of sub-rings
  is overwritten. Soundness needs that nobody is counted more often than attended
  (`SoundInv`), and that sub-rings left over from an earlier computation are sound too. Nesting is kept everywhere
  except across the `Frontier` between the levels of the present computation and those of an earlier one; `NestInv` says what makes
  the next level close it: the members of the level above still have a key and their attendance. `LevelsAreCovered` holds also when
  keys are replaced, in terms of accounts; `RingsStayNested`, in terms of keys, has the hypothesis that an account registers one key
  (see "Divergences"). Completeness (`CompleteInv`) rests on three facts: what is within the reputation
  lifetime is not purged (`Remembered`), a computation for the last ceremony does not run while its rewards are still
  being claimed (`InTime`), and therefore nobody is counted too seldom nor left out of a level that was built (`Thorough`).
* `MeetupProofs` - `HonestMajorityAlwaysDecides`, `EarlyPayoutStaysFinal`, `PaidHaveAlwaysMet`, for meetups of any size, any
  votes and any lists. `RoundOf` says what one round of exclusion does, `RemainingSettles` that as many rounds as there are participants
  come to rest, and that what every round keeps is kept by all of them. The key lemma is `MajorityDecides`, about any
  set `H` of more than half of the participants, at least three, who vote for their number and attest exactly one another (`Agree`): no other
  vote has as many supporters; each of `H` gives and receives `|H| - 1` attestations among whoever is left; each of the others
  receives at most `|H| - 2`, which is below the threshold as long as any of them is left. So every round takes out others only, until `H` is left
  and nobody is below the threshold. For the first theorem `H` is `Honest`. For the second it is whoever was paid: `EarlyRewardsPossible`
  makes the supporters such a set, `MeetupInv` remembers that they are a majority, and the lists and votes of the others do
  not matter. `PaidHaveAlwaysMet` has the hypothesis that no list names anybody twice: a repeated name counts again as an outgoing
  attestation, so that somebody who names one participant twice passes for somebody who met two (with four
  participants, one such list already makes the property false).
  On the seating: `SeatingStaysConsistent` and `MeetupsStayTrusted`. `AssignmentInv` says what was computed from the registrations, which
  do not change any more. `GcdCombines` and `InverseFound` show that the two loops of `math.rs` end, with a combination of their arguments and with
  an inverse modulo the prime; both by `IteratesExist` and `IterationEnds`, which say of any loop with a decreasing measure that
  its table exists and comes to rest. `IsPrimeRight` shows that trying the neighbours of multiples of six up to the root finds exactly the primes.
  So mixing modulo the prime is a permutation (`UnmixingInverts`), the iterations of `assignment_fn_inverse` go through the values of a meetup
  once each (`IterationsFindValues`), and it returns whom `assignment_fn` sends there (`InverseIsPreimage`) - as long as
  there are fewer participants than twice the prime, since it looks one prime further only. That is Bertrand's postulate (between n and 2n there is a
  prime), the hypothesis `Bertrand` of both theorems: a theorem of Chebyshev about numbers, not an assumption about the program, but
  beyond these provers. `PrimeCoversMeetups` needs it a second time: if all seats are taken, there are two trusted participants
  for every meetup, and the prime below their number is not smaller than the number of meetups.
* `DemocracyProofs` - `OneVoteEach`, `ElectorateStaysConstant`, `TurnoutStaysWithin`,
  `NoMoreVotesThanVoters`, `ApprovalTakesItsTime`. `ClockInv` says which ceremony and phase it is at each moment
  (`IndexAt`); from it follow the bounds on the age of a proposal, and that `voting_cindexes` leaves out ceremonies
  that can still be rewarded and ceremonies that expire before the proposal does. `VotesInv` keeps the votes that were cast
  together with the commitments that prevent a second one, also through purges. The turnout is not bounded by those who may still vote, whose
  reputation can be purged after they did, but by both together (`TurnoutInv`). `TurnoutStaysWithin` has the hypothesis that no
  action is global: for global ones the run `democracy_global` refutes it. `PassInv` is behind `ApprovalTakesItsTime`:
  a proposal in confirmation has not failed since, because its tally changes only in `vote`, which updates its state.
* `MoneyProofs`, on balances - `BalancesTypesHold`, `ReferencesAreCounted`, `LazyDemurrageIsInvisible`, `IssuanceCoversMoney`.
  The refinement needs that halving m times and then n times is halving m + n times (`QuotientTwice` and the powers of
  two), that no entry is dated in the future, and, for fees, that the community of a pending fee still exists
  (`BalancesInv`). Coverage of the accounts by the issuance is proved on the ledger: a step of `CommunityLedger` keeps it
  because the sum of the rounded parts does not exceed the rounded sum, each fee losing less than one
  fungible unit; the refinement carries it to the entries.
* `NodeRpcProofs` - `IndexAlwaysSound`, `OfferingsAlwaysBelong`, `CleanCacheStaysCurrent`. The index is sound for a
  community that registers anew only if nothing was left behind by its predecessor (`IndexInv`). `CacheInv` says what a request in progress
  has read, and `Noticed` that an imported call marks the cache dirty or changes nothing that is cached.
  `NewLocationsStayApart` is about the distance rule, under the hypothesis `SunOutruns`. `RootExists` and `DistanceIs` say that the
  distance is the root, rounded down, and `DistanceGrows` that it is not smaller for differences that are not; `FlightSuffices` that
  under `SunOutruns` the sun does not bring a trip below the minimum whose flight alone takes that long, rounding included.
  On the way to a place in another bucket there is an edge (`EdgeBetween`), and a place beyond a neighbour is a whole bucket away
  (`BucketBetween`). So whoever would be too close is in a bucket that was looked into (`ValidatedApart`).
* `MoneyProofs`, on payments - `EveryDripIsBacked`, `NoFaucetIsStuck`, `SwapsStayWithinGrants`, `PaymentsSettlePerEncoding`,
  `WrittenAsProvedSettlesOnce`, `SetupStaysUsable`, each of
  the composition of the three pallets. `NativeInv` (no account below the existential deposit, and whoever has a deposit reserved has an
  account) is what a faucet needs to be closed; `SwapsInv` relates the sums of what is open, swapped and granted; `SettledInv`
  the sum of the settlements with a nullifier to the number of its encodings that are used; `SetupInv`
  says that each key of the setup has parts that are inverse to each other, which `InverseProduct` keeps.
* `NumberLemmas` - sums over finite sets, quotients and remainders, inverses, divisors, primes and loops, for the modules above. Induction over
  data cannot be instantiated here, so the lemmas on sums, and those on powers of two in `MoneyProofs` and on rounds in `MeetupProofs`, look at a smallest counterexample:
  `SmallestSubset` and `LeastNumber` give one, and the step to the next smaller one refutes it.

### Assumptions

The assumptions on constants are named in the modules that declare them, and TLC evaluates
them in every run. Most say that a bound or a parameter is a natural number, or a set of them.
The others, and why the code justifies them:

* `SeatsAssumption`: one meetup has a seat for every bootstrapper. The code subtracts their number from the seats in unsigned arithmetic
  without checking it, so it is a condition on the configuration of a runtime.
* `AssignmentAssumption` says the same of `MeetupAssignment`, and that a community has no more bootstrappers than `MaxBootstrappers`, as
  `Communities` enforces when it is registered.
* Accounts, and where sums are taken communities and ballots, are finite sets: storage and extrinsics are.
* `MaxIndex > 0`: ceremonies are numbered from one.
* Keys of rings are not zero: zero stands for an account without one.
* `DemocracyAssumption`: phases have a duration, the inactivity timeout and the lifetime of a proposal are not zero, and `Global` is no community.
* `FaucetAssumption`: people and faucets have different accounts, since those of faucets are derived from a hash.
* `PaymentsAssumption`: initially no account is below the existential deposit, which the native currency never lets happen.
* `OfflineAssumption`: the scalars form a field, by the existence of inverses; a field element has finitely many encodings, the one the prover
  writes (quotient 0) among them.
* `CommunitiesAssumption`, `NodeRpcAssumption`: the values that stand for no name and no request are not names or requests.

### Only model-checked

* Liveness (`PhasesKeepChanging`, `QueueDrains`, `QueuedSettles`), which the prover does not handle.

## 5. Not modelled

* Fixed-point arithmetic: the exponential of the demurrage, the haversine distance, square
  roots. What the properties need of them is kept (see section 2).
* Cryptography: proofs of attendance, ring signatures and zero-knowledge proofs are valid or not;
  hashes are injective, also after their reduction to a field element.
* Of ceremonies: the time and tolerance of meetups, the reward amount, and the aggregated account data.
* Of the RPC crates: the reputation cache per account, which is also compared with the phase of the
  ceremony; the stateless queries.
* Urls of the bazaar, with the calls that only change them; vouches, an append-only list;
  the times of validity of swap options, which no code reads.
* The C interface of the wallet library, events and logging, weights, benchmarks, migrations,
  test support and generated code.
* Cross-chain transfers of a treasury after they were sent.
* The effect of enacted proposals on other pallets: the called functions are actions of
  `Communities`, `Treasuries` and `Ceremonies`, but no module composes them with `Democracy`.

## 6. Plan

The reputation cache of the ceremonies RPC on top of `Ceremonies`.
