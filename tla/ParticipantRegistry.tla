---- MODULE ParticipantRegistry ----
(***************************************************************************)
(* One participant registry of pallet_encointer_ceremonies: the three      *)
(* storage maps Registry (index -> account), Index (account -> index) and  *)
(* Count that exist once per participant type and community ceremony       *)
(* (BootstrapperRegistry/Index/Count, ReputableRegistry/Index/Count, ...). *)
(*                                                                         *)
(* Indices start at 1.  The meetup assignment addresses participants by    *)
(* index up to the count, so the indices must stay continuous when         *)
(* somebody unregisters.                                                   *)
(***************************************************************************)
EXTENDS Naturals

\* A storage map as a function on the keys that are present.
Put(map, key, value) ==
    [k \in DOMAIN map \cup {key} |-> IF k = key THEN value ELSE map[k]]

Delete(map, key) == [k \in DOMAIN map \ {key} |-> map[k]]

EmptyMap == [k \in {} |-> 0]

EmptyRegistry == [registry |-> EmptyMap, index |-> EmptyMap, count |-> 0]

\* The branch of register() that adds account at the end of its registry.
Enlist(reg, account) ==
    LET next == reg.count + 1
    IN  [registry |-> Put(reg.registry, next, account),
         index    |-> Put(reg.index, account, next),
         count    |-> next]

\* Mutant: the last participant moves, but its index entry is not updated.
StrikeKeepingIndex(reg, account) ==
    IF reg.count \in DOMAIN reg.registry
    THEN LET last == reg.registry[reg.count]
             i    == reg.index[account]
         IN  [registry |-> Delete(Put(reg.registry, i, last), reg.count),
              index    |-> Delete(reg.index, account),
              count    |-> reg.count - 1]
    ELSE reg

\* storage_helper::remove_participant_from_registry: the last participant
\* takes the place of the one that leaves.  The writes happen in this order,
\* which matters when the participant who leaves is the last one.
Strike(reg, account) ==
    IF reg.count \in DOMAIN reg.registry
    THEN LET last == reg.registry[reg.count]
             i    == reg.index[account]
         IN  [registry |-> Delete(Put(reg.registry, i, last), reg.count),
              index    |-> Delete(Put(reg.index, last, i), account),
              count    |-> reg.count - 1]
    ELSE reg

\* The participants of a registry.
Enlisted(reg) == DOMAIN reg.index

\* Continuous indices: registry and index are inverse bijections between
\* 1 .. count and the enlisted accounts.
Continuous(reg) ==
    /\ reg.count \in Nat
    /\ DOMAIN reg.registry = 1 .. reg.count
    /\ \A i \in 1 .. reg.count :
         reg.registry[i] \in DOMAIN reg.index /\ reg.index[reg.registry[i]] = i
    /\ \A a \in DOMAIN reg.index :
         reg.index[a] \in 1 .. reg.count /\ reg.registry[reg.index[a]] = a

====
