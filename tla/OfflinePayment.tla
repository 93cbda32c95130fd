---- MODULE OfflinePayment ----
(***************************************************************************)
(* pallet_encointer_offline_payment, its circuit and the setup of its      *)
(* keys: a payer proves offline, with the secret behind a registered       *)
(* commitment, that a payment is its own; anybody submits the proof later, *)
(* any number of times.                                                    *)
(*                                                                         *)
(* The hashes (Poseidon, Blake2) are injective.  Of a Groth16 key there is *)
(* the scalar delta of the verifying part and its inverse in the proving   *)
(* part, over a small field; a proof verifies exactly for the public       *)
(* inputs it was made for and a delta that the inverse cancels.            *)
(* A field element is encoded by several strings of 32 bytes, of which the *)
(* prover writes one; the chain takes any, and reduces it to the element.  *)
(***************************************************************************)
EXTENDS Balances, NativeCurrency, Sequences

CONSTANTS
    Payer,                \* bound: accounts that pay and are paid offline
    Secret,               \* zk_secrets
    Nonce,                \* bound: nonces
    Asset,                \* Community and the native token
    NativeToken,          \* native_token_cid_hash
    NoKey,
    PayAmounts,           \* bound: amounts of offline payments
    Quotients,            \* bound: quotients of the integers in 32 bytes by the order of the field
    Order,                \* bound: prime order of the scalar field
    InitialDeltas,        \* bound: delta of the first key, of those in the field
    Scalars,              \* bound: scalars that contributors draw
    MaxContributions      \* bound: length of the setup

VARIABLES
    OfflineIdentities,    \* accounts with an identity -> commitment
    UsedNullifiers,
    VerificationKey,
    settlements,          \* history: <<sender, proof>> -> number of settlements
    setup,                \* the proving keys of the ceremony, each made from the last
    receipts              \* the receipts of the contributions

setupVars == <<setup, receipts>>
offlineVars == <<OfflineIdentities, UsedNullifiers, VerificationKey, settlements, setupVars>>

ASSUME OfflineAssumption ==
    /\ Order \in Nat \ {0, 1}
    /\ \A d \in 1 .. Order - 1 : \E x \in 1 .. Order - 1 : (d * x) % Order = 1
    /\ InitialDeltas \cup Scalars \subseteq 1 .. Order - 1
    /\ Payer \subseteq Holder
    /\ IsFiniteSet(Quotients) /\ 0 \in Quotients
    /\ PayAmounts \subseteq Nat

-----------------------------------------------------------------------------
\* The trusted setup

\* Field::inverse
FieldInverse(d) == CHOOSE x \in 1 .. Order - 1 : (d * x) % Order = 1

\* ceremony_init: a key with its delta and the terms that are divided by it
InitialKey(delta) == [delta |-> delta, query |-> FieldInverse(delta)]

\* Mutant: the queries of the proving key are left as they are.
RerandomizedDelta(pk, d) == [pk EXCEPT !.delta = (@ * d) % Order]

\* The key after the contribution of the scalar d.
Rerandomized(pk, d) == [delta |-> (pk.delta * d) % Order,
                        query |-> (pk.query * FieldInverse(d)) % Order]

ContributionReceipt(d, old, new) == [d |-> d, old_delta |-> old.delta, new_delta |-> new.delta]

\* The pairing check of a receipt.
VerifyContribution(r) == (r.d * r.old_delta) % Order = r.new_delta

ceremony_contribute(d) ==
    LET pk  == setup[Len(setup)]
        new == Rerandomized(pk, d)
    IN  /\ Len(receipts) < MaxContributions
        /\ setup' = Append(setup, new)
        /\ receipts' = Append(receipts, ContributionReceipt(d, pk, new))
        /\ UNCHANGED <<OfflineIdentities, UsedNullifiers, VerificationKey, settlements>>

\* serialize_vk
VkBytes == {setup[i].delta : i \in DOMAIN setup}

-----------------------------------------------------------------------------
\* The circuit

\* 32 bytes are an integer, which is given by its remainder modulo the order,
\* the field element, and its quotient.  The order is less than a fifth of
\* 2^256, so that there are five or six quotients.
Bytes(element, quotient) == [element |-> element, quotient |-> quotient]

\* bytes_to_field
BytesToField(bytes) == bytes.element

\* compute_commitment and compute_nullifier
Commitment(secret) == <<"commitment", secret>>
Nullifier(secret, nonce) == <<"nullifier", secret, nonce>>

\* PublicInputs::from_bytes: the commitment that was registered and the
\* nullifier that was submitted are any bytes.  The others are computed: an
\* amount is less than the order, and the hashes of the recipient and of the
\* asset, which includes the chain, are injective after the reduction, too.
PublicInputs(commitment, recipient, amount, asset, nullifier) ==
    [commitment |-> BytesToField(commitment), recipient |-> recipient, amount |-> amount,
     asset |-> asset, nullifier |-> BytesToField(nullifier)]

\* OfflinePaymentCircuit: a prover can only satisfy the constraints with
\* the commitment and the nullifier that belong to its secret.
Circuit(secret, nonce, recipient, amount, asset) ==
    [commitment |-> Commitment(secret), recipient |-> recipient, amount |-> amount,
     asset |-> asset, nullifier |-> Nullifier(secret, nonce)]

\* generate_proof
GenerateProof(pk, secret, nonce, recipient, amount, asset) ==
    [query  |-> pk.query,
     inputs |-> Circuit(secret, nonce, recipient, amount, asset)]

\* The proofs that wallets may have made.  They are offline: they have the
\* proving key of some state of the setup, and do not know which key the
\* chain uses, or whether the payer has the money.
Proofs ==
    {GenerateProof(setup[i], secret, nonce, to, amount, asset) :
        i \in DOMAIN setup, secret \in Secret, nonce \in Nonce, to \in Payer,
        amount \in PayAmounts, asset \in Asset}

\* verify_groth16_proof
Verify(vk, proof, inputs) == (proof.query * vk) % Order = 1 /\ proof.inputs = inputs

-----------------------------------------------------------------------------
\* Calls

Identified(who) == who \in DOMAIN OfflineIdentities

\* AlreadyRegistered
MayRegisterIdentity(who) == ~Identified(who)

register_offline_identity(who, commitment) ==
    /\ MayRegisterIdentity(who)
    /\ OfflineIdentities' = Insert(OfflineIdentities, who, commitment)
    /\ UNCHANGED <<UsedNullifiers, VerificationKey, settlements, setupVars>>

\* Mutant: the nullifiers of native payments are not looked up.
AcceptedNative(proof, sender, recipient, amount, asset, nullifier) ==
    /\ amount > 0
    /\ sender # recipient
    /\ Identified(sender)
    /\ asset # NativeToken => nullifier \notin UsedNullifiers
    /\ VerificationKey # NoKey
    /\ Verify(VerificationKey, proof,
              PublicInputs(OfflineIdentities[sender], recipient, amount, asset, nullifier))

\* The checks that both calls make before they pay: the nullifier is looked up
\* as the bytes that were submitted, and verified as the element they encode.
Accepted(proof, sender, recipient, amount, asset, nullifier) ==
    /\ amount > 0
    /\ sender # recipient
    /\ Identified(sender)
    /\ nullifier \notin UsedNullifiers
    /\ VerificationKey # NoKey
    /\ Verify(VerificationKey, proof,
              PublicInputs(OfflineIdentities[sender], recipient, amount, asset, nullifier))

\* What both calls write after they paid.
Settle(proof, sender, nullifier) ==
    /\ UsedNullifiers' = UsedNullifiers \cup {nullifier}
    /\ settlements' = LET x == <<sender, proof>>
                      IN  Insert(settlements, x, IF x \in DOMAIN settlements THEN settlements[x] + 1 ELSE 1)
    /\ UNCHANGED <<OfflineIdentities, VerificationKey, setupVars>>

submit_offline_payment(proof, sender, recipient, amount, cid, nullifier) ==
    /\ Accepted(proof, sender, recipient, amount, cid, nullifier)
    /\ BalanceOf(cid, sender) >= amount
    /\ DoTransfer(cid, sender, recipient, amount)
    /\ Settle(proof, sender, nullifier)
    /\ UNCHANGED <<TotalIssuance, nativeVars>>

submit_native_offline_payment(proof, sender, recipient, amount, nullifier) ==
    /\ Accepted(proof, sender, recipient, amount, NativeToken, nullifier)
    /\ free[sender] >= amount
    /\ MayPay(free, sender, recipient, amount, TRUE)
    /\ free' = Paid(free, sender, recipient, amount)
    /\ Settle(proof, sender, nullifier)
    /\ UNCHANGED <<reserves, Balance, TotalIssuance, sufficients>>

set_verification_key(vk) ==
    /\ VerificationKey' = vk
    /\ UNCHANGED <<OfflineIdentities, UsedNullifiers, settlements, setupVars>>

OfflineInit ==
    /\ OfflineIdentities = [a \in {} |-> NoKey]
    /\ UsedNullifiers = {}
    /\ VerificationKey = NoKey
    /\ settlements = [x \in {} |-> 0]
    /\ \E delta \in InitialDeltas : setup = <<InitialKey(delta)>>
    /\ receipts = <<>>

\* Steps that move no money.
OfflineSetup ==
    \/ \E who \in Payer, secret \in Secret, q \in Quotients :
           register_offline_identity(who, Bytes(Commitment(secret), q))
    \/ \E vk \in VkBytes : set_verification_key(vk)

\* The bytes that encode a nullifier.
NullifierBytes == {Bytes(Nullifier(secret, nonce), q) : secret \in Secret, nonce \in Nonce, q \in Quotients}

\* Submissions claim a sender, and a recipient, an amount and a nullifier.
OfflineSubmissions ==
    \E proof \in Proofs, sender \in Payer, to \in Payer, amount \in PayAmounts,
       nullifier \in NullifierBytes :
        \/ \E cid \in Community : submit_offline_payment(proof, sender, to, amount, cid, nullifier)
        \/ submit_native_offline_payment(proof, sender, to, amount, nullifier)

-----------------------------------------------------------------------------
\* Properties

SettledWith(nullifier) == {x \in DOMAIN settlements : x[2].inputs.nullifier = nullifier}

EncodingsUsed(nullifier) == {bytes \in UsedNullifiers : BytesToField(bytes) = nullifier}

\* With a nullifier, as many payments were settled as encodings of it are
\* used, in whatever currency, from whatever account and under whatever key:
\* both parties may submit the same proof, and again after a failure or a
\* change of the key; a wallet may use a nonce twice, for both currencies; two
\* accounts may have the same commitment.  While all submit a nullifier
\* as the prover writes it, one payment at most is settled with it.
SettledPerEncoding ==
    \A secret \in Secret, nonce \in Nonce :
        LET nullifier == Nullifier(secret, nonce)
        IN  SumFunctionOnSet(settlements, SettledWith(nullifier)) = Cardinality(EncodingsUsed(nullifier))

\* What the comment of UsedNullifiers says: the same proof is not settled
\* twice.  It is, if its nullifier is submitted in two encodings.
PaymentSettledOnce == \A x \in DOMAIN settlements : settlements[x] = 1

\* Whatever the contributions, the chain accepts the proofs of a proving key
\* under the verifying key of the same state, rejects them under that of
\* another delta, and the receipts lead from each state to the next.
SetupUsable ==
    /\ \A i, j \in DOMAIN setup, secret \in Secret, nonce \in Nonce, to \in Payer,
          amount \in PayAmounts, asset \in Asset :
           Verify(setup[i].delta, GenerateProof(setup[j], secret, nonce, to, amount, asset),
                  Circuit(secret, nonce, to, amount, asset))
             <=> setup[i].delta = setup[j].delta
    /\ \A i \in DOMAIN receipts :
           /\ VerifyContribution(receipts[i])
           /\ receipts[i].old_delta = setup[i].delta
           /\ receipts[i].new_delta = setup[i + 1].delta

====
