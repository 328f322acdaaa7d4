------------------------------- MODULE SelfTest -------------------------------
(***************************************************************************)
(* EZMP::Init: what Test() asserts of Encryption and of generateRuledKey,  *)
(* on the inputs of a set instead of the code's one input each.            *)
(***************************************************************************)
EXTENDS Aes, RuledKey, Sequences

CONSTANTS
    CipherTests,    \* [key, text]: text is a sequence of zero-padded blocks
    ExchangeTests,  \* [publicKey, aKey, bKey]
    SECURE_PRIME_NUMBER,
    IntMax          \* the largest int

ASSUME SelfTestAssumption ==
    /\ CipherTests \subseteq [key : Block, text : Seq(Block)]
    /\ ExchangeTests \subseteq [publicKey : Nat, aKey : Nat, bKey : Nat]
    /\ SECURE_PRIME_NUMBER \in Nat /\ SECURE_PRIME_NUMBER > 1
    /\ IntMax \in Nat

(* Each block on its own, under the one key. *)
aes_encrypt(plaintext, key) ==
    [i \in DOMAIN plaintext |-> aes128_enc(LoadKey(RoundKeys(key)), plaintext[i])]
aes_decrypt(ciphertext, key) ==
    [i \in DOMAIN ciphertext |-> aes128_dec(LoadKey(RoundKeys(key)), ciphertext[i])]

(* Mutant: the power with swapped arguments, as onHandshakeReceive has it. *)
SideKeysSwapped(publicKey, peer, own) ==
    UNION {RuledKeys(pwr, own, SECURE_PRIME_NUMBER, IntMax) :
            pwr \in RuledKeys(peer, publicKey, SECURE_PRIME_NUMBER, IntMax)}

(* One side of the exchange: the peer's power of the public key, to the power
   of the own key. *)
SideKeys(publicKey, peer, own) ==
    UNION {RuledKeys(pwr, own, SECURE_PRIME_NUMBER, IntMax) :
            pwr \in RuledKeys(publicKey, peer, SECURE_PRIME_NUMBER, IntMax)}
=============================================================================
