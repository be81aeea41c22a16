------------------------------ MODULE Decryptor ------------------------------
(***************************************************************************)
(* The decryptor of src/crypto/crypto.rs: the salt of a user and an        *)
(* encryption type, the PKCS#12 derivation of a key from it (RFC 7292,     *)
(* appendix B), and the cache of keys that all threads share behind one    *)
(* mutex.  A thread that finds no key derives one while it holds the       *)
(* mutex.                                                                  *)
(*                                                                         *)
(* Bytes are digits 0..Byte-1, so that the lengths of the code (64, 20,    *)
(* 32, 16) can be small; SHA-1 is a parameter.  Of a text only the salt it *)
(* was encrypted under matters: it is readable with that salt's key.       *)
(***************************************************************************)
EXTENDS Naturals, Sequences, SequencesExt

CONSTANTS
    Byte,          \* 256
    SaltLength,    \* 16
    BlockLength,   \* BLOCK_LENGTH, 64
    HashLength,    \* HASH_LENGTH, 20
    KeyLength,     \* 32
    Password,      \* KDF_PASSWORD
    Prefix,        \* PREFIX: the prefixes of encryption types 0, 1, ...
    Digits,        \* Digits[u]: the decimal digits of user id u
    Sha1(_),       \* SHA-1
    Nobody         \* no thread

ASSUME DecryptorConstants ==
    /\ Byte \in Nat \ {0, 1}
    /\ SaltLength \in Nat \ {0}
    /\ BlockLength \in Nat \ {0}
    /\ HashLength \in Nat \ {0}
    /\ KeyLength \in Nat \ {0}
    /\ Prefix \in Seq(Seq(0..(Byte - 1))) /\ Prefix # <<>>
    /\ \A user \in DOMAIN Digits : Digits[user] \in Seq(0..(Byte - 1))
    /\ Password \in Seq(0..(Byte - 1)) /\ Password # <<>>

VARIABLES
    keys,      \* the cached keys, a function on some salts
    mutex      \* the thread that holds the mutex, or Nobody

cacheVars == <<keys, mutex>>

-----------------------------------------------------------------------------
(* The derivation.                                                         *)

ValidEnc(enc) == enc < Len(Prefix)

\* The prefix and the digits, cut off or filled up with zeros.
Salt(enc, user) ==
    LET text == Prefix[enc + 1] \o Digits[user]
    IN  [i \in 1..SaltLength |-> IF i <= Len(text) THEN text[i] ELSE 0]

DivCeil(a, b) == (a + b - 1) \div b

\* data over and over, up to the end of a block: the blocks this makes
Pad(data) ==
    [k \in 1..DivCeil(Len(data), BlockLength) |-> [i \in 1..BlockLength |->
        data[(((k - 1) * BlockLength + i - 1) % Len(data)) + 1]]]

\* Fault: a carry is dropped instead of being handed on.
CarriesLost(block, digest) == [i \in 1..BlockLength |-> IF i = BlockLength THEN 1 ELSE 0]

\* The carry into each digit, from the last one on.
Carries(block, digest) ==
    LET carry[i \in 1..BlockLength] ==
            IF i = BlockLength THEN 1
            ELSE (block[i + 1] + digest[(i % HashLength) + 1] + carry[i + 1]) \div Byte
    IN  carry

\* block + (digest over and over) + 1, digit by digit
AddDigest(block, digest) ==
    LET carry == Carries(block, digest)
    IN  [i \in 1..BlockLength |->
            (block[i] + digest[((i - 1) % HashLength) + 1] + carry[i]) % Byte]

Diversifier == [i \in 1..BlockLength |-> 1 % Byte]

\* Two iterations of the hash.
Digest(blocks) == Sha1(Sha1(Diversifier \o FlattenSeq(blocks)))

Salts == {Salt(enc, user) : enc \in 0..(Len(Prefix) - 1), user \in DOMAIN Digits}

Rounds == DivCeil(KeyLength, HashLength)

\* What is hashed in round n, in blocks: each block of the round before, plus
\* the digest of all of them.
Input(salt) ==
    LET input[n \in 1..Rounds] ==
            IF n = 1 THEN Pad(salt) \o Pad(Password)
            ELSE [k \in DOMAIN input[n - 1] |->
                    AddDigest(input[n - 1][k], Digest(input[n - 1]))]
    IN  input

\* derive_key, as a function on the salts that occur: the digests of all
\* rounds, cut off at the length of the key.
DeriveKey ==
    [salt \in Salts |->
        LET input == Input(salt)
        IN  SubSeq(FlattenSeq([n \in DOMAIN input |-> Digest(input[n])]), 1, KeyLength)]

-----------------------------------------------------------------------------
(* The cache.                                                              *)

CacheInit == keys = <<>> /\ mutex = Nobody

\* The key is there: the mutex is taken and given back at once.
Hit(salt) == mutex = Nobody /\ salt \in DOMAIN keys

\* It is not: t keeps the mutex ...
Miss(t, salt) ==
    /\ mutex = Nobody /\ salt \notin DOMAIN keys
    /\ mutex' = t
    /\ UNCHANGED keys

\* ... until the key is derived and inserted.
Insert(t, salt) ==
    /\ mutex = t
    /\ keys' = [s \in DOMAIN keys \cup {salt} |-> IF s = salt THEN DeriveKey[salt] ELSE keys[s]]
    /\ mutex' = Nobody

-----------------------------------------------------------------------------
(* Reference.                                                              *)

\* Power[k] is Byte to the power of k.
Power ==
    LET power[k \in 0..BlockLength] == IF k = 0 THEN 1 ELSE Byte * power[k - 1]
    IN  power

\* The number that a block of digits stands for.
Value(block) ==
    LET upto[i \in 0..BlockLength] == IF i = 0 THEN 0 ELSE upto[i - 1] * Byte + block[i]
    IN  upto[BlockLength]

BlockOf(value) == [i \in 1..BlockLength |-> (value \div Power[BlockLength - i]) % Byte]

BlocksOf(numbers) == [k \in DOMAIN numbers |-> BlockOf(numbers[k])]

Repeated(digest) == [i \in 1..BlockLength |-> digest[((i - 1) % HashLength) + 1]]

\* RFC 7292, B.2, with the blocks of I as numbers.  Step 6.C:
\* I_j = (I_j + B + 1) mod 2^v
Numbers(salt) ==
    LET B(I) == Value(Repeated(Digest(BlocksOf(I))))
        start == Pad(salt) \o Pad(Password)
        I[n \in 1..Rounds] ==
            IF n = 1 THEN [j \in DOMAIN start |-> Value(start[j])]
            ELSE [j \in DOMAIN I[n - 1] |->
                    (I[n - 1][j] + B(I[n - 1]) + 1) % Power[BlockLength]]
    IN  I

ReferenceKey ==
    [salt \in Salts |->
        LET I == Numbers(salt)
        IN  SubSeq(FlattenSeq([n \in DOMAIN I |-> Digest(BlocksOf(I[n]))]), 1, KeyLength)]

\* Every cached key is the key RFC 7292 derives from its salt: a carry runs
\* through a whole block and is dropped at the top, and no thread's key
\* replaces another's.
KeysAreDerived == \A salt \in DOMAIN keys : keys[salt] = ReferenceKey[salt]
=============================================================================
